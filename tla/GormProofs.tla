----------------------------- MODULE GormProofs -----------------------------
(***************************************************************************)
(* Proofs about Gorm, for any number of connections and operations, from   *)
(* the empty tables.  What the statements of the programs write, the row   *)
(* locks and the foreign keys together leave no row without its owner and  *)
(* take no PID back; and the order in which the programs write leaves only *)
(* rivals to wait for each other in a cycle.  What a transaction has read  *)
(* still holds when it ends, of namespaces and resources always and of     *)
(* other rows unless another transaction has committed; each program then  *)
(* ends like one step of the storage contract.                             *)
(***************************************************************************)
EXTENDS Gorm, SequenceTheorems, TLAPS

-----------------------------------------------------------------------------
(* Rows *)

\* No operation deletes namespaces or resources.
Lasting(row) == row[1] \in {"namespaces", "resources"}

\* Rows that others refer to, and those that refer to a user.
IsParent(row) == row[1] \in {"users", "namespaces", "resources"}
OfUser(row) == row[1] \in {"user_passwords", "user_api_keys"}

ParentRows == {row \in Rows : IsParent(row)}

LEMMA RowNames ==
    /\ \A u \in Usernames :
           /\ UserRow(u) \in Rows /\ PasswordRow(u) \in Rows
           /\ KeysOf(u) \subseteq Rows /\ GrantsOf(u) \subseteq Rows /\ RolesOf(u) \subseteq Rows
    /\ \A u \in Usernames, k \in KeyIDs : KeyRow(u, k) \in Rows
    /\ \A u \in Usernames, g \in Patterns : GrantRow(u, g) \in Rows
    /\ \A u \in Usernames, n \in NamespaceIDs : RoleRow(n, u) \in Rows
    /\ \A n \in NamespaceIDs : NamespaceRow(n) \in Rows /\ NamespaceTagRow(n) \in Rows
    /\ \A n \in NamespaceIDs, p \in PIDs :
           ResourceRow(n, p) \in Rows /\ ResourceTagRow(n, p) \in Rows
    /\ \A b \in BaseURIs : MountRow(b) \in Rows
  <1>1. ASSUME NEW u \in Usernames
        PROVE  /\ UserRow(u) \in Rows /\ PasswordRow(u) \in Rows
               /\ KeysOf(u) \subseteq Rows /\ GrantsOf(u) \subseteq Rows
               /\ RolesOf(u) \subseteq Rows
    <2>1. RowsOfUser(u) \subseteq Rows
      BY DEF Rows
    <2> QED
      BY <2>1 DEF RowsOfUser
  <1>0. ASSUME NEW n \in NamespaceIDs PROVE RowsOfNamespace(n) \subseteq Rows
    BY DEF Rows
  <1>2. ASSUME NEW n \in NamespaceIDs
        PROVE  NamespaceRow(n) \in Rows /\ NamespaceTagRow(n) \in Rows
    BY <1>0 DEF RowsOfNamespace
  <1>3. ASSUME NEW n \in NamespaceIDs, NEW p \in PIDs
        PROVE  ResourceRow(n, p) \in Rows /\ ResourceTagRow(n, p) \in Rows
    BY <1>0 DEF RowsOfNamespace
  <1>4. ASSUME NEW b \in BaseURIs PROVE MountRow(b) \in Rows
    BY DEF Rows
  <1>5. ASSUME NEW u \in Usernames, NEW k \in KeyIDs PROVE KeyRow(u, k) \in KeysOf(u)
    BY DEF KeysOf
  <1>6. ASSUME NEW u \in Usernames, NEW g \in Patterns PROVE GrantRow(u, g) \in GrantsOf(u)
    BY DEF GrantsOf
  <1>7. ASSUME NEW u \in Usernames, NEW n \in NamespaceIDs PROVE RoleRow(n, u) \in RolesOf(u)
    BY DEF RolesOf
  <1> QED
    BY <1>1, <1>2, <1>3, <1>4, <1>5, <1>6, <1>7

LEMMA RowCases ==
    ASSUME NEW row \in Rows
    PROVE  \/ \E u \in Usernames :
                  row = UserRow(u) \/ row = PasswordRow(u) \/ \E k \in KeyIDs : row = KeyRow(u, k)
           \/ \E u \in Usernames, g \in Patterns : row = GrantRow(u, g)
           \/ \E u \in Usernames, n \in NamespaceIDs : row = RoleRow(n, u)
           \/ \E n \in NamespaceIDs : row = NamespaceRow(n) \/ row = NamespaceTagRow(n)
           \/ \E n \in NamespaceIDs, p \in PIDs :
                  row = ResourceRow(n, p) \/ row = ResourceTagRow(n, p)
           \/ \E b \in BaseURIs : row = MountRow(b)
  <1>1. CASE \E u \in Usernames : row \in RowsOfUser(u)
    BY <1>1 DEF RowsOfUser, KeysOf, GrantsOf, RolesOf
  <1>2. CASE \E n \in NamespaceIDs : row \in RowsOfNamespace(n)
    BY <1>2 DEF RowsOfNamespace
  <1>3. CASE row \in {MountRow(b) : b \in BaseURIs}
    BY <1>3
  <1> QED
    BY <1>1, <1>2, <1>3 DEF Rows

\* The tables of the rows.
LEMMA RowTables ==
    /\ \A u : UserRow(u)[1] = "users" /\ UserRow(u)[2] = u
    /\ \A u : PasswordRow(u)[1] = "user_passwords" /\ PasswordRow(u)[2] = u
    /\ \A u, k : KeyRow(u, k)[1] = "user_api_keys" /\ KeyRow(u, k)[2] = u
    /\ \A u, g : GrantRow(u, g)[1] = "user_mount_grants"
    /\ \A n : NamespaceRow(n)[1] = "namespaces" /\ NamespaceRow(n)[2] = n
    /\ \A n : NamespaceTagRow(n)[1] = "namespace_tags" /\ NamespaceTagRow(n)[2] = n
    /\ \A n, u : RoleRow(n, u)[1] = "namespace_roles" /\ RoleRow(n, u)[2] = n
    /\ \A b : MountRow(b)[1] = "mounts"
    /\ \A n, p : ResourceRow(n, p)[1] = "resources" /\ ResourceRow(n, p)[2] = n
    /\ \A n, p : /\ ResourceTagRow(n, p)[1] = "resource_tags"
                 /\ ResourceTagRow(n, p)[2] = n /\ ResourceTagRow(n, p)[3] = p
  BY DEF UserRow, PasswordRow, KeyRow, GrantRow, NamespaceRow, NamespaceTagRow, RoleRow,
         MountRow, ResourceRow, ResourceTagRow

\* What a row refers to depends on its value only for a mount.
LEMMA ParentsOf ==
    ASSUME NEW row, NEW v
    PROVE  /\ OfUser(row) => Parents(row, v) = {UserRow(row[2])}
           /\ row[1] \in {"namespace_tags", "namespace_roles", "resources"} =>
                  Parents(row, v) = {NamespaceRow(row[2])}
           /\ row[1] = "resource_tags" => Parents(row, v) = {ResourceRow(row[2], row[3])}
           /\ row[1] = "mounts" => Parents(row, v) = {NamespaceRow(v)}
           /\ row[1] \in {"users", "namespaces", "user_mount_grants"} => Parents(row, v) = {}
  BY DEF Parents, OfUser

LEMMA ParentFacts ==
    ASSUME NEW row \in Rows, NEW v, NEW p \in Parents(row, v)
    PROVE  /\ row[1] # "mounts" \/ v \in NamespaceIDs => p \in Rows
           /\ IsParent(p) /\ p # row
           /\ Lasting(p) \/ (OfUser(row) /\ p[1] = "users")
           /\ row[1] # "mounts" => \A w : p \in Parents(row, w)
           /\ ~OfUser(row) => Lasting(p)
  <1>1. CASE OfUser(row)
    <2>1. PICK u \in Usernames : row[2] = u
      BY <1>1, RowCases, RowTables DEF OfUser
    <2>2. p = UserRow(u) /\ \A w : Parents(row, w) = {UserRow(u)}
      BY <1>1, <2>1, ParentsOf
    <2> QED
      BY <1>1, <2>1, <2>2, RowNames, RowTables DEF IsParent, Lasting, OfUser
  <1>2. CASE row[1] \in {"namespace_tags", "namespace_roles", "resources"}
    <2>1. PICK n \in NamespaceIDs : row[2] = n
      BY <1>2, RowCases, RowTables
    <2>2. p = NamespaceRow(n) /\ \A w : Parents(row, w) = {NamespaceRow(n)}
      BY <1>2, <2>1, ParentsOf
    <2>3. p \in Rows /\ p[1] = "namespaces"
      BY <2>2, RowNames, RowTables
    <2> QED
      BY <1>2, <2>2, <2>3 DEF IsParent, Lasting, OfUser
  <1>3. CASE row[1] = "resource_tags"
    <2>1. PICK n \in NamespaceIDs, q \in PIDs : row[2] = n /\ row[3] = q
      BY <1>3, RowCases, RowTables
    <2>2. p = ResourceRow(n, q) /\ \A w : Parents(row, w) = {ResourceRow(n, q)}
      BY <1>3, <2>1, ParentsOf
    <2>3. p \in Rows /\ p[1] = "resources"
      BY <2>2, RowNames, RowTables
    <2> QED
      BY <1>3, <2>2, <2>3 DEF IsParent, Lasting, OfUser
  <1>4. CASE row[1] = "mounts"
    <2>1. p = NamespaceRow(v) /\ p[1] = "namespaces"
      BY <1>4, ParentsOf, RowTables
    <2> QED
      BY <1>4, <2>1, RowNames DEF IsParent, Lasting, OfUser
  <1>5. row[1] \notin {"users", "namespaces", "user_mount_grants"}
    BY ParentsOf
  <1> QED
    BY <1>1, <1>2, <1>3, <1>4, <1>5, RowCases, RowTables DEF OfUser

-----------------------------------------------------------------------------
(* What the statements of a program may do *)

\* A value has the columns of its table, where the proofs need them.
ValueOK(row, v) ==
    /\ row[1] = "users" => v \in Optional(UserValue)
    /\ row[1] = "namespaces" => v \in Optional(NamespaceValue)
    /\ row[1] = "resources" => v \in Optional(ResourceValue)
    /\ row[1] = "mounts" => v \in Optional(NamespaceIDs)
    /\ row[1] = "namespace_tags" => v \in Optional(Contents)
    /\ row[1] = "user_passwords" => v \in Optional(PasswordValue)
    /\ row[1] = "user_api_keys" => v \in Optional(KeyValue)
    /\ row[1] = "namespace_roles" => v # "none"

\* What no update changes.
Kept(row, v, w) ==
    /\ Lasting(row) => v.dateCreated = w.dateCreated
    /\ row[1] = "namespaces" => v.pidFormat = w.pidFormat

\* The row that an operation has read before it relies on it or saves it, and
\* the statement that reads it.
Anchored(o) == o.kind \in {"SetMount", "UpdateNamespace", "UpdateResource"}
Anchor(o) == IF o.kind = "UpdateResource" THEN ResourceRow(o.ns, o.pid) ELSE NamespaceRow(o.ns)
AnchorAt(o) == IF o.kind = "UpdateResource" THEN 2 ELSE 1

StatementOK(o, st) ==
    \/ st.do = "ensure" /\ st.row \in Rows
    \/ st.do = "first" /\ st.row \in Rows /\ (Anchored(o) => st.row = Anchor(o))
    \/ /\ st.do = "create" /\ st.row \in Rows
       /\ st.row[1] # "mounts" /\ ValueOK(st.row, st.value)
       /\ st.value # None
    \/ /\ st.do = "save" /\ st.row \in Rows
       /\ ~IsParent(st.row) /\ ValueOK(st.row, st.value) /\ st.value # None
       /\ st.row[1] = "mounts" => o.kind = "SetMount" /\ st.value = o.ns
    \/ /\ st.do = "save loaded" /\ o.kind \in {"UpdateNamespace", "UpdateResource"}
       /\ st.row = Anchor(o)
       /\ \A v : v # None /\ ValueOK(st.row, v) =>
              /\ With(v, st.set) # None
              /\ ValueOK(st.row, With(v, st.set)) /\ Kept(st.row, v, With(v, st.set))
    \/ /\ st.do = "update" /\ st.row \in Rows /\ st.row[1] = "users"
       /\ \A v \in UserValue : With(v, st.set) \in UserValue
    \/ st.do = "delete" /\ st.rows \subseteq {row \in Rows : ~Lasting(row)}

\* A sequence of such statements.
IsProgram(o, s) == \E S : s \in Seq(S) /\ \A st \in S : StatementOK(o, st)

LEMMA ProgramUnit ==
    ASSUME NEW o, NEW st, StatementOK(o, st)
    PROVE  IsProgram(o, <<st>>)
  <1> DEFINE S == {st}
  <1>1. <<st>> \in Seq(S) /\ \A x \in S : StatementOK(o, x)
    OBVIOUS
  <1> HIDE DEF S
  <1> QED
    BY <1>1 DEF IsProgram

LEMMA ProgramEach ==
    ASSUME NEW o, NEW n \in Nat, NEW s, s = [i \in 1..n |-> s[i]],
           \A i \in 1..n : StatementOK(o, s[i])
    PROVE  IsProgram(o, s)
  <1> DEFINE S == {s[i] : i \in 1..n}
  <1>1. s \in [1..n -> S]
    OBVIOUS
  <1>2. s \in Seq(S)
    BY <1>1
  <1>3. \A st \in S : StatementOK(o, st)
    OBVIOUS
  <1> QED
    BY <1>2, <1>3 DEF IsProgram

LEMMA ProgramConcat ==
    ASSUME NEW o, NEW s, NEW t, IsProgram(o, s), IsProgram(o, t)
    PROVE  IsProgram(o, s \o t)
  <1>1. PICK S : s \in Seq(S) /\ \A st \in S : StatementOK(o, st)
    BY DEF IsProgram
  <1>2. PICK T : t \in Seq(T) /\ \A st \in T : StatementOK(o, st)
    BY DEF IsProgram
  <1>3. \A st \in S \cup T : StatementOK(o, st)
    BY <1>1, <1>2
  <1>4. s \in Seq(S \cup T) /\ t \in Seq(S \cup T)
    <2>1. s \in Seq(S) /\ t \in Seq(T)
      BY <1>1, <1>2
    <2> QED
      BY <2>1
  <1>5. s \o t \in Seq(S \cup T)
    BY <1>4
  <1> QED
    BY <1>3, <1>5 DEF IsProgram

LEMMA ProgramWhen ==
    ASSUME NEW o, NEW c \in BOOLEAN, NEW s, c => IsProgram(o, s)
    PROVE  IsProgram(o, When(c, s))
  <1>1. IsProgram(o, <<>>)
    <2>1. <<>> \in Seq({}) /\ \A st \in {} : StatementOK(o, st)
      OBVIOUS
    <2> QED
      BY <2>1 DEF IsProgram
  <1> QED
    BY <1>1 DEF When

LEMMA ProgramElements ==
    ASSUME NEW o, NEW s, IsProgram(o, s)
    PROVE  Len(s) \in Nat /\ \A i \in 1..Len(s) : StatementOK(o, s[i])
  <1>1. PICK S : s \in Seq(S) /\ \A st \in S : StatementOK(o, st)
    BY DEF IsProgram
  <1> QED
    BY <1>1

\* The beginning of a program stays when something is added.
LEMMA ProgramHead ==
    ASSUME NEW o, NEW s, NEW t, IsProgram(o, s), IsProgram(o, t)
    PROVE  /\ Len(s \o t) = Len(s) + Len(t)
           /\ \A i \in 1..Len(s) : (s \o t)[i] = s[i]
           /\ \A i \in 1..Len(t) : (s \o t)[Len(s) + i] = t[i]
  <1>1. PICK S : s \in Seq(S)
    BY DEF IsProgram
  <1>2. PICK T : t \in Seq(T)
    BY DEF IsProgram
  <1>4. s \in Seq(S \cup T) /\ t \in Seq(S \cup T)
    BY <1>1, <1>2
  <1> QED
    BY <1>4

LEMMA EnsureOK ==
    ASSUME NEW o, NEW row \in Rows, NEW err
    PROVE  IsProgram(o, Ensure(row, err))
  <1>1. StatementOK(o, [do |-> "ensure", row |-> row, err |-> err])
    BY DEF StatementOK
  <1> QED
    BY <1>1, ProgramUnit DEF Ensure

LEMMA FirstOK ==
    ASSUME NEW o, NEW row \in Rows, NEW err, Anchored(o) => row = Anchor(o)
    PROVE  IsProgram(o, First(row, err))
  <1>1. StatementOK(o, [do |-> "first", row |-> row, err |-> err])
    BY DEF StatementOK
  <1> QED
    BY <1>1, ProgramUnit DEF First

LEMMA CreateOK ==
    ASSUME NEW o, NEW row \in Rows, NEW v, NEW err, row[1] # "mounts", ValueOK(row, v),
           v # None
    PROVE  IsProgram(o, Create(row, v, err))
  <1>1. StatementOK(o, [do |-> "create", row |-> row, value |-> v, err |-> err])
    BY DEF StatementOK
  <1> QED
    BY <1>1, ProgramUnit DEF Create

LEMMA SaveOK ==
    ASSUME NEW o, NEW row \in Rows, NEW v, ~IsParent(row), ValueOK(row, v),
           v # None, row[1] = "mounts" => o.kind = "SetMount" /\ v = o.ns
    PROVE  IsProgram(o, Save(row, v))
  <1>1. StatementOK(o, [do |-> "save", row |-> row, value |-> v])
    BY DEF StatementOK
  <1> QED
    BY <1>1, ProgramUnit DEF Save

LEMMA SaveLoadedOK ==
    ASSUME NEW o, NEW set, o.kind \in {"UpdateNamespace", "UpdateResource"},
           \A v : v # None /\ ValueOK(Anchor(o), v) =>
               /\ With(v, set) # None
               /\ ValueOK(Anchor(o), With(v, set)) /\ Kept(Anchor(o), v, With(v, set))
    PROVE  IsProgram(o, SaveLoaded(Anchor(o), set))
  <1>1. StatementOK(o, [do |-> "save loaded", row |-> Anchor(o), set |-> set])
    BY DEF StatementOK
  <1> QED
    BY <1>1, ProgramUnit DEF SaveLoaded

LEMMA UpdateOK ==
    ASSUME NEW o, NEW row \in Rows, NEW set, row[1] = "users",
           \A v \in UserValue : With(v, set) \in UserValue
    PROVE  IsProgram(o, Update(row, set))
  <1>1. StatementOK(o, [do |-> "update", row |-> row, set |-> set])
    BY DEF StatementOK
  <1> QED
    BY <1>1, ProgramUnit DEF Update

LEMMA DeleteOK ==
    ASSUME NEW o, NEW rows, NEW err, \A row \in rows : row \in Rows /\ ~Lasting(row)
    PROVE  IsProgram(o, Delete(rows, err))
  <1>1. StatementOK(o, [do |-> "delete", rows |-> rows, err |-> err])
    BY DEF StatementOK
  <1> QED
    BY <1>1, ProgramUnit DEF Delete

\* The rows the programs name, and their tables.
LEMMA Tables ==
    /\ \A u : /\ IsParent(UserRow(u)) /\ ~Lasting(UserRow(u))
              /\ ~IsParent(PasswordRow(u)) /\ ~Lasting(PasswordRow(u))
              /\ \A row \in KeysOf(u) \cup GrantsOf(u) \cup RolesOf(u) :
                     ~IsParent(row) /\ ~Lasting(row)
    /\ \A u, k : ~IsParent(KeyRow(u, k)) /\ ~Lasting(KeyRow(u, k))
    /\ \A u, g : ~IsParent(GrantRow(u, g)) /\ ~Lasting(GrantRow(u, g))
    /\ \A n, u : ~IsParent(RoleRow(n, u)) /\ ~Lasting(RoleRow(n, u))
    /\ \A n : ~IsParent(NamespaceTagRow(n)) /\ ~Lasting(NamespaceTagRow(n))
    /\ \A n, p : ~IsParent(ResourceTagRow(n, p)) /\ ~Lasting(ResourceTagRow(n, p))
    /\ \A b : ~IsParent(MountRow(b)) /\ ~Lasting(MountRow(b))
    /\ \A n : IsParent(NamespaceRow(n)) /\ Lasting(NamespaceRow(n))
    /\ \A n, p : IsParent(ResourceRow(n, p)) /\ Lasting(ResourceRow(n, p))
  BY RowTables DEF IsParent, Lasting, KeysOf, GrantsOf, RolesOf

\* Any value will do for a row of a table that has no columns here.
LEMMA AnyValue ==
    ASSUME NEW row, NEW v, ~IsParent(row), ~OfUser(row),
           row[1] \notin {"mounts", "namespace_tags", "namespace_roles"}
    PROVE  ValueOK(row, v)
  BY DEF ValueOK, IsParent, OfUser

-----------------------------------------------------------------------------
(* Programs of accounts *)

AccountKinds ==
    {"CreateUser", "DeleteUser", "UpdateUser", "SetMountGrant", "DeleteMountGrant",
     "SetPassword", "CreateKey", "RevokeKey"}
NamespaceKinds ==
    {"CreateNamespace", "UpdateNamespace", "SetNamespaceRole", "DeleteNamespaceRole",
     "SetMount", "DeleteMount"}
ResourceKinds == {"CreateResource", "BatchCreateResources", "UpdateResource"}

LEMMA KindsDiffer ==
    \A k : /\ k \in AccountKinds => k \notin NamespaceKinds /\ k \notin ResourceKinds
           /\ k \in NamespaceKinds => k \notin ResourceKinds
  BY DEF AccountKinds, NamespaceKinds, ResourceKinds

LEMMA AccountFields ==
    ASSUME NEW o \in AccountOps
    PROVE  /\ o.kind \in AccountKinds /\ ~Anchored(o)
           /\ o.user \in Usernames
           /\ o.kind = "CreateUser" => o.superuser \in BOOLEAN
           /\ o.kind = "UpdateUser" => o.superuser \in Optional(BOOLEAN)
           /\ o.kind \in {"SetMountGrant", "DeleteMountGrant"} => o.pattern \in Patterns
           /\ o.kind \in {"CreateKey", "RevokeKey"} => o.key \in KeyIDs
           /\ o.kind = "SetPassword" => o.password \in Optional(Passwords)
           /\ o.kind = "CreateKey" =>
                  /\ o.raw \in Prefixes \X Suffixes
                  /\ o.expiresAt \in Optional(Times) /\ o.scopes \in KeyScopes
  BY DEF AccountOps, AccountKinds, Anchored

LEMMA AccountPrograms ==
    ASSUME NEW o \in AccountOps
    PROVE  IsProgram(o, Program(o))
  <1> DEFINE u == o.user
  <1>0. u \in Usernames /\ o.kind \in AccountKinds /\ ~Anchored(o)
    BY AccountFields
  <1>1. \A err : IsProgram(o, Ensure(UserRow(u), err)) /\ IsProgram(o, First(UserRow(u), err))
    BY <1>0, RowNames, EnsureOK, FirstOK
  <1>2. IsProgram(o, ensureUserExists(u))
    BY <1>1 DEF ensureUserExists
  <1>3. CASE o.kind = "CreateUser"
    <2>1. [superuser |-> o.superuser] \in UserValue
      BY <1>3, AccountFields DEF UserValue
    <2>2. ValueOK(UserRow(u), [superuser |-> o.superuser]) /\ [superuser |-> o.superuser] # None
      BY <2>1, RowTables, NoneIsNoValue DEF ValueOK, Optional
    <2>3. IsProgram(o, CreateUser(o))
      BY <1>0, <2>2, RowNames, RowTables, CreateOK DEF CreateUser
    <2> QED
      BY <1>3, <2>3 DEF Program
  <1>4. CASE o.kind = "DeleteUser"
    <2>1. /\ IsProgram(o, Delete(RolesOf(u), "nil")) /\ IsProgram(o, Delete(GrantsOf(u), "nil"))
          /\ IsProgram(o, Delete(KeysOf(u), "nil"))
      BY <1>0, RowNames, Tables, DeleteOK
    <2>2. IsProgram(o, Delete({PasswordRow(u)}, "nil")) /\ IsProgram(o, Delete({UserRow(u)}, "nil"))
      BY <1>0, RowNames, Tables, DeleteOK
    <2>3. IsProgram(o, DeleteUser(o))
      BY <1>2, <2>1, <2>2, ProgramConcat DEF DeleteUser
    <2> QED
      BY <1>4, <2>3 DEF Program
  <1>5. CASE o.kind = "UpdateUser"
    <2>1. ASSUME o.superuser # None
          PROVE  IsProgram(o, Update(UserRow(u), [superuser |-> o.superuser]))
      <3>1. o.superuser \in BOOLEAN
        BY <1>5, <2>1, AccountFields DEF Optional
      <3>2. \A v \in UserValue : With(v, [superuser |-> o.superuser]) \in UserValue
        BY <3>1 DEF UserValue, With
      <3> QED
        BY <1>0, <3>2, RowNames, RowTables, UpdateOK
    <2>2. IsProgram(o, UpdateUser(o))
      BY <1>1, <2>1, ProgramWhen, ProgramConcat DEF UpdateUser
    <2> QED
      BY <1>5, <2>2 DEF Program
  <1>6. CASE o.kind \in {"SetMountGrant", "DeleteMountGrant"}
    <2> DEFINE row == GrantRow(u, o.pattern)
    <2>1. /\ row \in Rows /\ ~IsParent(row) /\ ~Lasting(row)
          /\ row[1] \notin {"mounts", "namespace_tags", "namespace_roles"} /\ ~OfUser(row)
      BY <1>0, <1>6, AccountFields, RowNames, RowTables, Tables DEF OfUser
    <2>2. IsProgram(o, Save(row, "granted")) /\ IsProgram(o, Delete({row}, "ErrMountGrantNotFound"))
      BY <2>1, SaveOK, DeleteOK, AnyValue, GormAssumption
    <2>3. IsProgram(o, SetMountGrant(o)) /\ IsProgram(o, DeleteMountGrant(o))
      BY <1>2, <2>2, ProgramConcat DEF SetMountGrant, DeleteMountGrant
    <2> QED
      BY <1>6, <2>3 DEF Program
  <1>7. CASE o.kind = "SetPassword"
    <2> DEFINE row == PasswordRow(u)
    <2>1. /\ row \in Rows /\ ~IsParent(row) /\ ~Lasting(row)
          /\ row[1] \notin {"mounts", "namespace_tags"}
      BY <1>0, RowNames, RowTables, Tables
    <2>2. ASSUME o.password # None PROVE IsProgram(o, Save(row, PasswordHash(o.password)))
      <3>1. PasswordHash(o.password) \in PasswordValue
        BY <1>7, <2>2, AccountFields DEF Optional, PasswordValue, PasswordHash
      <3>2. ValueOK(row, PasswordHash(o.password)) /\ PasswordHash(o.password) # None
        BY <3>1, RowTables, NoneIsNoValue DEF ValueOK, Optional
      <3> QED
        BY <2>1, <3>2, SaveOK
    <2>3. IsProgram(o, Delete({row}, "nil"))
      BY <2>1, DeleteOK
    <2>4. IsProgram(o, SetPassword(o))
      BY <1>2, <2>2, <2>3, ProgramConcat DEF SetPassword
    <2> QED
      BY <1>7, <2>4 DEF Program
  <1>8. CASE o.kind \in {"CreateKey", "RevokeKey"}
    <2> DEFINE row == KeyRow(u, o.key)
    <2>1. /\ row \in Rows /\ ~IsParent(row) /\ ~Lasting(row)
          /\ row[1] \notin {"mounts", "namespace_tags"}
      BY <1>0, <1>8, AccountFields, RowNames, RowTables, Tables
    <2>2. ASSUME o.kind = "CreateKey" PROVE IsProgram(o, Create(row, NewKey(o), "ErrKeyCollision"))
      <3>1. NewKey(o) \in KeyValue
        BY <2>2, AccountFields DEF NewKey, KeyValue, Digest
      <3>2. ValueOK(row, NewKey(o)) /\ NewKey(o) # None
        BY <3>1, RowTables, NoneIsNoValue DEF ValueOK, Optional
      <3> QED
        BY <2>1, <3>2, CreateOK
    <2>3. IsProgram(o, Ensure(row, "ErrKeyNotFound")) /\ IsProgram(o, Delete({row}, "nil"))
      BY <2>1, EnsureOK, DeleteOK
    <2>4. (o.kind = "CreateKey" => IsProgram(o, CreateKey(o))) /\ IsProgram(o, RevokeKey(o))
      BY <1>2, <2>2, <2>3, ProgramConcat DEF CreateKey, RevokeKey
    <2> QED
      BY <1>8, <2>4 DEF Program
  <1> QED
    BY <1>0, <1>3, <1>4, <1>5, <1>6, <1>7, <1>8 DEF AccountKinds

-----------------------------------------------------------------------------
(* Programs of namespaces, roles and mounts *)

LEMMA NamespaceFields ==
    ASSUME NEW o \in NamespaceOps
    PROVE  /\ o.kind \in NamespaceKinds
           /\ o.kind # "DeleteMount" => o.ns \in NamespaceIDs
           /\ o.kind = "CreateNamespace" =>
                  /\ o.owner \in Optional(Usernames) /\ o.format \in Formats
                  /\ o.tags \in Contents /\ o.now \in Times
           /\ o.kind = "UpdateNamespace" => o.tags \in Optional(Contents) /\ o.now \in Times
           /\ o.kind \in {"SetNamespaceRole", "DeleteNamespaceRole"} => o.user \in Usernames
           /\ o.kind = "SetNamespaceRole" => o.role \in SomeRoles
           /\ o.kind \in {"SetMount", "DeleteMount"} => o.base \in BaseURIs
  BY DEF NamespaceOps, NamespaceKinds

\* Saving a namespace that was read sets the date of the update only.
LEMMA SavedNamespace ==
    ASSUME NEW n, NEW now \in Times, NEW v, v # None, ValueOK(NamespaceRow(n), v)
    PROVE  LET w == With(v, [dateUpdated |-> now])
           IN  /\ w # None /\ ValueOK(NamespaceRow(n), w)
               /\ Kept(NamespaceRow(n), v, w)
  <1> DEFINE w == With(v, [dateUpdated |-> now])
  <1>1. v \in NamespaceValue
    BY RowTables DEF ValueOK, Optional
  <1>2. w \in NamespaceValue /\ v.dateCreated = w.dateCreated /\ v.pidFormat = w.pidFormat
    BY <1>1 DEF NamespaceValue, With
  <1> HIDE DEF w
  <1>3. w # None /\ ValueOK(NamespaceRow(n), w) /\ Kept(NamespaceRow(n), v, w)
    BY <1>2, NoneIsNoValue, RowTables DEF ValueOK, Optional, Kept
  <1> QED
    BY <1>3 DEF w

LEMMA UpdateNamespaceProgram ==
    ASSUME NEW o \in NamespaceOps, o.kind = "UpdateNamespace"
    PROVE  /\ IsProgram(o, Program(o))
           /\ Anchor(o) \in Rows /\ 1 \in 1..Len(Program(o))
           /\ Program(o)[1].do = "first" /\ Program(o)[1].row = Anchor(o)
  <1> DEFINE a == First(NamespaceRow(o.ns), "ErrNamespaceNotFound")
             b == When(o.tags # None, Delete({NamespaceTagRow(o.ns)}, "nil"))
             c == When(o.tags \notin {None, Plain},
                       Create(NamespaceTagRow(o.ns), o.tags, "DatabaseError"))
             d == SaveLoaded(NamespaceRow(o.ns), [dateUpdated |-> o.now])
  <1>1. Anchor(o) = NamespaceRow(o.ns) /\ o.ns \in NamespaceIDs
    BY NamespaceFields DEF Anchor
  <1>2. IsProgram(o, a)
    BY <1>1, RowNames, FirstOK
  <1>3. IsProgram(o, b)
    <2>1. IsProgram(o, Delete({NamespaceTagRow(o.ns)}, "nil"))
      BY <1>1, RowNames, Tables, DeleteOK
    <2> QED
      BY <2>1, ProgramWhen
  <1>4. IsProgram(o, c)
    <2>0. ValueOK(NamespaceTagRow(o.ns), o.tags)
      BY NamespaceFields, RowTables DEF ValueOK
    <2>1. o.tags # None =>
              IsProgram(o, Create(NamespaceTagRow(o.ns), o.tags, "DatabaseError"))
      BY <1>1, <2>0, RowNames, RowTables, Tables, CreateOK
    <2> QED
      BY <2>1, ProgramWhen
  <1>5. IsProgram(o, d)
    BY <1>1, NamespaceFields, SaveLoadedOK, SavedNamespace
  <1>6. Program(o) = a \o b \o c \o d
    BY DEF Program, UpdateNamespace
  <1>7. Len(a) = 1 /\ a[1].do = "first" /\ a[1].row = Anchor(o)
    BY <1>1 DEF First
  <1> HIDE DEF a, b, c, d
  <1>8. IsProgram(o, a \o b) /\ IsProgram(o, a \o b \o c) /\ IsProgram(o, a \o b \o c \o d)
    BY <1>2, <1>3, <1>4, <1>5, ProgramConcat
  <1>9. Len(a \o b) >= 1 /\ (a \o b)[1] = a[1]
    BY <1>2, <1>3, <1>7, ProgramHead, ProgramElements
  <1>10. Len(a \o b \o c) >= 1 /\ (a \o b \o c)[1] = a[1]
    BY <1>4, <1>8, <1>9, ProgramHead, ProgramElements
  <1>11. Len(a \o b \o c \o d) >= 1 /\ (a \o b \o c \o d)[1] = a[1]
    BY <1>5, <1>8, <1>10, ProgramHead, ProgramElements
  <1>12. Len(a \o b \o c \o d) \in Nat
    BY <1>8, ProgramElements
  <1> QED
    BY <1>1, <1>6, <1>7, <1>8, <1>11, <1>12, RowNames

LEMMA SetMountProgram ==
    ASSUME NEW o \in NamespaceOps, o.kind = "SetMount"
    PROVE  /\ IsProgram(o, Program(o))
           /\ Anchor(o) \in Rows /\ 1 \in 1..Len(Program(o))
           /\ Program(o)[1].do = "ensure" /\ Program(o)[1].row = Anchor(o)
  <1> DEFINE a == ensureNamespaceExists(o.ns)
             b == Save(MountRow(o.base), o.ns)
  <1>1. Anchor(o) = NamespaceRow(o.ns) /\ o.ns \in NamespaceIDs
    BY NamespaceFields DEF Anchor
  <1>2. IsProgram(o, a)
    BY <1>1, RowNames, EnsureOK DEF ensureNamespaceExists
  <1>3. IsProgram(o, b)
    <2>1. MountRow(o.base) \in Rows /\ ~IsParent(MountRow(o.base))
      BY NamespaceFields, RowNames, Tables
    <2>2. ValueOK(MountRow(o.base), o.ns)
      BY <1>1, RowTables DEF ValueOK, Optional
    <2> QED
      BY <1>1, <2>1, <2>2, SaveOK, GormAssumption
  <1>4. Program(o) = a \o b
    BY DEF Program, SetMount
  <1>5. Len(a) = 1 /\ a[1].do = "ensure" /\ a[1].row = Anchor(o)
    BY <1>1 DEF ensureNamespaceExists, Ensure
  <1> HIDE DEF a, b
  <1>6. IsProgram(o, a \o b)
    BY <1>2, <1>3, ProgramConcat
  <1>7. Len(a \o b) \in Nat /\ Len(a \o b) >= 1 /\ (a \o b)[1] = a[1]
    BY <1>2, <1>3, <1>5, <1>6, ProgramHead, ProgramElements
  <1> QED
    BY <1>1, <1>4, <1>5, <1>6, <1>7, RowNames

LEMMA NamespacePrograms ==
    ASSUME NEW o \in NamespaceOps
    PROVE  IsProgram(o, Program(o))
  <1>0. o.kind \in NamespaceKinds
    BY NamespaceFields
  <1>1. ASSUME o.kind # "DeleteMount" PROVE IsProgram(o, ensureNamespaceExists(o.ns))
    BY <1>1, NamespaceFields, RowNames, EnsureOK DEF ensureNamespaceExists
  <1>2. CASE o.kind = "CreateNamespace"
    <2> DEFINE row == NamespaceRow(o.ns)
               v == [pidFormat |-> o.format, dateCreated |-> o.now, dateUpdated |-> o.now]
    <2>1. v \in NamespaceValue
      BY <1>2, NamespaceFields DEF NamespaceValue
    <2>2. row \in Rows /\ row[1] # "mounts" /\ ValueOK(row, v) /\ v # None
      BY <1>2, <2>1, NamespaceFields, RowNames, RowTables, NoneIsNoValue DEF ValueOK, Optional
    <2>3. IsProgram(o, Create(row, v, "ErrDuplicateNamespaceID"))
      <3> HIDE DEF row, v
      <3> QED
        BY <2>2, CreateOK
    <2>4. IsProgram(o, Create(NamespaceTagRow(o.ns), o.tags, "ErrDuplicateNamespaceID"))
      <3>1. ValueOK(NamespaceTagRow(o.ns), o.tags)
        BY <1>2, NamespaceFields, RowTables DEF ValueOK, Optional
      <3> QED
        BY <1>2, <3>1, NamespaceFields, RowNames, RowTables, Tables, CreateOK, GormAssumption
    <2>5. ASSUME o.owner # None
          PROVE  /\ IsProgram(o, Create(RoleRow(o.ns, o.owner), "manager", "DatabaseError"))
                 /\ IsProgram(o, ensureUserExists(o.owner))
      <3>1. o.owner \in Usernames /\ o.ns \in NamespaceIDs
        BY <1>2, <2>5, NamespaceFields DEF Optional
      <3>2. IsProgram(o, Create(RoleRow(o.ns, o.owner), "manager", "DatabaseError"))
        <4>1. ValueOK(RoleRow(o.ns, o.owner), "manager")
          BY RowTables DEF ValueOK
        <4> QED
          BY <3>1, <4>1, RowNames, RowTables, Tables, CreateOK, GormAssumption
      <3> QED
        BY <3>1, <3>2, RowNames, EnsureOK DEF ensureUserExists
    <2>6. IsProgram(o, CreateNamespace(o))
      BY <2>3, <2>4, <2>5, ProgramWhen, ProgramConcat DEF CreateNamespace
    <2> QED
      BY <1>2, <2>6 DEF Program
  <1>3. CASE o.kind = "UpdateNamespace"
    BY <1>3, UpdateNamespaceProgram
  <1>4. CASE o.kind \in {"SetNamespaceRole", "DeleteNamespaceRole"}
    <2> DEFINE row == RoleRow(o.ns, o.user)
    <2>1. /\ row \in Rows /\ ~IsParent(row) /\ ~Lasting(row)
          /\ row[1] = "namespace_roles"
      BY <1>4, NamespaceFields, RowNames, RowTables, Tables
    <2>2. \A err : IsProgram(o, Delete({row}, err))
      BY <2>1, DeleteOK
    <2>3. ASSUME o.kind = "SetNamespaceRole", o.role # "none" PROVE IsProgram(o, Save(row, o.role))
      <3>1. ValueOK(row, o.role) /\ o.role # None
        BY <2>1, <2>3, NamespaceFields, GormAssumption DEF ValueOK
      <3> QED
        BY <2>1, <3>1, SaveOK
    <2>4. CASE o.kind = "SetNamespaceRole"
      BY <1>1, <2>2, <2>3, <2>4, ProgramConcat DEF SetNamespaceRole, Program
    <2>5. CASE o.kind = "DeleteNamespaceRole"
      BY <2>2, <2>5 DEF DeleteNamespaceRole, Program
    <2> QED
      BY <1>4, <2>4, <2>5
  <1>5. CASE o.kind = "SetMount"
    BY <1>5, SetMountProgram
  <1>6. CASE o.kind = "DeleteMount"
    <2>1. IsProgram(o, DeleteMount(o))
      BY <1>6, NamespaceFields, RowNames, Tables, DeleteOK DEF DeleteMount
    <2> QED
      BY <1>6, <2>1 DEF Program
  <1> QED
    BY <1>0, <1>2, <1>3, <1>4, <1>5, <1>6 DEF NamespaceKinds

-----------------------------------------------------------------------------
(* Programs of resources *)

LEMMA ResourceFields ==
    ASSUME NEW o \in ResourceOps
    PROVE  /\ o.kind \in ResourceKinds
           /\ o.ns \in NamespaceIDs /\ o.now \in Times
           /\ o.kind \in {"CreateResource", "UpdateResource"} => o.pid \in PIDs
           /\ o.kind \in {"CreateResource", "BatchCreateResources"} => o.content \in Contents
           /\ o.kind = "UpdateResource" =>
                  o.content \in Optional(Contents) /\ o.deleted \in Optional(BOOLEAN)
           /\ o.kind = "BatchCreateResources" =>
                  \E len \in 1..MaxBatch : o.pids \in [1..len -> PIDs]
  BY DEF ResourceOps, ResourceKinds

\* Saving a resource that was read keeps the date of its creation.
LEMMA SavedResource ==
    ASSUME NEW n, NEW p, NEW content \in Optional(Contents), NEW deleted \in Optional(BOOLEAN),
           NEW now \in Times, NEW v, v # None, ValueOK(ResourceRow(n, p), v)
    PROVE  LET w == With(v, Given([content |-> content, deleted |-> deleted,
                                   dateUpdated |-> now]))
           IN  /\ w # None /\ ValueOK(ResourceRow(n, p), w)
               /\ Kept(ResourceRow(n, p), v, w)
  <1> DEFINE w == With(v, Given([content |-> content, deleted |-> deleted, dateUpdated |-> now]))
  <1>1. v \in ResourceValue
    BY RowTables DEF ValueOK, Optional
  <1>2. w \in ResourceValue /\ v.dateCreated = w.dateCreated
    BY <1>1 DEF ResourceValue, With, Given, Optional
  <1> HIDE DEF w
  <1>3. w # None /\ ValueOK(ResourceRow(n, p), w) /\ Kept(ResourceRow(n, p), v, w)
    BY <1>2, NoneIsNoValue, RowTables DEF ValueOK, Optional, Kept
  <1> QED
    BY <1>3 DEF w

LEMMA UpdateResourceProgram ==
    ASSUME NEW o \in ResourceOps, o.kind = "UpdateResource"
    PROVE  /\ IsProgram(o, Program(o))
           /\ Anchor(o) \in Rows /\ 2 \in 1..Len(Program(o))
           /\ Program(o)[1].do = "ensure"
           /\ Program(o)[2].do = "first" /\ Program(o)[2].row = Anchor(o)
  <1> DEFINE set == Given([content |-> o.content, deleted |-> o.deleted, dateUpdated |-> o.now])
             a == ensureNamespaceExists(o.ns)
             b == First(ResourceRow(o.ns, o.pid), "ErrResourceNotFound")
             c == SaveLoaded(ResourceRow(o.ns, o.pid), set)
             d == When(o.content # None, Delete({ResourceTagRow(o.ns, o.pid)}, "nil"))
             e == When(o.content \notin {None, Plain},
                       Create(ResourceTagRow(o.ns, o.pid), o.content, "DatabaseError"))
  <1>1. Anchor(o) = ResourceRow(o.ns, o.pid) /\ o.pid \in PIDs /\ o.ns \in NamespaceIDs
    BY ResourceFields DEF Anchor
  <1>2. IsProgram(o, a) /\ IsProgram(o, b)
    BY <1>1, RowNames, EnsureOK, FirstOK DEF ensureNamespaceExists
  <1>3. IsProgram(o, c)
    BY <1>1, ResourceFields, SaveLoadedOK, SavedResource
  <1>4. IsProgram(o, d)
    <2>1. IsProgram(o, Delete({ResourceTagRow(o.ns, o.pid)}, "nil"))
      BY <1>1, RowNames, Tables, DeleteOK
    <2> QED
      BY <2>1, ProgramWhen
  <1>5. IsProgram(o, e)
    <2>1. o.content # None =>
              IsProgram(o, Create(ResourceTagRow(o.ns, o.pid), o.content, "DatabaseError"))
      <3>1. ~OfUser(ResourceTagRow(o.ns, o.pid))
        BY RowTables DEF OfUser
      <3> QED
        BY <1>1, <3>1, RowNames, RowTables, Tables, CreateOK, AnyValue
    <2> QED
      BY <2>1, ProgramWhen
  <1>6. Program(o) = a \o b \o c \o d \o e
    BY DEF Program, UpdateResource
  <1>7. Len(a) = 1 /\ a[1].do = "ensure" /\ Len(b) = 1 /\ b[1].do = "first" /\ b[1].row = Anchor(o)
    BY <1>1 DEF ensureNamespaceExists, Ensure, First
  <1> HIDE DEF set, a, b, c, d, e
  <1>8. /\ IsProgram(o, a \o b) /\ IsProgram(o, a \o b \o c)
        /\ IsProgram(o, a \o b \o c \o d) /\ IsProgram(o, a \o b \o c \o d \o e)
    BY <1>2, <1>3, <1>4, <1>5, ProgramConcat
  <1>9. Len(a \o b) >= 2 /\ (a \o b)[1] = a[1] /\ (a \o b)[2] = b[1]
    BY <1>2, <1>7, ProgramHead, ProgramElements
  <1>10. Len(a \o b \o c) >= 2 /\ (a \o b \o c)[1] = a[1] /\ (a \o b \o c)[2] = b[1]
    BY <1>3, <1>8, <1>9, ProgramHead, ProgramElements
  <1>11. Len(a \o b \o c \o d) >= 2 /\ (a \o b \o c \o d)[1] = a[1] /\ (a \o b \o c \o d)[2] = b[1]
    BY <1>4, <1>8, <1>10, ProgramHead, ProgramElements
  <1>12. /\ Len(a \o b \o c \o d \o e) >= 2
         /\ (a \o b \o c \o d \o e)[1] = a[1] /\ (a \o b \o c \o d \o e)[2] = b[1]
    BY <1>5, <1>8, <1>11, ProgramHead, ProgramElements
  <1>13. Len(a \o b \o c \o d \o e) \in Nat
    BY <1>8, ProgramElements
  <1> QED
    BY <1>1, <1>6, <1>7, <1>8, <1>12, <1>13, RowNames

LEMMA ResourcePrograms ==
    ASSUME NEW o \in ResourceOps
    PROVE  IsProgram(o, Program(o))
  <1>0. o.kind \in ResourceKinds /\ o.ns \in NamespaceIDs
    BY ResourceFields
  <1>1. IsProgram(o, ensureNamespaceExists(o.ns))
    BY <1>0, RowNames, EnsureOK DEF ensureNamespaceExists
  <1>2. ASSUME NEW p \in PIDs, o.kind \in {"CreateResource", "BatchCreateResources"}
        PROVE  IsProgram(o, InsertRow(o, p)) /\ IsProgram(o, InsertTags(o, p))
    <2> DEFINE row == ResourceRow(o.ns, p)
               v == NewRow(o.content, o.now)
    <2>1. v \in ResourceValue
      BY <1>2, ResourceFields DEF ResourceValue, NewRow
    <2>2. row \in Rows /\ row[1] # "mounts" /\ ValueOK(row, v) /\ v # None
      BY <1>0, <2>1, RowNames, RowTables, NoneIsNoValue DEF ValueOK, Optional
    <2>3. IsProgram(o, InsertRow(o, p))
      <3> HIDE DEF row, v
      <3>1. IsProgram(o, Create(row, v, "ErrPIDAllocationFailed"))
        BY <2>2, CreateOK
      <3> QED
        BY <3>1 DEF InsertRow, row, v
    <2>4. IsProgram(o, Create(ResourceTagRow(o.ns, p), o.content, "ErrPIDAllocationFailed"))
      <3>1. ~OfUser(ResourceTagRow(o.ns, p))
        BY RowTables DEF OfUser
      <3> QED
        BY <1>0, <1>2, <3>1, RowNames, RowTables, Tables, CreateOK, AnyValue, ResourceFields,
           GormAssumption
    <2> QED
      BY <2>3, <2>4, ProgramWhen DEF InsertTags
  <1>3. CASE o.kind = "CreateResource"
    <2>1. IsProgram(o, CreateResource(o))
      BY <1>1, <1>2, <1>3, ResourceFields, ProgramConcat DEF CreateResource
    <2> QED
      BY <1>3, <2>1 DEF Program
  <1>4. CASE o.kind = "BatchCreateResources"
    <2>0. PICK len \in 1..MaxBatch : o.pids \in [1..len -> PIDs]
      BY <1>4, ResourceFields
    <2> DEFINE rows == [i \in DOMAIN o.pids |-> InsertRow(o, o.pids[i])[1]]
               tags == [i \in DOMAIN o.pids |-> InsertTags(o, o.pids[i])[1]]
    <2>1. len \in Nat /\ DOMAIN o.pids = 1..len /\ \A i \in 1..len : o.pids[i] \in PIDs
      BY <2>0, GormAssumption
    <2>2. IsProgram(o, rows)
      <3>1. \A i \in 1..len : StatementOK(o, InsertRow(o, o.pids[i])[1])
        <4> TAKE i \in 1..len
        <4>1. IsProgram(o, InsertRow(o, o.pids[i])) /\ Len(InsertRow(o, o.pids[i])) = 1
          BY <1>2, <1>4, <2>1 DEF InsertRow, Create
        <4> QED
          BY <4>1, ProgramElements
      <3> QED
        BY <2>1, <3>1, ProgramEach
    <2>3. o.content # Plain => IsProgram(o, tags)
      <3>1. ASSUME o.content # Plain, NEW i \in 1..len
            PROVE  StatementOK(o, InsertTags(o, o.pids[i])[1])
        <4>1. IsProgram(o, InsertTags(o, o.pids[i])) /\ Len(InsertTags(o, o.pids[i])) = 1
          BY <1>2, <1>4, <2>1, <3>1 DEF InsertTags, When, Create
        <4> QED
          BY <4>1, ProgramElements
      <3> QED
        BY <2>1, <3>1, ProgramEach
    <2> HIDE DEF rows, tags
    <2>4. IsProgram(o, When(o.content # Plain, tags))
      BY <2>3, ProgramWhen
    <2>5. IsProgram(o, BatchCreateResources(o))
      BY <1>1, <2>2, <2>4, ProgramConcat DEF BatchCreateResources, rows, tags
    <2> QED
      BY <1>4, <2>5 DEF Program
  <1>5. CASE o.kind = "UpdateResource"
    BY <1>5, UpdateResourceProgram
  <1> QED
    BY <1>0, <1>3, <1>4, <1>5 DEF ResourceKinds

\* The statements of every operation, and where it reads what it relies on.
LEMMA Programs ==
    ASSUME NEW o \in Operations
    PROVE  /\ Len(Program(o)) \in Nat
           /\ \A i \in 1..Len(Program(o)) : StatementOK(o, Program(o)[i])
           /\ Anchored(o) =>
                  /\ Anchor(o) \in Rows /\ Lasting(Anchor(o))
                  /\ AnchorAt(o) \in 1..Len(Program(o))
                  /\ Program(o)[AnchorAt(o)].row = Anchor(o)
                  /\ o.kind = "SetMount" => Program(o)[AnchorAt(o)].do = "ensure"
                  /\ o.kind # "SetMount" => Program(o)[AnchorAt(o)].do = "first"
  <1>1. IsProgram(o, Program(o))
    BY AccountPrograms, NamespacePrograms, ResourcePrograms DEF Operations
  <1>2. Lasting(Anchor(o))
    BY Tables DEF Anchor
  <1>3. CASE o.kind \in {"SetMount", "UpdateNamespace"}
    <2>1. o \in NamespaceOps
      BY <1>3, KindsDiffer, AccountFields, ResourceFields
         DEF Operations, NamespaceKinds, AccountKinds, ResourceKinds
    <2>2. AnchorAt(o) = 1
      BY <1>3 DEF AnchorAt
    <2> QED
      BY <1>1, <1>2, <1>3, <2>1, <2>2, UpdateNamespaceProgram, SetMountProgram, ProgramElements
  <1>4. CASE o.kind = "UpdateResource"
    <2>1. o \in ResourceOps
      BY <1>4, KindsDiffer, AccountFields, NamespaceFields
         DEF Operations, NamespaceKinds, AccountKinds, ResourceKinds
    <2>2. AnchorAt(o) = 2
      BY <1>4 DEF AnchorAt
    <2> QED
      BY <1>1, <1>2, <1>4, <2>1, <2>2, UpdateResourceProgram, ProgramElements
  <1> QED
    BY <1>1, <1>3, <1>4, ProgramElements DEF Anchored

-----------------------------------------------------------------------------
(* The invariant *)

\* Committed and written rows have the columns of their tables; a written
\* version of a lasting row keeps what no update changes.
Typed ==
    /\ DOMAIN db = Rows
    /\ \A row \in Rows : ValueOK(row, db[row])
    /\ \A t \in Sessions :
           /\ DOMAIN pending[t] \subseteq Rows /\ shared[t] \subseteq ParentRows
           /\ \A row \in DOMAIN pending[t] :
                  /\ ValueOK(row, pending[t][row].to)
                  /\ Lasting(row) => pending[t][row].to # None
                  /\ Lasting(row) /\ db[row] # None => Kept(row, db[row], pending[t][row].to)

\* What a foreign key names is there, for everybody and for each transaction.
Owned ==
    /\ \A row \in Rows : db[row] # None => \A p \in Parents(row, db[row]) : db[p] # None
    /\ \A t \in Sessions : \A row \in Rows :
           View(t, row) # None => \A p \in Parents(row, View(t, row)) : View(t, p) # None

\* A row has one writer; a row that a transaction deletes is not locked by
\* another; and a transaction that adds a password or key to a user locks the
\* user.
Locks ==
    /\ \A s, t \in Sessions :
           s # t => \A row \in DOMAIN pending[s] :
                        /\ row \notin DOMAIN pending[t]
                        /\ pending[s][row].to = None => row \notin shared[t]
    /\ \A t \in Sessions : \A row \in DOMAIN pending[t] :
           OfUser(row) /\ pending[t][row].to # None =>
               db[row] # None \/ UserRow(row[2]) \in shared[t]

\* What transaction t has read and relies on is there, and what it has loaded
\* agrees with it in what no update changes.
Secured(t) ==
    LET row == Anchor(op[t])
    IN  /\ View(t, row) # None
        /\ op[t].kind # "SetMount" =>
               loaded[t] # None /\ ValueOK(row, loaded[t]) /\ Kept(row, View(t, row), loaded[t])

\* Where connection t is in the program of its operation.
PlacedAt(t) ==
    /\ op[t] \in Optional(Operations)
    /\ ~Open(t) => at[t] = 1
    /\ Open(t) => at[t] \in 1..(Len(Program(op[t])) + 1)
    /\ scan[t] = None \/ scan[t] \subseteq {row \in Rows : ~Lasting(row)}
    /\ Open(t) /\ Anchored(op[t]) /\ at[t] > AnchorAt(op[t]) => Secured(t)

PerSession ==
    /\ DOMAIN op = Sessions /\ DOMAIN at = Sessions /\ DOMAIN pending = Sessions
    /\ DOMAIN shared = Sessions /\ DOMAIN scan = Sessions /\ DOMAIN loaded = Sessions
    /\ op = [t \in Sessions |-> op[t]]

Placed ==
    /\ begun \in 0..MaxOps /\ overlapped \in [Sessions -> BOOLEAN]
    /\ PerSession
    /\ \A t \in Sessions : PlacedAt(t)

GormInv == Typed /\ Owned /\ Locks /\ Placed

-----------------------------------------------------------------------------
(* Steps that change rows *)

LEMMA NothingWritten == DOMAIN Nothing = {}
  BY DEF Nothing

\* A transaction that is rolled back sees what is committed.
LEMMA RowsAfterRollback ==
    ASSUME GormInv, NEW t \in Sessions, db' = db,
           pending' = [pending EXCEPT ![t] = Nothing], shared' = [shared EXCEPT ![t] = {}]
    PROVE  Typed' /\ Owned' /\ Locks'
  <1>1. DOMAIN pending'[t] = {} /\ shared'[t] = {}
    BY NothingWritten DEF GormInv, Placed, PerSession
  <1>2. \A s \in Sessions \ {t} : pending'[s] = pending[s] /\ shared'[s] = shared[s]
    BY DEF GormInv, Placed, PerSession
  <1>3. \A row : View(t, row)' = db[row]
    BY <1>1 DEF View
  <1>4. \A s \in Sessions \ {t} : \A row : View(s, row)' = View(s, row)
    BY <1>2 DEF View
  <1>5. Typed'
    BY <1>1, <1>2 DEF GormInv, Typed
  <1>6. Owned'
    <2>1. ASSUME NEW s \in Sessions, NEW row \in Rows, View(s, row)' # None,
                 NEW p \in Parents(row, View(s, row)')
          PROVE  View(s, p)' # None
      BY <1>3, <1>4, <2>1 DEF GormInv, Owned
    <2> QED
      BY <2>1 DEF GormInv, Owned
  <1>7. Locks'
    BY <1>1, <1>2 DEF GormInv, Locks
  <1> QED
    BY <1>5, <1>6, <1>7

\* Transaction t writes the rows of ch and locks those of more.
Merged(t, ch) ==
    [row \in DOMAIN ch \cup DOMAIN pending[t] |->
        IF row \in DOMAIN ch THEN ch[row] ELSE pending[t][row]]

\* The value that t sees after it has written the rows of ch.
Seen(t, ch, row) == IF row \in DOMAIN ch THEN ch[row].to ELSE View(t, row)

\* Nobody else has written, locks or deletes what the step needs, the values
\* have their types, and for t everything still has its owner.
Writable(t, ch, more) ==
    /\ more \subseteq ParentRows /\ DOMAIN ch \subseteq Rows
    /\ \A p \in more : \A s \in Sessions \ {t} :
           p \in DOMAIN pending[s] => pending[s][p].to # None
    /\ \A row \in DOMAIN ch :
           /\ \A s \in Sessions \ {t} : row \notin DOMAIN pending[s]
           /\ ValueOK(row, ch[row].to)
           /\ Lasting(row) => /\ ch[row].to # None
                              /\ View(t, row) # None => Kept(row, View(t, row), ch[row].to)
           /\ ch[row].to = None => \A s \in Sessions \ {t} : row \notin shared[s]
           /\ OfUser(row) /\ ch[row].to # None =>
                  db[row] # None \/ UserRow(row[2]) \in shared[t] \cup more
    /\ \A row \in Rows : Seen(t, ch, row) # None =>
           \A p \in Parents(row, Seen(t, ch, row)) : Seen(t, ch, p) # None

LEMMA RowsAfterWrite ==
    ASSUME GormInv, NEW t \in Sessions, NEW ch, NEW more, Writable(t, ch, more), db' = db,
           pending' = [pending EXCEPT ![t] = Merged(t, ch)],
           shared'[t] = shared[t] \cup more,
           \A s \in Sessions \ {t} : shared'[s] = shared[s]
    PROVE  Typed' /\ Owned' /\ Locks'
  <1>1. /\ DOMAIN pending'[t] = DOMAIN ch \cup DOMAIN pending[t]
        /\ \A row \in DOMAIN pending'[t] :
               pending'[t][row] = IF row \in DOMAIN ch THEN ch[row] ELSE pending[t][row]
        /\ shared'[t] = shared[t] \cup more
    BY DEF GormInv, Placed, PerSession, Merged
  <1>2. \A s \in Sessions \ {t} : pending'[s] = pending[s] /\ shared'[s] = shared[s]
    BY DEF GormInv, Placed, PerSession
  <1>3. \A row : View(t, row)' = Seen(t, ch, row)
    BY <1>1 DEF View, Seen
  <1>4. \A s \in Sessions \ {t} : \A row : View(s, row)' = View(s, row)
    BY <1>2 DEF View
  <1>5. Typed'
    <2>1. ASSUME NEW row \in DOMAIN pending'[t]
          PROVE  /\ row \in Rows /\ ValueOK(row, pending'[t][row].to)
                 /\ Lasting(row) => pending'[t][row].to # None
                 /\ Lasting(row) /\ db[row] # None => Kept(row, db[row], pending'[t][row].to)
      <3>1. CASE row \notin DOMAIN ch
        BY <1>1, <2>1, <3>1 DEF GormInv, Typed
      <3>2. CASE row \in DOMAIN ch /\ row \notin DOMAIN pending[t]
        BY <1>1, <2>1, <3>2 DEF GormInv, Typed, View, Writable
      <3>3. CASE row \in DOMAIN ch /\ row \in DOMAIN pending[t]
        <4>1. Lasting(row) /\ db[row] # None => Kept(row, db[row], pending[t][row].to)
          BY <3>3 DEF GormInv, Typed
        <4>2. Lasting(row) => Kept(row, pending[t][row].to, ch[row].to)
          BY <3>3 DEF GormInv, Typed, View, Writable
        <4>3. Lasting(row) /\ db[row] # None => Kept(row, db[row], ch[row].to)
          BY <4>1, <4>2 DEF Kept
        <4> QED
          BY <1>1, <3>3, <4>3 DEF GormInv, Typed, Writable
      <3> QED
        BY <3>1, <3>2, <3>3
    <2>2. shared'[t] \subseteq ParentRows
      BY <1>1 DEF GormInv, Typed, Writable
    <2> QED
      BY <1>2, <2>1, <2>2 DEF GormInv, Typed
  <1>6. Owned'
    <2>1. ASSUME NEW s \in Sessions, NEW row \in Rows, View(s, row)' # None,
                 NEW p \in Parents(row, View(s, row)')
          PROVE  View(s, p)' # None
      BY <1>3, <1>4, <2>1 DEF GormInv, Owned, Writable
    <2> QED
      BY <2>1 DEF GormInv, Owned
  <1>7. Locks'
    <2>1. ASSUME NEW r \in Sessions, NEW s \in Sessions, r # s, NEW row \in DOMAIN pending'[r]
          PROVE  /\ row \notin DOMAIN pending'[s]
                 /\ pending'[r][row].to = None => row \notin shared'[s]
      <3>1. CASE r # t /\ s # t
        BY <1>2, <2>1, <3>1 DEF GormInv, Locks
      <3>2. CASE r = t
        BY <1>1, <1>2, <2>1, <3>2 DEF GormInv, Locks, Writable
      <3>3. CASE s = t
        BY <1>1, <1>2, <2>1, <3>3 DEF GormInv, Locks, Writable
      <3> QED
        BY <3>1, <3>2, <3>3
    <2>2. ASSUME NEW s \in Sessions, NEW row \in DOMAIN pending'[s], OfUser(row),
                 pending'[s][row].to # None
          PROVE  db[row] # None \/ UserRow(row[2]) \in shared'[s]
      <3>1. CASE s # t
        BY <1>2, <2>2, <3>1 DEF GormInv, Locks
      <3>2. CASE s = t
        BY <1>1, <2>2, <3>2 DEF GormInv, Locks, Writable
      <3> QED
        BY <3>1, <3>2
    <2> QED
      BY <2>1, <2>2 DEF Locks
  <1> QED
    BY <1>5, <1>6, <1>7

\* What a transaction commits was owned as it saw it, and agrees with what
\* others have written meanwhile: whoever deletes a user has waited for those
\* that add to it, and the other way round.
LEMMA RowsAfterCommit ==
    ASSUME GormInv, NEW t \in Sessions,
           db' = [row \in Rows |-> IF row \in DOMAIN pending[t] THEN pending[t][row].to
                                   ELSE db[row]],
           pending' = [pending EXCEPT ![t] = Nothing], shared' = [shared EXCEPT ![t] = {}]
    PROVE  Typed' /\ Owned' /\ Locks'
  <1>1. DOMAIN pending'[t] = {} /\ shared'[t] = {}
    BY NothingWritten DEF GormInv, Placed, PerSession
  <1>2. \A s \in Sessions \ {t} : pending'[s] = pending[s] /\ shared'[s] = shared[s]
    BY DEF GormInv, Placed, PerSession
  <1>3. DOMAIN db' = Rows /\ \A row \in Rows : db'[row] = View(t, row)
    BY DEF View
  <1>4. \A row : View(t, row)' = db'[row]
    BY <1>1 DEF View
  <1>5. \A s \in Sessions \ {t} : \A row :
            View(s, row)' = IF row \in DOMAIN pending[s] THEN pending[s][row].to ELSE db'[row]
    BY <1>2 DEF View
  <1>6. \A row \in Rows : /\ ValueOK(row, db'[row])
                          /\ Lasting(row) /\ db[row] # None =>
                                 db'[row] # None /\ Kept(row, db[row], db'[row])
    <2> TAKE row \in Rows
    <2>1. CASE row \in DOMAIN pending[t]
      BY <1>3, <2>1 DEF View, GormInv, Typed
    <2>2. CASE row \notin DOMAIN pending[t]
      BY <1>3, <2>2 DEF View, GormInv, Typed, Kept
    <2> QED
      BY <2>1, <2>2
  <1>7. \A s \in Sessions \ {t} : \A row \in DOMAIN pending[s] :
            row \in Rows /\ row \notin DOMAIN pending[t] /\ db'[row] = db[row]
    BY <1>3 DEF View, GormInv, Locks, Typed
  <1>8. Typed'
    <2>1. ASSUME NEW s \in Sessions \ {t}, NEW row \in DOMAIN pending[s]
          PROVE  /\ ValueOK(row, pending[s][row].to)
                 /\ Lasting(row) => pending[s][row].to # None
                 /\ Lasting(row) /\ db'[row] # None => Kept(row, db'[row], pending[s][row].to)
      BY <1>7 DEF GormInv, Typed
    <2>2. \A s \in Sessions : DOMAIN pending'[s] \subseteq Rows /\ shared'[s] \subseteq ParentRows
      BY <1>1, <1>2 DEF GormInv, Typed
    <2>3. \A s \in Sessions : \A row \in DOMAIN pending'[s] :
              /\ ValueOK(row, pending'[s][row].to)
              /\ Lasting(row) => pending'[s][row].to # None
              /\ Lasting(row) /\ db'[row] # None => Kept(row, db'[row], pending'[s][row].to)
      BY <1>1, <1>2, <2>1
    <2>4. \A row \in Rows : ValueOK(row, db'[row])
      BY <1>6
    <2> QED
      BY <1>3, <2>2, <2>3, <2>4 DEF Typed
  <1>9. Locks'
    BY <1>1, <1>2, <1>7 DEF GormInv, Locks
  <1>10. \A row \in Rows : \A p \in Parents(row, db[row]) : db[row] # None => p \in Rows
    BY ParentFacts DEF GormInv, Typed, ValueOK, Optional
  <1>11. \A row \in Rows : View(t, row) # None => \A p \in Parents(row, View(t, row)) : p \in Rows
    <2> SUFFICES ASSUME NEW row \in Rows, View(t, row) # None, NEW p \in Parents(row, View(t, row))
                 PROVE  p \in Rows
      OBVIOUS
    <2>1. ValueOK(row, View(t, row))
      BY <1>3, <1>6
    <2> QED
      BY <2>1, ParentFacts DEF ValueOK, Optional
  <1>12. \A row \in Rows : db'[row] # None => \A p \in Parents(row, db'[row]) : db'[p] # None
    BY <1>3, <1>11 DEF GormInv, Owned
  <1>13. ASSUME NEW s \in Sessions \ {t}, NEW row \in Rows, View(s, row)' # None,
                NEW p \in Parents(row, View(s, row)')
         PROVE  View(s, p)' # None
    <2>1. CASE row \in DOMAIN pending[s]
      \* s has written the row; if t has deleted what it refers to, s locks that.
      <3>1. View(s, row)' = View(s, row) /\ View(s, row) = pending[s][row].to
        BY <1>5, <2>1 DEF View
      <3>2. View(s, p) # None /\ p \in Parents(row, View(s, row))
        BY <1>13, <3>1 DEF GormInv, Owned
      <3>3. CASE p \in DOMAIN pending[s]
        BY <1>5, <3>2, <3>3 DEF View
      <3>4. CASE p \notin DOMAIN pending[s]
        <4>1. db[p] # None /\ View(s, p)' = db'[p]
          BY <1>5, <3>2, <3>4 DEF View
        <4>2. p \in Rows
          <5>1. ValueOK(row, View(s, row))
            BY <2>1, <3>1 DEF GormInv, Typed
          <5> QED
            BY <1>13, <3>1, <3>2, <5>1, ParentFacts DEF ValueOK, Optional
        <4>3. CASE Lasting(p)
          BY <1>6, <4>1, <4>2, <4>3
        <4>4. CASE OfUser(row)
          <5>1. p = UserRow(row[2])
            BY <3>2, <4>4, ParentsOf
          <5>2. CASE p \in shared[s]
            <6>1. p \in DOMAIN pending[t] => pending[t][p].to # None
              BY <5>2 DEF GormInv, Locks
            <6> QED
              BY <1>3, <4>1, <4>2, <6>1 DEF View
          <5>3. CASE db[row] # None
            <6>1. View(t, row) = db[row] /\ p \in Parents(row, View(t, row))
              BY <1>7, <2>1, <4>4, <5>1, ParentsOf DEF View
            <6>2. View(t, p) # None
              BY <5>3, <6>1 DEF GormInv, Owned
            <6> QED
              BY <1>3, <4>1, <4>2, <6>2
          <5> QED
            BY <2>1, <1>13, <3>1, <4>4, <5>1, <5>2, <5>3 DEF GormInv, Locks
        <4> QED
          BY <4>3, <4>4, <3>2, ParentFacts
      <3> QED
        BY <3>3, <3>4
    <2>2. CASE row \notin DOMAIN pending[s]
      \* t has committed the row or left it; s may have deleted what it refers to.
      <3>1. View(s, row)' = db'[row] /\ db'[row] # None /\ p \in Parents(row, db'[row])
        BY <1>5, <1>13, <2>2
      <3>2. db'[p] # None /\ p \in Rows /\ View(t, p) # None
        BY <1>3, <1>11, <1>12, <3>1
      <3>3. CASE p \notin DOMAIN pending[s]
        BY <1>5, <3>2, <3>3
      <3>4. CASE p \in DOMAIN pending[s]
        <4>1. View(s, p)' = pending[s][p].to
          BY <1>5, <3>4
        <4>2. CASE Lasting(p)
          BY <3>4, <4>1, <4>2 DEF GormInv, Typed
        <4>3. CASE OfUser(row)
          <5>1. p = UserRow(row[2])
            BY <3>1, <4>3, ParentsOf
          <5>2. CASE db[row] # None
            <6>1. View(s, row) = db[row] /\ p \in Parents(row, View(s, row))
              BY <2>2, <4>3, <5>1, ParentsOf DEF View
            <6>2. View(s, p) # None
              BY <5>2, <6>1 DEF GormInv, Owned
            <6> QED
              BY <3>4, <4>1, <6>2 DEF View
          <5>3. CASE db[row] = None
            <6>1. row \in DOMAIN pending[t] /\ pending[t][row].to # None
              BY <1>3, <3>1, <5>3 DEF View
            <6>2. p \in shared[t]
              BY <4>3, <5>1, <5>3, <6>1 DEF GormInv, Locks
            <6> QED
              BY <3>4, <4>1, <6>2 DEF GormInv, Locks
          <5> QED
            BY <5>2, <5>3
        <4> QED
          BY <4>2, <4>3, <3>1, ParentFacts
      <3> QED
        BY <3>3, <3>4
    <2> QED
      BY <2>1, <2>2
  <1>14. Owned'
    BY <1>4, <1>12, <1>13 DEF Owned
  <1> QED
    BY <1>8, <1>9, <1>14

-----------------------------------------------------------------------------
(* Steps through the programs *)

LEMMA AtStatement ==
    ASSUME GormInv, NEW t \in Sessions, Open(t), ~AtEnd(t)
    PROVE  /\ op[t] \in Operations /\ at[t] \in 1..Len(Program(op[t]))
           /\ Len(Program(op[t])) \in Nat
           /\ StatementOK(op[t], Statement(t))
  <1>1. op[t] \in Operations /\ at[t] \in 1..(Len(Program(op[t])) + 1)
    BY DEF GormInv, Placed, PlacedAt, Optional, Open
  <1>2. Len(Program(op[t])) \in Nat
    BY <1>1, Programs
  <1>3. at[t] \in 1..Len(Program(op[t]))
    BY <1>1, <1>2 DEF AtEnd
  <1> QED
    BY <1>1, <1>2, <1>3, Programs DEF Statement

\* At its anchor an operation reads.
LEMMA AtAnchor ==
    ASSUME GormInv, NEW t \in Sessions, Open(t), ~AtEnd(t), Anchored(op[t])
    PROVE  /\ Anchor(op[t]) \in Rows /\ Lasting(Anchor(op[t]))
           /\ at[t] = AnchorAt(op[t]) =>
                  /\ Statement(t).row = Anchor(op[t])
                  /\ Statement(t).do \in {"ensure", "first"}
                  /\ op[t].kind # "SetMount" => Statement(t).do = "first"
           /\ at[t] > AnchorAt(op[t]) => Secured(t)
  <1>1. op[t] \in Operations
    BY AtStatement
  <1>2. Open(t) /\ Anchored(op[t]) /\ at[t] > AnchorAt(op[t]) => Secured(t)
    BY DEF GormInv, Placed, PlacedAt
  <1> QED
    BY <1>1, <1>2, Programs DEF Statement

\* Lasting rows that session s sees last.
SightLasts(s) ==
    \A row \in Rows : Lasting(row) /\ View(s, row) # None =>
        View(s, row)' # None /\ Kept(row, View(s, row), View(s, row)')

LEMMA SecuredLasts ==
    ASSUME NEW s, Secured(s), SightLasts(s), Anchor(op[s]) \in Rows, Lasting(Anchor(op[s])),
           op'[s] = op[s], loaded'[s] = loaded[s]
    PROVE  Secured(s)'
  <1> DEFINE row == Anchor(op[s])
  <1>1. View(s, row)' # None /\ Kept(row, View(s, row), View(s, row)')
    BY DEF SightLasts, Secured
  <1>2. ASSUME op[s].kind # "SetMount" PROVE Kept(row, View(s, row)', loaded[s])
    <2>1. Kept(row, View(s, row), loaded[s])
      BY <1>2 DEF Secured
    <2> QED
      BY <1>1, <2>1 DEF Kept
  <1>3. op[s].kind # "SetMount" => loaded[s] # None /\ ValueOK(row, loaded[s])
    BY DEF Secured
  <1> QED
    BY <1>1, <1>2, <1>3 DEF Secured

\* The other sessions stay where they are.
Elsewhere(t) ==
    \A s \in Sessions \ {t} :
        /\ op'[s] = op[s] /\ at'[s] = at[s] /\ loaded'[s] = loaded[s]
        /\ \/ scan'[s] = None \/ scan'[s] = scan[s]
           \/ (scan[s] # None /\ scan'[s] \subseteq scan[s])
        /\ SightLasts(s)

LEMMA PlacedElsewhere ==
    ASSUME GormInv, NEW t, Elsewhere(t), NEW s \in Sessions \ {t}
    PROVE  PlacedAt(s)'
  <1>1. PlacedAt(s) /\ op'[s] = op[s] /\ at'[s] = at[s] /\ loaded'[s] = loaded[s]
    BY DEF GormInv, Placed, Elsewhere
  <1>2. scan'[s] = None \/ scan'[s] \subseteq {row \in Rows : ~Lasting(row)}
    BY DEF GormInv, Placed, PlacedAt, Elsewhere
  <1>3. ASSUME Open(s), Anchored(op[s]), at[s] > AnchorAt(op[s]) PROVE Secured(s)'
    <2>1. op[s] \in Operations
      BY <1>1, <1>3 DEF PlacedAt, Open, Optional
    <2>2. Secured(s) /\ SightLasts(s)
      BY <1>1, <1>3 DEF PlacedAt, Elsewhere
    <2> QED
      BY <1>1, <1>3, <2>1, <2>2, Programs, SecuredLasts
  <1>4. Open(s)' <=> Open(s)
    BY <1>1 DEF Open
  <1> QED
    BY <1>1, <1>2, <1>3, <1>4 DEF PlacedAt

LEMMA PlacedByAdvance ==
    ASSUME GormInv, NEW t \in Sessions, Open(t), ~AtEnd(t), op'[t] = op[t], at'[t] = at[t] + 1,
           scan'[t] = None \/ scan'[t] = scan[t],
           Anchored(op[t]) /\ at[t] >= AnchorAt(op[t]) => Secured(t)'
    PROVE  PlacedAt(t)'
  <1>1. op[t] \in Operations /\ at[t] \in 1..Len(Program(op[t])) /\ Len(Program(op[t])) \in Nat
    BY AtStatement
  <1>2. scan[t] = None \/ scan[t] \subseteq {row \in Rows : ~Lasting(row)}
    BY DEF GormInv, Placed, PlacedAt
  <1>3. at'[t] \in 1..(Len(Program(op[t])) + 1)
    BY <1>1
  <1>4. at'[t] > AnchorAt(op[t]) => at[t] >= AnchorAt(op[t])
    BY <1>1 DEF AnchorAt
  <1>5. Open(t)' /\ op'[t] \in Optional(Operations)
    BY <1>1 DEF Open, Optional
  <1> QED
    BY <1>2, <1>3, <1>4, <1>5 DEF PlacedAt

\* A session whose transaction has ended.
LEMMA PlacedByEnd ==
    ASSUME NEW t, op'[t] = None, at'[t] = 1, scan'[t] = None
    PROVE  PlacedAt(t)'
  BY DEF PlacedAt, Open, Optional

LEMMA PlacedAll ==
    ASSUME GormInv, NEW t \in Sessions, PlacedAt(t)', Elsewhere(t), PerSession',
           begun' = begun, overlapped' \in [Sessions -> BOOLEAN]
    PROVE  Placed'
  BY PlacedElsewhere DEF GormInv, Placed

LEMMA KeptRefl == \A row, v : Kept(row, v, v)
  BY DEF Kept

LEMMA SameSight ==
    ASSUME NEW s \in Sessions, db' = db, pending'[s] = pending[s]
    PROVE  SightLasts(s)
  <1>1. \A row : View(s, row)' = View(s, row)
    BY DEF View
  <1> QED
    BY <1>1, KeptRefl DEF SightLasts

LEMMA RollbackKeeps ==
    ASSUME GormInv, NEW t \in Sessions, NEW code, Rollback(t, code)
    PROVE  GormInv'
  <1> USE DEF Rollback, Forget
  <1>1. Typed' /\ Owned' /\ Locks'
    BY RowsAfterRollback
  <1>2. \A s \in Sessions \ {t} : op'[s] = op[s] /\ at'[s] = at[s] /\ loaded'[s] = loaded[s]
                                  /\ scan'[s] = scan[s] /\ pending'[s] = pending[s]
    BY DEF GormInv, Placed, PerSession
  <1>3. Elsewhere(t)
    BY <1>2, SameSight DEF Elsewhere
  <1>4. PlacedAt(t)'
    <2>1. op'[t] = None /\ at'[t] = 1 /\ scan'[t] = None
      BY DEF GormInv, Placed, PerSession
    <2> QED
      BY <2>1, PlacedByEnd
  <1>5. PerSession'
    BY DEF GormInv, Placed, PerSession
  <1>6. begun' = begun /\ overlapped' \in [Sessions -> BOOLEAN]
    BY DEF GormInv, Placed
  <1>7. Placed'
    BY <1>3, <1>4, <1>5, <1>6, PlacedAll
  <1> QED
    BY <1>1, <1>7 DEF GormInv

LEMMA CommitKeeps ==
    ASSUME GormInv, NEW t \in Sessions, Commit(t)
    PROVE  GormInv'
  <1>0. /\ op' = [op EXCEPT ![t] = None] /\ at' = [at EXCEPT ![t] = 1]
        /\ pending' = [pending EXCEPT ![t] = Nothing] /\ shared' = [shared EXCEPT ![t] = {}]
        /\ loaded' = [loaded EXCEPT ![t] = None] /\ begun' = begun
    BY DEF Commit, Forget
  <1>1. db' = [row \in Rows |-> IF row \in DOMAIN pending[t] THEN pending[t][row].to ELSE db[row]]
    BY DEF Commit
  <1>2. PICK gone : scan' = [s \in Sessions |->
                                IF s = t \/ scan[s] = None THEN None ELSE scan[s] \ gone]
    BY DEF Commit
  <1>3. overlapped' \in [Sessions -> BOOLEAN]
    <2>1. \A s \in Sessions : overlapped'[s] \in BOOLEAN
      BY Zenon DEF Commit, GormInv, Placed
    <2>2. overlapped' = [s \in Sessions |-> overlapped'[s]]
      BY DEF Commit
    <2> QED
      BY <2>1, <2>2
  <1>4. Typed' /\ Owned' /\ Locks'
    BY <1>0, <1>1, RowsAfterCommit
  <1>5. ASSUME NEW s \in Sessions \ {t} PROVE SightLasts(s)
    <2> SUFFICES ASSUME NEW row \in Rows, Lasting(row), View(s, row) # None
                 PROVE  View(s, row)' # None /\ Kept(row, View(s, row), View(s, row)')
      BY DEF SightLasts
    <2>1. pending'[s] = pending[s]
      BY <1>0 DEF GormInv, Placed, PerSession
    <2>2. CASE row \in DOMAIN pending[s]
      BY <2>1, <2>2, KeptRefl DEF View
    <2>3. CASE row \notin DOMAIN pending[s]
      <3>1. View(s, row) = db[row] /\ View(s, row)' = db'[row]
        BY <2>1, <2>3 DEF View
      <3>2. CASE row \in DOMAIN pending[t]
        BY <1>1, <3>1, <3>2 DEF GormInv, Typed
      <3>3. CASE row \notin DOMAIN pending[t]
        BY <1>1, <3>1, <3>3, KeptRefl
      <3> QED
        BY <3>2, <3>3
    <2> QED
      BY <2>2, <2>3
  <1>6. Elsewhere(t)
    <2>1. \A s \in Sessions \ {t} : op'[s] = op[s] /\ at'[s] = at[s] /\ loaded'[s] = loaded[s]
      BY <1>0 DEF GormInv, Placed, PerSession
    <2>2. \A s \in Sessions \ {t} : \/ scan'[s] = None
                                    \/ scan[s] # None /\ scan'[s] \subseteq scan[s]
      BY <1>2
    <2> QED
      BY <1>5, <2>1, <2>2 DEF Elsewhere
  <1>7. PlacedAt(t)'
    <2>1. op'[t] = None /\ at'[t] = 1 /\ scan'[t] = None
      BY <1>0, <1>2 DEF GormInv, Placed, PerSession
    <2> QED
      BY <2>1, PlacedByEnd
  <1>8. PerSession'
    BY <1>0, <1>2 DEF GormInv, Placed, PerSession
  <1>9. Placed'
    BY <1>0, <1>3, <1>6, <1>7, <1>8, PlacedAll
  <1> QED
    BY <1>4, <1>9 DEF GormInv

\* A step of t that reads only.
LEMMA ReadKeeps ==
    ASSUME GormInv, NEW t \in Sessions, Open(t), ~AtEnd(t), Read(t),
           DOMAIN loaded' = Sessions, \A s \in Sessions \ {t} : loaded'[s] = loaded[s],
           Anchored(op[t]) /\ at[t] >= AnchorAt(op[t]) => Secured(t)'
    PROVE  GormInv'
  <1> USE DEF Read, Advance
  <1>1. Typed' /\ Owned' /\ Locks'
    <2>1. \A s, row : View(s, row)' = View(s, row)
      BY DEF View
    <2>2. Typed' /\ Locks'
      BY DEF GormInv, Typed, Locks
    <2>3. Owned'
      <3>1. ASSUME NEW s \in Sessions, NEW row \in Rows, View(s, row)' # None,
                   NEW p \in Parents(row, View(s, row)')
            PROVE  View(s, p)' # None
        BY <2>1, <3>1 DEF GormInv, Owned
      <3> QED
        BY <3>1 DEF GormInv, Owned
    <2> QED
      BY <2>2, <2>3
  <1>2. \A s \in Sessions \ {t} : op'[s] = op[s] /\ at'[s] = at[s] /\ scan'[s] = scan[s]
    BY DEF GormInv, Placed, PerSession
  <1>3. Elsewhere(t)
    BY <1>2, SameSight DEF Elsewhere
  <1>4. PlacedAt(t)'
    <2>1. op'[t] = op[t] /\ at'[t] = at[t] + 1 /\ scan'[t] = scan[t]
      BY DEF GormInv, Placed, PerSession
    <2> QED
      BY <2>1, PlacedByAdvance
  <1>5. PerSession'
    BY DEF GormInv, Placed, PerSession
  <1>6. begun' = begun /\ overlapped' \in [Sessions -> BOOLEAN]
    BY DEF GormInv, Placed
  <1>7. Placed'
    BY <1>3, <1>4, <1>5, <1>6, PlacedAll
  <1> QED
    BY <1>1, <1>7 DEF GormInv

\* A step of t that writes.
LEMMA WriteKeeps ==
    ASSUME GormInv, NEW t \in Sessions, Open(t), ~AtEnd(t), NEW ch, NEW more,
           Writable(t, ch, more), Write(t, ch), Statement(t).do \notin {"ensure", "first"},
           DOMAIN shared' = Sessions, shared'[t] = shared[t] \cup more,
           \A s \in Sessions \ {t} : shared'[s] = shared[s],
           DOMAIN scan' = Sessions, scan'[t] = None \/ scan'[t] = scan[t],
           \A s \in Sessions \ {t} : scan'[s] = scan[s], loaded' = loaded
    PROVE  GormInv'
  <1>0. /\ pending' = [pending EXCEPT ![t] = Merged(t, ch)] /\ Advance(t)
    BY DEF Write, Merged, GormInv, Placed, PerSession
  <1> USE DEF Advance
  <1>1. Typed' /\ Owned' /\ Locks'
    BY <1>0, RowsAfterWrite
  <1>2. \A s \in Sessions \ {t} : op'[s] = op[s] /\ at'[s] = at[s] /\ pending'[s] = pending[s]
    BY <1>0 DEF GormInv, Placed, PerSession
  <1>3. Elsewhere(t)
    BY <1>0, <1>2, SameSight DEF Elsewhere
  <1>4. SightLasts(t)
    <2> SUFFICES ASSUME NEW row \in Rows, Lasting(row), View(t, row) # None
                 PROVE  View(t, row)' # None /\ Kept(row, View(t, row), View(t, row)')
      BY DEF SightLasts
    <2>1. View(t, row)' = Seen(t, ch, row)
      BY <1>0 DEF View, Seen, Merged, GormInv, Placed, PerSession
    <2>2. CASE row \in DOMAIN ch
      BY <2>1, <2>2 DEF Writable, Seen
    <2>3. CASE row \notin DOMAIN ch
      BY <2>1, <2>3, KeptRefl DEF Seen
    <2> QED
      BY <2>2, <2>3
  <1>5. PlacedAt(t)'
    <2>1. op'[t] = op[t] /\ at'[t] = at[t] + 1
      BY <1>0 DEF GormInv, Placed, PerSession
    <2>2. ASSUME Anchored(op[t]), at[t] >= AnchorAt(op[t]) PROVE Secured(t)'
      <3>1. at[t] # AnchorAt(op[t])
        BY <2>2, AtAnchor
      <3>2. at[t] > AnchorAt(op[t])
        BY <2>2, <3>1, AtStatement DEF AnchorAt
      <3> QED
        BY <1>4, <2>1, <2>2, <3>2, AtAnchor, SecuredLasts
    <2> QED
      BY <2>1, <2>2, PlacedByAdvance
  <1>6. PerSession'
    BY <1>0 DEF GormInv, Placed, PerSession
  <1>7. begun' = begun /\ overlapped' \in [Sessions -> BOOLEAN]
    BY <1>0 DEF GormInv, Placed
  <1>8. Placed'
    BY <1>3, <1>5, <1>6, <1>7, PlacedAll
  <1> QED
    BY <1>1, <1>8 DEF GormInv

-----------------------------------------------------------------------------
(* The statements *)

\* What a statement that need not wait knows of the others.
LEMMA NobodyToWaitFor ==
    ASSUME NEW t \in Sessions, NEW do, Ready(t, do)
    PROVE  LET st == Statement(t)
               rows == Targets(t) \cup Cascade(t, Targets(t))
           IN  /\ do \in {"create", "save"} =>
                      Writers(t, {st.row}) = {} /\ Deleters(t, Parents(st.row, st.value)) = {}
               /\ do = "save loaded" => Writers(t, {st.row}) = {}
               /\ do = "update" /\ View(t, st.row) # None => Writers(t, {st.row}) = {}
               /\ do = "delete" => Writers(t, rows) = {} /\ Sharers(t, rows) = {}
  <1>0. Open(t) /\ ~AtEnd(t) /\ Statement(t).do = do /\ WaitsFor(t) = {}
    BY DEF Ready
  <1>1. CASE do \in {"create", "save"}
    BY <1>0, <1>1 DEF WaitsFor
  <1>2. CASE do = "save loaded"
    BY <1>0, <1>2 DEF WaitsFor
  <1>3. CASE do = "update"
    BY <1>0, <1>3 DEF WaitsFor
  <1>4. CASE do = "delete"
    BY <1>0, <1>4 DEF WaitsFor
  <1> QED
    BY <1>1, <1>2, <1>3, <1>4

LEMMA OnlyWriter ==
    ASSUME NEW t \in Sessions, NEW rows, Writers(t, rows) = {}
    PROVE  \A s \in Sessions \ {t} : \A row \in rows : row \notin DOMAIN pending[s]
  BY DEF Writers

LEMMA PutRow ==
    ASSUME NEW row, NEW v, NEW c
    PROVE  DOMAIN Put(row, v, c) = {row} /\ Put(row, v, c)[row].to = v
  BY DEF Put

\* What t sees has its type.
LEMMA ViewTyped ==
    ASSUME GormInv, NEW t \in Sessions, NEW row \in Rows
    PROVE  ValueOK(row, View(t, row))
  BY DEF GormInv, Typed, View

\* A row that is put where a row was, or where its owner is locked.
LEMMA PutWritable ==
    ASSUME GormInv, NEW t \in Sessions, NEW row \in Rows, NEW v, NEW c, NEW more,
           Writers(t, {row}) = {}, ValueOK(row, v), IsParent(row) => v # None,
           Lasting(row) /\ View(t, row) # None => Kept(row, View(t, row), v),
           \A p \in more : p \in ParentRows /\ \A s \in Sessions \ {t} :
               p \in DOMAIN pending[s] => pending[s][p].to # None,
           OfUser(row) => View(t, row) # None \/ UserRow(row[2]) \in more,
           v # None => \A p \in Parents(row, v) : View(t, p) # None
    PROVE  Writable(t, Put(row, v, c), more)
  <1> DEFINE ch == Put(row, v, c)
  <1>0. DOMAIN ch = {row} /\ ch[row].to = v
    BY PutRow
  <1> HIDE DEF ch
  <1>1. \A s \in Sessions \ {t} : row \notin DOMAIN pending[s]
    BY OnlyWriter
  <1>2. v = None => \A s \in Sessions \ {t} : row \notin shared[s]
    BY DEF GormInv, Typed, ParentRows
  <1>3. ASSUME OfUser(row), v # None
        PROVE  db[row] # None \/ UserRow(row[2]) \in shared[t] \cup more
    <2>1. CASE row \in DOMAIN pending[t]
      BY <1>3, <2>1 DEF View, GormInv, Locks
    <2>2. CASE row \notin DOMAIN pending[t]
      BY <1>3, <2>2 DEF View
    <2> QED
      BY <2>1, <2>2
  <1>4. ASSUME NEW r \in Rows, Seen(t, ch, r) # None, NEW p \in Parents(r, Seen(t, ch, r))
        PROVE  Seen(t, ch, p) # None
    <2>1. CASE r = row
      <3>1. p \in Parents(row, v) /\ p # row /\ v # None
        BY <1>0, <1>4, <2>1, ParentFacts DEF Seen
      <3> QED
        BY <1>0, <3>1 DEF Seen
    <2>2. CASE r # row
      <3>1. View(t, r) # None /\ p \in Parents(r, View(t, r))
        BY <1>0, <1>4, <2>2 DEF Seen
      <3>2. View(t, p) # None /\ IsParent(p)
        BY <3>1, ParentFacts DEF GormInv, Owned
      <3> QED
        BY <1>0, <3>2 DEF Seen
    <2> QED
      BY <2>1, <2>2
  <1>5. Writable(t, ch, more)
    <2>1. \A r \in Rows : Seen(t, ch, r) # None =>
              \A p \in Parents(r, Seen(t, ch, r)) : Seen(t, ch, p) # None
      BY <1>4
    <2>2. more \subseteq ParentRows /\ DOMAIN ch \subseteq Rows
      BY <1>0
    <2>3. ASSUME NEW r \in DOMAIN ch
          PROVE  /\ \A s \in Sessions \ {t} : r \notin DOMAIN pending[s]
                 /\ ValueOK(r, ch[r].to)
                 /\ Lasting(r) => /\ ch[r].to # None
                                  /\ View(t, r) # None => Kept(r, View(t, r), ch[r].to)
                 /\ ch[r].to = None => \A s \in Sessions \ {t} : r \notin shared[s]
                 /\ OfUser(r) /\ ch[r].to # None =>
                        db[r] # None \/ UserRow(r[2]) \in shared[t] \cup more
      <3>1. r = row
        BY <1>0
      <3>2. Lasting(row) => IsParent(row)
        BY DEF Lasting, IsParent
      <3> QED
        BY <1>0, <1>1, <1>2, <1>3, <3>1, <3>2
    <2> QED
      BY <2>1, <2>2, <2>3 DEF Writable
  <1> QED
    BY <1>5 DEF ch

LEMMA EnsureKeeps ==
    ASSUME GormInv, NEW t \in Sessions, ExecEnsure(t)
    PROVE  GormInv'
  <1>0. Open(t) /\ ~AtEnd(t) /\ Statement(t).do = "ensure"
    BY DEF ExecEnsure, Ready
  <1>1. CASE View(t, Statement(t).row) = None
    BY <1>1, RollbackKeeps DEF ExecEnsure
  <1>2. CASE View(t, Statement(t).row) # None
    <2>1. Read(t) /\ loaded' = loaded
      BY <1>2 DEF ExecEnsure
    <2>2. op'[t] = op[t] /\ pending'[t] = pending[t] /\ db' = db
      BY <2>1 DEF Read, Advance
    <2>3. ASSUME Anchored(op[t]), at[t] >= AnchorAt(op[t]) PROVE Secured(t)'
      <3>1. CASE at[t] = AnchorAt(op[t])
        <4>1. op[t].kind = "SetMount" /\ Statement(t).row = Anchor(op[t])
          BY <1>0, <2>3, <3>1, AtAnchor
        <4>2. View(t, Anchor(op[t]))' # None
          BY <1>2, <2>2, <4>1 DEF View
        <4> QED
          BY <2>2, <4>1, <4>2 DEF Secured
      <3>2. CASE at[t] # AnchorAt(op[t])
        <4>1. at[t] > AnchorAt(op[t])
          BY <1>0, <2>3, <3>2, AtStatement DEF AnchorAt
        <4> QED
          BY <1>0, <2>1, <2>2, <2>3, <4>1, AtAnchor, SameSight, SecuredLasts
      <3> QED
        BY <3>1, <3>2
    <2>4. DOMAIN loaded' = Sessions /\ \A s \in Sessions \ {t} : loaded'[s] = loaded[s]
      BY <2>1 DEF GormInv, Placed, PerSession
    <2> QED
      BY <1>0, <2>1, <2>3, <2>4, ReadKeeps
  <1> QED
    BY <1>1, <1>2

LEMMA FirstKeeps ==
    ASSUME GormInv, NEW t \in Sessions, ExecFirst(t)
    PROVE  GormInv'
  <1>0. Open(t) /\ ~AtEnd(t) /\ Statement(t).do = "first"
    BY DEF ExecFirst, Ready
  <1>1. CASE View(t, Statement(t).row) = None
    BY <1>1, RollbackKeeps DEF ExecFirst
  <1>2. CASE View(t, Statement(t).row) # None
    <2>1. Read(t) /\ loaded' = [loaded EXCEPT ![t] = View(t, Statement(t).row)]
      BY <1>2 DEF ExecFirst
    <2>2. op'[t] = op[t] /\ pending'[t] = pending[t] /\ db' = db
      BY <2>1 DEF Read, Advance
    <2>3. ASSUME Anchored(op[t]) PROVE Secured(t)'
      <3>1. Statement(t).row = Anchor(op[t]) /\ Statement(t).row \in Rows
        BY <1>0, <2>3, AtStatement DEF StatementOK
      <3>2. loaded'[t] = View(t, Anchor(op[t])) /\ View(t, Anchor(op[t]))' = View(t, Anchor(op[t]))
        BY <2>1, <2>2, <3>1 DEF View, GormInv, Placed, PerSession
      <3>3. ValueOK(Anchor(op[t]), View(t, Anchor(op[t])))
        BY <3>1, ViewTyped
      <3> QED
        BY <1>2, <2>2, <3>1, <3>2, <3>3, KeptRefl DEF Secured
    <2>4. DOMAIN loaded' = Sessions /\ \A s \in Sessions \ {t} : loaded'[s] = loaded[s]
      BY <2>1 DEF GormInv, Placed, PerSession
    <2> QED
      BY <1>0, <2>1, <2>3, <2>4, ReadKeeps
  <1> QED
    BY <1>1, <1>2

LEMMA InsertKeeps ==
    ASSUME GormInv, NEW t \in Sessions, Open(t), ~AtEnd(t),
           Statement(t).do \in {"create", "save"}, NEW row \in Rows, NEW v,
           Insert(t, row, v), View(t, row) = None,
           Writers(t, {row}) = {}, Deleters(t, Parents(row, v)) = {},
           ValueOK(row, v), IsParent(row) => v # None,
           row[1] = "mounts" => v \in NamespaceIDs
    PROVE  GormInv'
  <1>1. CASE \E p \in Parents(row, v) : View(t, p) = None
    BY <1>1, RollbackKeeps DEF Insert
  <1>2. CASE \A p \in Parents(row, v) : View(t, p) # None
    <2>1. /\ Write(t, Put(row, v, TRUE))
          /\ shared' = [shared EXCEPT ![t] = @ \cup Parents(row, v)]
          /\ scan' = scan /\ loaded' = loaded
      BY <1>2 DEF Insert
    <2>2. \A p \in Parents(row, v) : p \in ParentRows
      BY ParentFacts DEF ParentRows
    <2>3. \A p \in Parents(row, v) : \A s \in Sessions \ {t} :
              p \in DOMAIN pending[s] => pending[s][p].to # None
      BY DEF Deleters
    <2>4. OfUser(row) => UserRow(row[2]) \in Parents(row, v)
      BY ParentsOf
    <2>5. Writable(t, Put(row, v, TRUE), Parents(row, v))
      BY <1>2, <2>2, <2>3, <2>4, PutWritable
    <2>6. /\ DOMAIN shared' = Sessions /\ shared'[t] = shared[t] \cup Parents(row, v)
          /\ \A s \in Sessions \ {t} : shared'[s] = shared[s]
          /\ DOMAIN scan' = Sessions /\ scan'[t] = scan[t]
          /\ \A s \in Sessions \ {t} : scan'[s] = scan[s]
      BY <2>1 DEF GormInv, Placed, PerSession
    <2> QED
      BY <2>1, <2>5, <2>6, WriteKeeps
  <1> QED
    BY <1>1, <1>2

LEMMA CreateKeeps ==
    ASSUME GormInv, NEW t \in Sessions, ExecCreate(t)
    PROVE  GormInv'
  <1> DEFINE st == Statement(t)
  <1>0. Ready(t, "create") /\ Open(t) /\ ~AtEnd(t) /\ st.do = "create"
    BY DEF ExecCreate, Ready
  <1>1. CASE View(t, st.row) # None
    BY <1>1, RollbackKeeps DEF ExecCreate
  <1>2. CASE View(t, st.row) = None
    <2>1. Insert(t, st.row, st.value)
      BY <1>2 DEF ExecCreate
    <2>2. /\ st.row \in Rows /\ st.row[1] # "mounts" /\ ValueOK(st.row, st.value)
          /\ IsParent(st.row) => st.value # None
      BY <1>0, AtStatement DEF StatementOK
    <2>3. Writers(t, {st.row}) = {} /\ Deleters(t, Parents(st.row, st.value)) = {}
      BY <1>0, NobodyToWaitFor
    <2> HIDE DEF st
    <2>4. Statement(t).do = "create"
      BY <1>0 DEF st
    <2> QED
      BY <1>0, <1>2, <2>1, <2>2, <2>3, <2>4, InsertKeeps
  <1> QED
    BY <1>1, <1>2

LEMMA SaveKeeps ==
    ASSUME GormInv, NEW t \in Sessions, ExecSave(t)
    PROVE  GormInv'
  <1> DEFINE st == Statement(t)
  <1>0. Ready(t, "save") /\ Open(t) /\ ~AtEnd(t) /\ st.do = "save"
    BY DEF ExecSave, Ready
  <1>1. /\ st.row \in Rows /\ ~IsParent(st.row) /\ ValueOK(st.row, st.value)
        /\ st.row[1] = "mounts" => op[t].kind = "SetMount" /\ st.value = op[t].ns
    BY <1>0, AtStatement DEF StatementOK
  <1>2. st.row[1] = "mounts" => st.value \in NamespaceIDs
    <2>1. ASSUME op[t].kind = "SetMount" PROVE op[t].ns \in NamespaceIDs
      <3>1. op[t] \in Operations
        BY <1>0, AtStatement
      <3>2. op[t] \in NamespaceOps
        BY <2>1, <3>1, AccountFields, ResourceFields DEF Operations, AccountKinds, ResourceKinds
      <3> QED
        BY <2>1, <3>2, NamespaceFields
    <2> QED
      BY <1>1, <2>1
  <1>3. Writers(t, {st.row}) = {} /\ Deleters(t, Parents(st.row, st.value)) = {}
    BY <1>0, NobodyToWaitFor
  <1>4. CASE View(t, st.row) = None
    <2>1. Insert(t, st.row, st.value)
      BY <1>4 DEF ExecSave
    <2> HIDE DEF st
    <2>2. Statement(t).do = "save"
      BY <1>0 DEF st
    <2> QED
      BY <1>0, <1>1, <1>2, <1>3, <1>4, <2>1, <2>2, InsertKeeps
  <1>5. CASE View(t, st.row) # None
    <2>1. /\ Write(t, Put(st.row, st.value, FALSE))
          /\ shared' = shared /\ scan' = scan /\ loaded' = loaded
      BY <1>5 DEF ExecSave
    <2>2. \A p \in Parents(st.row, st.value) : View(t, p) # None
      <3>1. CASE st.row[1] # "mounts"
        <4>1. \A p \in Parents(st.row, st.value) : p \in Parents(st.row, View(t, st.row))
          BY <1>1, <3>1, ParentFacts
        <4> QED
          BY <1>1, <1>5, <4>1 DEF GormInv, Owned
      <3>2. CASE st.row[1] = "mounts"
        <4>1. op[t].kind = "SetMount" /\ Anchored(op[t]) /\ AnchorAt(op[t]) = 1
          BY <1>1, <3>2 DEF Anchored, AnchorAt
        <4>2. at[t] # 1
          BY <1>0, <4>1, AtAnchor
        <4>3. at[t] > AnchorAt(op[t])
          BY <1>0, <4>1, <4>2, AtStatement
        <4>4. View(t, Anchor(op[t])) # None
          BY <1>0, <4>1, <4>3, AtAnchor DEF Secured
        <4>5. Parents(st.row, st.value) = {Anchor(op[t])}
          BY <1>1, <3>2, <4>1, ParentsOf DEF Anchor
        <4> QED
          BY <4>4, <4>5
      <3> QED
        BY <3>1, <3>2
    <2>3. Writable(t, Put(st.row, st.value, FALSE), {})
      <3> HIDE DEF st
      <3>1. ~Lasting(st.row)
        BY <1>1 DEF IsParent, Lasting
      <3> QED
        BY <1>1, <1>3, <1>5, <2>2, <3>1, PutWritable
    <2>4. /\ DOMAIN shared' = Sessions /\ shared'[t] = shared[t] \cup {}
          /\ \A s \in Sessions \ {t} : shared'[s] = shared[s]
          /\ DOMAIN scan' = Sessions /\ scan'[t] = scan[t]
          /\ \A s \in Sessions \ {t} : scan'[s] = scan[s]
      BY <2>1 DEF GormInv, Placed, PerSession
    <2>5. Statement(t).do \notin {"ensure", "first"}
      BY <1>0
    <2> HIDE DEF st
    <2> QED
      BY <1>0, <2>1, <2>3, <2>4, <2>5, WriteKeeps
  <1> QED
    BY <1>4, <1>5

\* A struct that is saved was loaded.
LEMMA SavingSecured ==
    ASSUME GormInv, NEW t \in Sessions, ExecSaveLoaded(t)
    PROVE  Secured(t) /\ Statement(t).row \in Rows /\ Lasting(Statement(t).row)
  <1> DEFINE st == Statement(t)
  <1>1. Open(t) /\ ~AtEnd(t) /\ st.do = "save loaded"
    BY DEF ExecSaveLoaded, Ready
  <1>2. op[t].kind \in {"UpdateNamespace", "UpdateResource"} /\ st.row = Anchor(op[t])
    BY <1>1, AtStatement DEF StatementOK
  <1>3. Anchored(op[t])
    BY <1>2 DEF Anchored
  <1>4. op[t] \in Operations /\ at[t] \in 1..Len(Program(op[t])) /\ Len(Program(op[t])) \in Nat
    BY <1>1, AtStatement
  <1>5. at[t] # AnchorAt(op[t])
    BY <1>1, <1>3, AtAnchor
  <1>6. at[t] > AnchorAt(op[t])
    <2>1. CASE op[t].kind = "UpdateNamespace"
      BY <1>4, <1>5, <2>1 DEF AnchorAt
    <2>2. CASE op[t].kind = "UpdateResource"
      <3>1. op[t] \in ResourceOps
        BY <1>4, <2>2, AccountFields, NamespaceFields DEF Operations, AccountKinds, NamespaceKinds
      <3>2. at[t] # 1
        BY <1>1, <2>2, <3>1, UpdateResourceProgram DEF Statement
      <3> QED
        BY <1>4, <1>5, <2>2, <3>2 DEF AnchorAt
    <2> QED
      BY <1>2, <2>1, <2>2
  <1> QED
    BY <1>1, <1>2, <1>3, <1>6, AtAnchor

LEMMA SaveLoadedKeeps ==
    ASSUME GormInv, NEW t \in Sessions, ExecSaveLoaded(t)
    PROVE  GormInv'
  <1> DEFINE st == Statement(t)
             v == SaveLoadedValue(t)
  <1>0. Ready(t, "save loaded") /\ Open(t) /\ ~AtEnd(t) /\ st.do = "save loaded"
    BY DEF ExecSaveLoaded, Ready
  <1>1. /\ op[t].kind \in {"UpdateNamespace", "UpdateResource"} /\ st.row = Anchor(op[t])
        /\ \A x : x # None /\ ValueOK(st.row, x) =>
               /\ With(x, st.set) # None
               /\ ValueOK(st.row, With(x, st.set)) /\ Kept(st.row, x, With(x, st.set))
    BY <1>0, AtStatement DEF StatementOK
  <1>2. Secured(t) /\ st.row \in Rows /\ Lasting(st.row)
    BY SavingSecured
  <1>3. View(t, st.row) # None /\ loaded[t] # None /\ ValueOK(st.row, loaded[t])
        /\ Kept(st.row, View(t, st.row), loaded[t])
    BY <1>1, <1>2 DEF Secured
  <1>4. v # None /\ ValueOK(st.row, v) /\ Kept(st.row, loaded[t], v)
    BY <1>1, <1>3 DEF SaveLoadedValue
  <1>5. Kept(st.row, View(t, st.row), v)
    BY <1>3, <1>4 DEF Kept
  <1>6. Writers(t, {st.row}) = {}
    BY <1>0, NobodyToWaitFor
  <1>7. \A p \in Parents(st.row, v) : View(t, p) # None
    <2>1. \A p \in Parents(st.row, v) : p \in Parents(st.row, View(t, st.row))
      <3>1. st.row[1] # "mounts"
        BY <1>2 DEF Lasting
      <3> QED
        BY <1>2, <3>1, ParentFacts
    <2> QED
      BY <1>2, <1>3, <2>1 DEF GormInv, Owned
  <1>8. /\ Write(t, Put(st.row, v, FALSE))
        /\ shared' = shared /\ scan' = scan /\ loaded' = loaded
    BY DEF ExecSaveLoaded
  <1>9. /\ DOMAIN shared' = Sessions /\ shared'[t] = shared[t] \cup {}
        /\ \A s \in Sessions \ {t} : shared'[s] = shared[s]
        /\ DOMAIN scan' = Sessions /\ scan'[t] = scan[t]
        /\ \A s \in Sessions \ {t} : scan'[s] = scan[s]
    BY <1>8 DEF GormInv, Placed, PerSession
  <1>10. Statement(t).do \notin {"ensure", "first"}
    BY <1>0
  <1> HIDE DEF st, v
  <1>11. Writable(t, Put(st.row, v, FALSE), {})
    BY <1>2, <1>3, <1>4, <1>5, <1>6, <1>7, PutWritable
  <1> QED
    BY <1>0, <1>8, <1>9, <1>10, <1>11, WriteKeeps

LEMMA UpdateKeeps ==
    ASSUME GormInv, NEW t \in Sessions, ExecUpdate(t)
    PROVE  GormInv'
  <1> DEFINE st == Statement(t)
             v == With(View(t, st.row), st.set)
  <1>0. Ready(t, "update") /\ Open(t) /\ ~AtEnd(t) /\ st.do = "update"
    BY DEF ExecUpdate, Ready
  <1>1. /\ st.row \in Rows /\ st.row[1] = "users"
        /\ \A x \in UserValue : With(x, st.set) \in UserValue
    BY <1>0, AtStatement DEF StatementOK
  <1>2. CASE View(t, st.row) = None
    <2>1. Read(t) /\ loaded' = loaded
      BY <1>2 DEF ExecUpdate
    <2>2. op'[t] = op[t] /\ pending'[t] = pending[t] /\ db' = db
      BY <2>1 DEF Read, Advance
    <2>3. ASSUME Anchored(op[t]), at[t] >= AnchorAt(op[t]) PROVE Secured(t)'
      <3>1. at[t] # AnchorAt(op[t])
        BY <1>0, <2>3, AtAnchor
      <3>2. at[t] > AnchorAt(op[t])
        BY <1>0, <2>3, <3>1, AtStatement DEF AnchorAt
      <3> QED
        BY <1>0, <2>1, <2>2, <2>3, <3>2, AtAnchor, SameSight, SecuredLasts
    <2>4. DOMAIN loaded' = Sessions /\ \A s \in Sessions \ {t} : loaded'[s] = loaded[s]
      BY <2>1 DEF GormInv, Placed, PerSession
    <2> QED
      BY <1>0, <2>1, <2>3, <2>4, ReadKeeps
  <1>3. CASE View(t, st.row) # None
    <2>1. /\ Write(t, Put(st.row, v, FALSE))
          /\ shared' = shared /\ scan' = scan /\ loaded' = loaded
      BY <1>3 DEF ExecUpdate
    <2>2. View(t, st.row) \in UserValue
      BY <1>1, <1>3, ViewTyped DEF ValueOK, Optional
    <2>3. v \in UserValue /\ v # None /\ ValueOK(st.row, v)
      BY <1>1, <2>2, NoneIsNoValue DEF ValueOK, Optional
    <2>4. Writers(t, {st.row}) = {}
      BY <1>0, <1>3, NobodyToWaitFor
    <2>5. /\ DOMAIN shared' = Sessions /\ shared'[t] = shared[t] \cup {}
          /\ \A s \in Sessions \ {t} : shared'[s] = shared[s]
          /\ DOMAIN scan' = Sessions /\ scan'[t] = scan[t]
          /\ \A s \in Sessions \ {t} : scan'[s] = scan[s]
      BY <2>1 DEF GormInv, Placed, PerSession
    <2>6. Statement(t).do \notin {"ensure", "first"}
      BY <1>0
    <2>7. ~Lasting(st.row) /\ ~OfUser(st.row) /\ Parents(st.row, v) = {}
      BY <1>1, ParentsOf DEF Lasting, OfUser
    <2> HIDE DEF st, v
    <2>8. Writable(t, Put(st.row, v, FALSE), {})
      BY <1>1, <2>3, <2>4, <2>7, PutWritable
    <2> QED
      BY <1>0, <2>1, <2>5, <2>6, <2>8, WriteKeeps
  <1> QED
    BY <1>2, <1>3

LEMMA TargetsOfDelete ==
    ASSUME GormInv, NEW t \in Sessions, Open(t), ~AtEnd(t), Statement(t).do = "delete"
    PROVE  \A row \in Targets(t) : row \in Rows /\ ~Lasting(row)
  <1>1. Statement(t).rows \subseteq {row \in Rows : ~Lasting(row)}
    BY AtStatement DEF StatementOK
  <1>2. scan[t] = None \/ scan[t] \subseteq {row \in Rows : ~Lasting(row)}
    BY DEF GormInv, Placed, PlacedAt
  <1> QED
    BY <1>1, <1>2 DEF Targets

LEMMA ScanKeeps ==
    ASSUME GormInv, NEW t \in Sessions, ScanDelete(t)
    PROVE  GormInv'
  <1>0. /\ Open(t) /\ ~AtEnd(t) /\ Statement(t).do = "delete"
        /\ scan' = [scan EXCEPT ![t] = Targets(t)]
        /\ UNCHANGED <<db, op, at, pending, shared, loaded, overlapped, begun>>
    BY DEF ScanDelete
  <1>1. scan'[t] \subseteq {row \in Rows : ~Lasting(row)}
    BY <1>0, TargetsOfDelete DEF GormInv, Placed, PerSession
  <1>2. \A s, row : View(s, row)' = View(s, row)
    BY <1>0 DEF View
  <1>3. Typed' /\ Locks'
    BY <1>0 DEF GormInv, Typed, Locks
  <1>4. Owned'
    <2>1. ASSUME NEW s \in Sessions, NEW row \in Rows, View(s, row)' # None,
                 NEW p \in Parents(row, View(s, row)')
          PROVE  View(s, p)' # None
      BY <1>2, <2>1 DEF GormInv, Owned
    <2> QED
      BY <1>0, <2>1 DEF GormInv, Owned
  <1>5. Elsewhere(t)
    <2>1. \A s \in Sessions \ {t} : scan'[s] = scan[s]
      BY <1>0 DEF GormInv, Placed, PerSession
    <2> QED
      BY <1>0, <2>1, SameSight DEF Elsewhere
  <1>6. PlacedAt(t)'
    <2>1. PlacedAt(t)
      BY DEF GormInv, Placed
    <2>2. Secured(t) => Secured(t)'
      BY <1>0, <1>2 DEF Secured
    <2> QED
      BY <1>0, <1>1, <2>1, <2>2 DEF PlacedAt, Open
  <1>7. PerSession'
    BY <1>0 DEF GormInv, Placed, PerSession
  <1>8. begun' = begun /\ overlapped' \in [Sessions -> BOOLEAN]
    BY <1>0 DEF GormInv, Placed
  <1>9. Placed'
    BY <1>5, <1>6, <1>7, <1>8, PlacedAll
  <1> QED
    BY <1>3, <1>4, <1>9 DEF GormInv

\* What a DELETE of deletable rows takes with it are passwords and keys.
LEMMA DeleteKeeps ==
    ASSUME GormInv, NEW t \in Sessions, ExecDelete(t)
    PROVE  GormInv'
  <1> DEFINE st == Statement(t)
             rows == Targets(t)
             all == rows \cup Cascade(t, rows)
             ch == [row \in all |-> [to |-> None, created |-> FALSE]]
  <1>0. Ready(t, "delete") /\ Open(t) /\ ~AtEnd(t) /\ st.do = "delete"
    BY DEF ExecDelete, Ready
  <1>1. CASE rows = {} /\ st.err # "nil"
    BY <1>1, RollbackKeeps DEF ExecDelete
  <1>2. CASE ~(rows = {} /\ st.err # "nil")
    <2>1. /\ Write(t, ch) /\ scan' = [scan EXCEPT ![t] = None]
          /\ shared' = shared /\ loaded' = loaded
      BY <1>2 DEF ExecDelete
    <2>2. \A row \in rows : row \in Rows /\ ~Lasting(row)
      BY <1>0, TargetsOfDelete
    <2>3. ASSUME NEW row \in Cascade(t, rows) PROVE row \in Rows /\ OfUser(row)
      <3>1. row \in Rows /\ Parents(row, View(t, row)) \cap rows # {}
        BY <2>3 DEF Cascade
      <3>2. PICK p \in Parents(row, View(t, row)) : p \in rows
        BY <3>1
      <3> QED
        BY <2>2, <3>1, <3>2, ParentFacts
    <2>4. \A row \in all : row \in Rows /\ ~Lasting(row)
      BY <2>2, <2>3 DEF OfUser, Lasting
    <2>5. Writers(t, all) = {} /\ Sharers(t, all) = {}
      BY <1>0, NobodyToWaitFor
    <2>6. \A s \in Sessions \ {t} : \A row \in all :
              row \notin DOMAIN pending[s] /\ row \notin shared[s]
      BY <2>5 DEF Writers, Sharers
    <2>7. DOMAIN ch = all /\ \A row \in all : ch[row].to = None
      OBVIOUS
    <2>8. ASSUME NEW row \in Rows, row \notin all, View(t, row) # None,
                 NEW p \in Parents(row, View(t, row))
          PROVE  p \notin all /\ View(t, p) # None
      <3>1. View(t, p) # None
        BY <2>8 DEF GormInv, Owned
      <3>2. p \notin rows
        BY <2>8 DEF Cascade
      <3>3. p \notin Cascade(t, rows)
        <4>1. IsParent(p)
          BY <2>8, ParentFacts
        <4> QED
          BY <2>3, <4>1 DEF OfUser, IsParent
      <3> QED
        BY <3>1, <3>2, <3>3
    <2>9. \A row \in all : ValueOK(row, None)
      BY GormAssumption DEF ValueOK, Optional
    <2> HIDE DEF ch, all
    <2>10. \A row \in Rows : Seen(t, ch, row) # None =>
               \A p \in Parents(row, Seen(t, ch, row)) : Seen(t, ch, p) # None
      BY <2>7, <2>8 DEF Seen
    <2>11. Writable(t, ch, {})
      BY <2>4, <2>6, <2>7, <2>9, <2>10 DEF Writable
    <2>12. /\ DOMAIN shared' = Sessions /\ shared'[t] = shared[t] \cup {}
           /\ \A s \in Sessions \ {t} : shared'[s] = shared[s]
           /\ DOMAIN scan' = Sessions /\ scan'[t] = None
           /\ \A s \in Sessions \ {t} : scan'[s] = scan[s]
      BY <2>1 DEF GormInv, Placed, PerSession
    <2>13. Statement(t).do \notin {"ensure", "first"}
      BY <1>0
    <2> QED
      BY <1>0, <2>1, <2>11, <2>12, <2>13, WriteKeeps
  <1> QED
    BY <1>1, <1>2

LEMMA BeginKeeps ==
    ASSUME GormInv, NEW t \in Sessions, NEW o \in Operations, Begin(t, o)
    PROVE  GormInv'
  <1>0. /\ ~Open(t) /\ begun < MaxOps /\ begun' = begun + 1
        /\ op' = [op EXCEPT ![t] = o] /\ overlapped' = [overlapped EXCEPT ![t] = FALSE]
        /\ UNCHANGED <<db, at, pending, shared, scan, loaded>>
    BY DEF Begin
  <1>1. \A s, row : View(s, row)' = View(s, row)
    BY <1>0 DEF View
  <1>2. Typed' /\ Locks'
    BY <1>0 DEF GormInv, Typed, Locks
  <1>3. Owned'
    <2>1. ASSUME NEW s \in Sessions, NEW row \in Rows, View(s, row)' # None,
                 NEW p \in Parents(row, View(s, row)')
          PROVE  View(s, p)' # None
      BY <1>1, <2>1 DEF GormInv, Owned
    <2> QED
      BY <1>0, <2>1 DEF GormInv, Owned
  <1>4. Elsewhere(t)
    <2>1. \A s \in Sessions \ {t} : op'[s] = op[s]
      BY <1>0 DEF GormInv, Placed, PerSession
    <2> QED
      BY <1>0, <2>1, SameSight DEF Elsewhere
  <1>5. PlacedAt(t)'
    <2>1. op'[t] = o /\ at'[t] = 1 /\ scan'[t] = scan[t]
      BY <1>0 DEF GormInv, Placed, PlacedAt, PerSession
    <2>2. scan[t] = None \/ scan[t] \subseteq {row \in Rows : ~Lasting(row)}
      BY DEF GormInv, Placed, PlacedAt
    <2>3. Len(Program(o)) \in Nat /\ ~(1 > AnchorAt(o))
      BY Programs DEF AnchorAt
    <2>4. at'[t] \in 1..(Len(Program(o)) + 1)
      BY <2>1, <2>3
    <2> QED
      BY <2>1, <2>2, <2>3, <2>4 DEF PlacedAt, Open, Optional
  <1>6. PerSession'
    BY <1>0 DEF GormInv, Placed, PerSession
  <1>7. begun' \in 0..MaxOps /\ overlapped' \in [Sessions -> BOOLEAN]
    BY <1>0, GormAssumption DEF GormInv, Placed
  <1>8. Placed'
    BY <1>4, <1>5, <1>6, <1>7, PlacedElsewhere DEF Placed
  <1> QED
    BY <1>2, <1>3, <1>8 DEF GormInv

LEMMA GormInitially == GormInit => GormInv
  <1> SUFFICES ASSUME GormInit PROVE GormInv
    OBVIOUS
  <1> USE DEF GormInit, SessionsInit, IdleSessions
  <1>1. \A t \in Sessions, row \in Rows : View(t, row) = None
    BY NothingWritten DEF View
  <1>2. Typed
    BY NothingWritten, GormAssumption DEF Typed, ValueOK, Optional
  <1>3. Owned
    BY <1>1 DEF Owned
  <1>4. Locks
    BY NothingWritten DEF Locks
  <1>5. Placed
    <2>1. ASSUME NEW t \in Sessions PROVE PlacedAt(t)
      BY DEF PlacedAt, Open, Optional
    <2>2. PerSession /\ overlapped \in [Sessions -> BOOLEAN] /\ begun \in 0..MaxOps
      BY GormAssumption DEF PerSession
    <2> QED
      BY <2>1, <2>2 DEF Placed
  <1> QED
    BY <1>2, <1>3, <1>4, <1>5 DEF GormInv

LEMMA GormSteps == GormInv /\ [GormNext]_gormVars => GormInv'
  <1> SUFFICES ASSUME GormInv, [GormNext]_gormVars PROVE GormInv'
    OBVIOUS
  <1>1. CASE UNCHANGED gormVars
    <2>1. UNCHANGED <<db, op, at, pending, shared, scan, loaded, overlapped, begun>>
      BY <1>1 DEF gormVars, sessionVars
    <2> QED
      BY <2>1 DEF GormInv, Typed, Owned, Locks, Placed, PlacedAt, PerSession, Secured, View, Open
  <1>2. ASSUME NEW t \in Sessions, NEW o \in Operations, Begin(t, o) PROVE GormInv'
    BY <1>2, BeginKeeps
  <1>3. ASSUME NEW t \in Sessions, Execute(t) PROVE GormInv'
    BY <1>3, EnsureKeeps, FirstKeeps, CreateKeeps, SaveKeeps, SaveLoadedKeeps, UpdateKeeps,
       ScanKeeps, DeleteKeeps, CommitKeeps DEF Execute
  <1>4. ASSUME NEW t \in Sessions, Fails(t) PROVE GormInv'
    BY <1>4, RollbackKeeps DEF Fails
  <1> QED
    BY <1>1, <1>2, <1>3, <1>4 DEF GormNext

LEMMA GormInvariant == GormSpec => []GormInv
  BY GormInitially, GormSteps, PTL DEF GormSpec

-----------------------------------------------------------------------------
(* Programs spelled out *)

\* r is s and then x.
LEMMA Appended ==
    ASSUME NEW S, NEW s \in Seq(S), NEW x, NEW r \in Seq(S \cup {x}),
           Len(r) = Len(s) + 1, \A i \in 1..Len(s) : r[i] = s[i], r[Len(s) + 1] = x
    PROVE  s \o <<x>> = r
  <1> DEFINE T == S \cup {x}
             q == s \o <<x>>
  <1>1. s \in Seq(T) /\ <<x>> \in Seq(T)
    OBVIOUS
  <1>2. /\ q \in Seq(T) /\ Len(q) = Len(s) + 1
        /\ \A i \in 1..Len(q) : q[i] = IF i <= Len(s) THEN s[i] ELSE x
    BY <1>1
  <1>3. \A i \in 1..Len(q) : q[i] = r[i]
    BY <1>2
  <1> HIDE DEF T, q
  <1>4. r \in Seq(T) /\ Len(q) = Len(r)
    BY <1>2 DEF T
  <1>5. q = r
    BY <1>2, <1>3, <1>4, SeqEqual
  <1> QED
    BY <1>5 DEF q

LEMMA Joined ==
    /\ \A a, b : <<a>> \o <<b>> = <<a, b>>
    /\ \A a, b, c : <<a, b>> \o <<c>> = <<a, b, c>>
    /\ \A a, b, c, d : <<a, b, c>> \o <<d>> = <<a, b, c, d>>
    /\ \A a, b, c, d, e : <<a, b, c, d>> \o <<e>> = <<a, b, c, d, e>>
    /\ \A a, b, c, d, e, f : <<a, b, c, d, e>> \o <<f>> = <<a, b, c, d, e, f>>
  <1>1. ASSUME NEW a, NEW b PROVE <<a>> \o <<b>> = <<a, b>>
    <2> DEFINE s == <<a>>
               r == <<a, b>>
               S == {a}
    <2>1. s \in Seq(S) /\ r \in Seq(S \cup {b}) /\ Len(r) = Len(s) + 1 /\ r[Len(s) + 1] = b
      OBVIOUS
    <2>2. \A i \in 1..Len(s) : r[i] = s[i]
      OBVIOUS
    <2> HIDE DEF s, r, S
    <2>3. s \o <<b>> = r
      BY <2>1, <2>2, Appended
    <2> QED
      BY <2>3 DEF s, r
  <1>2. ASSUME NEW a, NEW b, NEW c PROVE <<a, b>> \o <<c>> = <<a, b, c>>
    <2> DEFINE s == <<a, b>>
               r == <<a, b, c>>
               S == {a, b}
    <2>1. s \in Seq(S) /\ r \in Seq(S \cup {c}) /\ Len(r) = Len(s) + 1 /\ r[Len(s) + 1] = c
      OBVIOUS
    <2>2. \A i \in 1..Len(s) : r[i] = s[i]
      OBVIOUS
    <2> HIDE DEF s, r, S
    <2>3. s \o <<c>> = r
      BY <2>1, <2>2, Appended
    <2> QED
      BY <2>3 DEF s, r
  <1>3. ASSUME NEW a, NEW b, NEW c, NEW d PROVE <<a, b, c>> \o <<d>> = <<a, b, c, d>>
    <2> DEFINE s == <<a, b, c>>
               r == <<a, b, c, d>>
               S == {a, b, c}
    <2>1. s \in Seq(S) /\ r \in Seq(S \cup {d}) /\ Len(r) = Len(s) + 1 /\ r[Len(s) + 1] = d
      OBVIOUS
    <2>2. \A i \in 1..Len(s) : r[i] = s[i]
      OBVIOUS
    <2> HIDE DEF s, r, S
    <2>3. s \o <<d>> = r
      BY <2>1, <2>2, Appended
    <2> QED
      BY <2>3 DEF s, r
  <1>4. ASSUME NEW a, NEW b, NEW c, NEW d, NEW e PROVE <<a, b, c, d>> \o <<e>> = <<a, b, c, d, e>>
    <2> DEFINE s == <<a, b, c, d>>
               r == <<a, b, c, d, e>>
               S == {a, b, c, d}
    <2>1. s \in Seq(S) /\ r \in Seq(S \cup {e}) /\ Len(r) = Len(s) + 1 /\ r[Len(s) + 1] = e
      OBVIOUS
    <2>2. \A i \in 1..Len(s) : r[i] = s[i]
      OBVIOUS
    <2> HIDE DEF s, r, S
    <2>3. s \o <<e>> = r
      BY <2>1, <2>2, Appended
    <2> QED
      BY <2>3 DEF s, r
  <1>5. ASSUME NEW a, NEW b, NEW c, NEW d, NEW e, NEW f
        PROVE  <<a, b, c, d, e>> \o <<f>> = <<a, b, c, d, e, f>>
    <2> DEFINE s == <<a, b, c, d, e>>
               r == <<a, b, c, d, e, f>>
               S == {a, b, c, d, e}
    <2>1. s \in Seq(S) /\ r \in Seq(S \cup {f}) /\ Len(r) = Len(s) + 1 /\ r[Len(s) + 1] = f
      OBVIOUS
    <2>2. \A i \in 1..Len(s) : r[i] = s[i]
      OBVIOUS
    <2> HIDE DEF s, r, S
    <2>3. s \o <<f>> = r
      BY <2>1, <2>2, Appended
    <2> QED
      BY <2>3 DEF s, r
  <1> QED
    BY <1>1, <1>2, <1>3, <1>4, <1>5

\* Statements one after the other.
LEMMA InARow3 ==
    ASSUME NEW a, NEW b, NEW c
    PROVE  <<a>> \o <<b>> \o <<c>> = <<a, b, c>>
  <1>1. <<a>> \o <<b>> = <<a, b>>
    BY Joined
  <1>2. <<a, b>> \o <<c>> = <<a, b, c>>
    BY Joined
  <1> QED
    BY <1>1, <1>2

LEMMA InARow4 ==
    ASSUME NEW a, NEW b, NEW c, NEW d
    PROVE  <<a>> \o <<b>> \o <<c>> \o <<d>> = <<a, b, c, d>>
  <1>1. <<a>> \o <<b>> \o <<c>> = <<a, b, c>>
    BY InARow3
  <1>2. <<a, b, c>> \o <<d>> = <<a, b, c, d>>
    BY Joined
  <1> QED
    BY <1>1, <1>2

LEMMA JoinedNone ==
    /\ \A a : <<a>> \o <<>> = <<a>> /\ <<>> \o <<a>> = <<a>>
    /\ \A a, b : <<a, b>> \o <<>> = <<a, b>>
    /\ \A a, b, c : <<a, b, c>> \o <<>> = <<a, b, c>>
    /\ \A a, b, c, d : <<a, b, c, d>> \o <<>> = <<a, b, c, d>>
  OBVIOUS

\* The statements as records.
EnsureSt(row, err) == [do |-> "ensure", row |-> row, err |-> err]
FirstSt(row, err) == [do |-> "first", row |-> row, err |-> err]
CreateSt(row, value, err) == [do |-> "create", row |-> row, value |-> value, err |-> err]
SaveSt(row, value) == [do |-> "save", row |-> row, value |-> value]
SaveLoadedSt(row, set) == [do |-> "save loaded", row |-> row, set |-> set]
UpdateSt(row, set) == [do |-> "update", row |-> row, set |-> set]
DeleteSt(rows, err) == [do |-> "delete", rows |-> rows, err |-> err]

LEMMA Units ==
    /\ \A row, err : Ensure(row, err) = <<EnsureSt(row, err)>>
    /\ \A row, err : First(row, err) = <<FirstSt(row, err)>>
    /\ \A row, value, err : Create(row, value, err) = <<CreateSt(row, value, err)>>
    /\ \A row, value : Save(row, value) = <<SaveSt(row, value)>>
    /\ \A row, set : SaveLoaded(row, set) = <<SaveLoadedSt(row, set)>>
    /\ \A row, set : Update(row, set) = <<UpdateSt(row, set)>>
    /\ \A rows, err : Delete(rows, err) = <<DeleteSt(rows, err)>>
  BY Zenon DEF Ensure, First, Create, Save, SaveLoaded, Update, Delete, EnsureSt, FirstSt, CreateSt,
         SaveSt, SaveLoadedSt, UpdateSt, DeleteSt

UserFound(o) == EnsureSt(UserRow(o.user), "ErrUserNotFound")
NamespaceFound(o) == EnsureSt(NamespaceRow(o.ns), "ErrNamespaceNotFound")

LEMMA Checks ==
    /\ \A o : ensureUserExists(o.user) = <<UserFound(o)>>
    /\ \A o : ensureNamespaceExists(o.ns) = <<NamespaceFound(o)>>
  BY Units, Zenon DEF ensureUserExists, ensureNamespaceExists, UserFound, NamespaceFound

LEMMA AccountSpelled ==
    ASSUME NEW o
    PROVE  /\ o.kind = "CreateUser" =>
                  Program(o) = <<CreateSt(UserRow(o.user), [superuser |-> o.superuser],
                                          "ErrDuplicateUsername")>>
           /\ o.kind = "DeleteUser" =>
                  Program(o) = <<UserFound(o), DeleteSt(RolesOf(o.user), "nil"),
                                 DeleteSt(GrantsOf(o.user), "nil"),
                                 DeleteSt({PasswordRow(o.user)}, "nil"),
                                 DeleteSt(KeysOf(o.user), "nil"),
                                 DeleteSt({UserRow(o.user)}, "nil")>>
           /\ o.kind = "UpdateUser" =>
                  Program(o) =
                      IF o.superuser = None
                      THEN <<FirstSt(UserRow(o.user), "ErrUserNotFound")>>
                      ELSE <<FirstSt(UserRow(o.user), "ErrUserNotFound"),
                             UpdateSt(UserRow(o.user), [superuser |-> o.superuser])>>
           /\ o.kind = "SetMountGrant" =>
                  Program(o) = <<UserFound(o), SaveSt(GrantRow(o.user, o.pattern), "granted")>>
           /\ o.kind = "DeleteMountGrant" =>
                  Program(o) = <<UserFound(o), DeleteSt({GrantRow(o.user, o.pattern)},
                                                        "ErrMountGrantNotFound")>>
           /\ o.kind = "SetPassword" =>
                  Program(o) =
                      IF o.password = None
                      THEN <<UserFound(o), DeleteSt({PasswordRow(o.user)}, "nil")>>
                      ELSE <<UserFound(o), SaveSt(PasswordRow(o.user), PasswordHash(o.password))>>
           /\ o.kind = "CreateKey" =>
                  Program(o) = <<UserFound(o), CreateSt(KeyRow(o.user, o.key), NewKey(o),
                                                        "ErrKeyCollision")>>
           /\ o.kind = "RevokeKey" =>
                  Program(o) = <<UserFound(o), EnsureSt(KeyRow(o.user, o.key), "ErrKeyNotFound"),
                                 DeleteSt({KeyRow(o.user, o.key)}, "nil")>>
  <1>1. CASE o.kind = "CreateUser"
    BY <1>1, Units DEF Program, CreateUser
  <1>2. CASE o.kind = "DeleteUser"
    <2>1. Program(o) = DeleteUser(o)
      BY <1>2 DEF Program
    <2> DEFINE a == UserFound(o)
               b == DeleteSt(RolesOf(o.user), "nil")
               c == DeleteSt(GrantsOf(o.user), "nil")
               d == DeleteSt({PasswordRow(o.user)}, "nil")
               e == DeleteSt(KeysOf(o.user), "nil")
               f == DeleteSt({UserRow(o.user)}, "nil")
    <2>2. DeleteUser(o) = <<a>> \o <<b>> \o <<c>> \o <<d>> \o <<e>> \o <<f>>
      BY Units, Checks, Zenon DEF DeleteUser
    <2> HIDE DEF a, b, c, d, e, f
    <2>6. Program(o) = <<a, b, c, d, e, f>>
      <3>1. <<a>> \o <<b>> \o <<c>> \o <<d>> \o <<e>> \o <<f>> = <<a, b, c, d, e, f>>
        <4>1. <<a>> \o <<b>> \o <<c>> \o <<d>> = <<a, b, c, d>>
          BY InARow4
        <4>2. <<a, b, c, d>> \o <<e>> = <<a, b, c, d, e>>
          BY Joined
        <4>3. <<a, b, c, d, e>> \o <<f>> = <<a, b, c, d, e, f>>
          BY Joined
        <4>4. <<a>> \o <<b>> \o <<c>> \o <<d>> \o <<e>> = <<a, b, c, d, e>>
          BY <4>1, <4>2
        <4> QED
          BY <4>4, <4>3
      <3> QED
        BY <2>1, <2>2, <3>1, Zenon
    <2> QED
      BY <1>2, <2>6, Zenon DEF a, b, c, d, e, f
  <1>3. CASE o.kind = "UpdateUser"
    <2>1. Program(o) = UpdateUser(o)
      BY <1>3 DEF Program
    <2>2. CASE o.superuser = None
      BY <1>3, <2>1, <2>2, Units, JoinedNone, Zenon DEF UpdateUser, When
    <2>3. CASE o.superuser # None
      BY <1>3, <2>1, <2>3, Units, Joined, Zenon DEF UpdateUser, When
    <2> QED
      BY <1>3, <2>2, <2>3
  <1>4. CASE o.kind = "SetMountGrant"
    BY <1>4, Units, Checks, Joined DEF Program, SetMountGrant
  <1>5. CASE o.kind = "DeleteMountGrant"
    BY <1>5, Units, Checks, Joined DEF Program, DeleteMountGrant
  <1>6. CASE o.kind = "SetPassword"
    <2>1. Program(o) = SetPassword(o)
      BY <1>6 DEF Program
    <2> QED
      BY <1>6, <2>1, Units, Checks, Joined DEF SetPassword
  <1>7. CASE o.kind = "CreateKey"
    BY <1>7, Units, Checks, Joined DEF Program, CreateKey
  <1>8. CASE o.kind = "RevokeKey"
    <2>1. Program(o) = RevokeKey(o)
      BY <1>8 DEF Program
    <2> DEFINE a == UserFound(o)
               b == EnsureSt(KeyRow(o.user, o.key), "ErrKeyNotFound")
               c == DeleteSt({KeyRow(o.user, o.key)}, "nil")
    <2>2. RevokeKey(o) = <<a>> \o <<b>> \o <<c>>
      BY Units, Checks, Zenon DEF RevokeKey
    <2> HIDE DEF a, b, c
    <2>3. Program(o) = <<a, b, c>>
      BY <2>1, <2>2, InARow3, Zenon
    <2> QED
      BY <1>8, <2>3, Zenon DEF a, b, c
  <1> QED
    BY <1>1, <1>2, <1>3, <1>4, <1>5, <1>6, <1>7, <1>8

LEMMA NamespaceSpelled ==
    ASSUME NEW o
    PROVE  LET made == CreateSt(NamespaceRow(o.ns),
                                [pidFormat |-> o.format, dateCreated |-> o.now,
                                 dateUpdated |-> o.now], "ErrDuplicateNamespaceID")
               tagged == CreateSt(NamespaceTagRow(o.ns), o.tags, "ErrDuplicateNamespaceID")
               found == EnsureSt(UserRow(o.owner), "ErrUserNotFound")
               owned == CreateSt(RoleRow(o.ns, o.owner), "manager", "DatabaseError")
               first == FirstSt(NamespaceRow(o.ns), "ErrNamespaceNotFound")
               untagged == DeleteSt({NamespaceTagRow(o.ns)}, "nil")
               retagged == CreateSt(NamespaceTagRow(o.ns), o.tags, "DatabaseError")
               saved == SaveLoadedSt(NamespaceRow(o.ns), [dateUpdated |-> o.now])
           IN  /\ o.kind = "CreateNamespace" =>
                      Program(o) = CASE o.owner = None /\ o.tags = Plain -> <<made>>
                                     [] o.owner = None /\ o.tags # Plain -> <<made, tagged>>
                                     [] o.owner # None /\ o.tags = Plain -> <<found, made, owned>>
                                     [] o.owner # None /\ o.tags # Plain ->
                                            <<found, made, tagged, owned>>
               /\ o.kind = "UpdateNamespace" =>
                      Program(o) = CASE o.tags = None -> <<first, saved>>
                                     [] o.tags # None /\ o.tags = Plain ->
                                            <<first, untagged, saved>>
                                     [] o.tags # None /\ o.tags # Plain ->
                                            <<first, untagged, retagged, saved>>
               /\ o.kind = "SetNamespaceRole" =>
                      Program(o) =
                          IF o.role = "none"
                          THEN <<NamespaceFound(o), DeleteSt({RoleRow(o.ns, o.user)}, "nil")>>
                          ELSE <<NamespaceFound(o), SaveSt(RoleRow(o.ns, o.user), o.role)>>
               /\ o.kind = "DeleteNamespaceRole" =>
                      Program(o) = <<DeleteSt({RoleRow(o.ns, o.user)}, "ErrRoleNotFound")>>
               /\ o.kind = "SetMount" =>
                      Program(o) = <<NamespaceFound(o), SaveSt(MountRow(o.base), o.ns)>>
               /\ o.kind = "DeleteMount" =>
                      Program(o) = <<DeleteSt({MountRow(o.base)}, "ErrMountNotFound")>>
  <1> DEFINE made == CreateSt(NamespaceRow(o.ns),
                              [pidFormat |-> o.format, dateCreated |-> o.now,
                               dateUpdated |-> o.now], "ErrDuplicateNamespaceID")
             tagged == CreateSt(NamespaceTagRow(o.ns), o.tags, "ErrDuplicateNamespaceID")
             found == EnsureSt(UserRow(o.owner), "ErrUserNotFound")
             owned == CreateSt(RoleRow(o.ns, o.owner), "manager", "DatabaseError")
             first == FirstSt(NamespaceRow(o.ns), "ErrNamespaceNotFound")
             untagged == DeleteSt({NamespaceTagRow(o.ns)}, "nil")
             retagged == CreateSt(NamespaceTagRow(o.ns), o.tags, "DatabaseError")
             saved == SaveLoadedSt(NamespaceRow(o.ns), [dateUpdated |-> o.now])
  <1>1. ASSUME o.kind = "CreateNamespace"
        PROVE  Program(o) = CASE o.owner = None /\ o.tags = Plain -> <<made>>
                              [] o.owner = None /\ o.tags # Plain -> <<made, tagged>>
                              [] o.owner # None /\ o.tags = Plain -> <<found, made, owned>>
                              [] o.owner # None /\ o.tags # Plain -> <<found, made, tagged, owned>>
    <2>1. Program(o) = CreateNamespace(o)
      BY <1>1 DEF Program
    <2>2. CreateNamespace(o) = When(o.owner # None, <<found>>) \o <<made>>
              \o When(o.tags # Plain, <<tagged>>) \o When(o.owner # None, <<owned>>)
      BY Units, Zenon DEF CreateNamespace, ensureUserExists
    <2> HIDE DEF made, tagged, found, owned
    <2>3. CASE o.owner = None /\ o.tags = Plain
      BY <2>1, <2>2, <2>3, JoinedNone DEF When
    <2>4. CASE o.owner = None /\ o.tags # Plain
      <3>1. CreateNamespace(o) = <<>> \o <<made>> \o <<tagged>> \o <<>>
        BY <2>2, <2>4 DEF When
      <3>2. <<>> \o <<made>> = <<made>>
        BY JoinedNone
      <3>3. <<made>> \o <<tagged>> = <<made, tagged>>
        BY Joined, Zenon
      <3>4. <<made, tagged>> \o <<>> = <<made, tagged>>
        BY JoinedNone
      <3>5. CreateNamespace(o) = <<made, tagged>>
        BY <3>1, <3>2, <3>3, <3>4, Zenon
      <3> QED
        BY <2>1, <2>4, <3>5
    <2>5. CASE o.owner # None /\ o.tags = Plain
      <3>0. <<found>> \o <<made>> \o <<>> = <<found>> \o <<made>>
        OBVIOUS
      <3>1. CreateNamespace(o) = <<found>> \o <<made>> \o <<>> \o <<owned>>
        BY <2>2, <2>5 DEF When
      <3>2. CreateNamespace(o) = <<found, made, owned>>
        BY <3>1, <3>0, InARow3, Zenon
      <3> QED
        BY <2>1, <2>5, <3>2
    <2>6. CASE o.owner # None /\ o.tags # Plain
      <3>1. CreateNamespace(o) = <<found>> \o <<made>> \o <<tagged>> \o <<owned>>
        BY <2>2, <2>6 DEF When
      <3>2. CreateNamespace(o) = <<found, made, tagged, owned>>
        BY <3>1, InARow4, Zenon
      <3> QED
        BY <2>1, <2>6, <3>2
    <2> QED
      BY <2>3, <2>4, <2>5, <2>6
  <1>2. ASSUME o.kind = "UpdateNamespace"
        PROVE  Program(o) = CASE o.tags = None -> <<first, saved>>
                              [] o.tags # None /\ o.tags = Plain -> <<first, untagged, saved>>
                              [] o.tags # None /\ o.tags # Plain ->
                                     <<first, untagged, retagged, saved>>
    <2>1. Program(o) = UpdateNamespace(o)
      BY <1>2 DEF Program
    <2>2. UpdateNamespace(o) = <<first>> \o When(o.tags # None, <<untagged>>)
              \o When(o.tags \notin {None, Plain}, <<retagged>>) \o <<saved>>
      BY Units, Zenon DEF UpdateNamespace
    <2> HIDE DEF first, untagged, retagged, saved
    <2>3. CASE o.tags = None
      <3>1. UpdateNamespace(o) = <<first>> \o <<>> \o <<>> \o <<saved>>
        BY <2>2, <2>3 DEF When
      <3>2. <<first>> \o <<>> = <<first>>
        BY JoinedNone
      <3>3. <<first>> \o <<saved>> = <<first, saved>>
        BY Joined, Zenon
      <3>4. UpdateNamespace(o) = <<first, saved>>
        BY <3>1, <3>2, <3>3, Zenon
      <3> QED
        BY <2>1, <2>3, <3>4
    <2>4. CASE o.tags # None /\ o.tags = Plain
      <3>0. <<first>> \o <<untagged>> \o <<>> = <<first>> \o <<untagged>>
        OBVIOUS
      <3>1. UpdateNamespace(o) = <<first>> \o <<untagged>> \o <<>> \o <<saved>>
        BY <2>2, <2>4 DEF When
      <3>2. UpdateNamespace(o) = <<first, untagged, saved>>
        BY <3>1, <3>0, InARow3, Zenon
      <3> QED
        BY <2>1, <2>4, <3>2
    <2>5. CASE o.tags # None /\ o.tags # Plain
      <3>1. UpdateNamespace(o) = <<first>> \o <<untagged>> \o <<retagged>> \o <<saved>>
        BY <2>2, <2>5 DEF When
      <3>2. UpdateNamespace(o) = <<first, untagged, retagged, saved>>
        BY <3>1, InARow4, Zenon
      <3> QED
        BY <2>1, <2>5, <3>2
    <2> QED
      BY <2>3, <2>4, <2>5
  <1>3. ASSUME o.kind = "SetNamespaceRole"
        PROVE  Program(o) =
                   IF o.role = "none"
                   THEN <<NamespaceFound(o), DeleteSt({RoleRow(o.ns, o.user)}, "nil")>>
                   ELSE <<NamespaceFound(o), SaveSt(RoleRow(o.ns, o.user), o.role)>>
    BY <1>3, Units, Checks, Joined DEF Program, SetNamespaceRole
  <1>4. o.kind = "DeleteNamespaceRole" =>
            Program(o) = <<DeleteSt({RoleRow(o.ns, o.user)}, "ErrRoleNotFound")>>
    BY Units DEF Program, DeleteNamespaceRole
  <1>5. o.kind = "SetMount" => Program(o) = <<NamespaceFound(o), SaveSt(MountRow(o.base), o.ns)>>
    BY Units, Checks, Joined DEF Program, SetMount
  <1>6. o.kind = "DeleteMount" =>
            Program(o) = <<DeleteSt({MountRow(o.base)}, "ErrMountNotFound")>>
    BY Units DEF Program, DeleteMount
  <1> QED
    BY <1>1, <1>2, <1>3, <1>4, <1>5, <1>6

LEMMA ResourceSpelled ==
    ASSUME NEW o \in ResourceOps
    PROVE  LET made == CreateSt(ResourceRow(o.ns, o.pid), NewRow(o.content, o.now),
                                "ErrPIDAllocationFailed")
               tagged == CreateSt(ResourceTagRow(o.ns, o.pid), o.content, "ErrPIDAllocationFailed")
               first == FirstSt(ResourceRow(o.ns, o.pid), "ErrResourceNotFound")
               saved == SaveLoadedSt(ResourceRow(o.ns, o.pid),
                            Given([content |-> o.content, deleted |-> o.deleted,
                                   dateUpdated |-> o.now]))
               untagged == DeleteSt({ResourceTagRow(o.ns, o.pid)}, "nil")
               retagged == CreateSt(ResourceTagRow(o.ns, o.pid), o.content, "DatabaseError")
           IN  /\ o.kind = "CreateResource" =>
                      Program(o) = IF o.content = Plain THEN <<NamespaceFound(o), made>>
                                   ELSE <<NamespaceFound(o), made, tagged>>
               /\ o.kind = "UpdateResource" =>
                      Program(o) =
                          CASE o.content = None -> <<NamespaceFound(o), first, saved>>
                            [] o.content # None /\ o.content = Plain ->
                                   <<NamespaceFound(o), first, saved, untagged>>
                            [] o.content # None /\ o.content # Plain ->
                                   <<NamespaceFound(o), first, saved, untagged, retagged>>
  <1> DEFINE found == NamespaceFound(o)
             made == CreateSt(ResourceRow(o.ns, o.pid), NewRow(o.content, o.now),
                              "ErrPIDAllocationFailed")
             tagged == CreateSt(ResourceTagRow(o.ns, o.pid), o.content, "ErrPIDAllocationFailed")
             first == FirstSt(ResourceRow(o.ns, o.pid), "ErrResourceNotFound")
             saved == SaveLoadedSt(ResourceRow(o.ns, o.pid),
                          Given([content |-> o.content, deleted |-> o.deleted,
                                 dateUpdated |-> o.now]))
             untagged == DeleteSt({ResourceTagRow(o.ns, o.pid)}, "nil")
             retagged == CreateSt(ResourceTagRow(o.ns, o.pid), o.content, "DatabaseError")
  <1>1. ASSUME o.kind = "CreateResource"
        PROVE  Program(o) = IF o.content = Plain THEN <<found, made>> ELSE <<found, made, tagged>>
    <2>1. Program(o) = CreateResource(o)
      BY <1>1 DEF Program
    <2>2. CreateResource(o) = <<found>> \o <<made>> \o When(o.content # Plain, <<tagged>>)
      BY Units, Checks, Zenon DEF CreateResource, InsertRow, InsertTags
    <2> HIDE DEF found, made, tagged
    <2>3. CASE o.content = Plain
      <3>1. CreateResource(o) = <<found>> \o <<made>> \o <<>>
        BY <2>2, <2>3 DEF When
      <3>2. <<found>> \o <<made>> \o <<>> = <<found>> \o <<made>>
        OBVIOUS
      <3>3. CreateResource(o) = <<found, made>>
        BY <3>1, <3>2, Joined, Zenon
      <3> QED
        BY <2>1, <2>3, <3>3
    <2>4. CASE o.content # Plain
      <3>1. CreateResource(o) = <<found>> \o <<made>> \o <<tagged>>
        BY <2>2, <2>4 DEF When
      <3>2. CreateResource(o) = <<found, made, tagged>>
        BY <3>1, InARow3, Zenon
      <3> QED
        BY <2>1, <2>4, <3>2
    <2> QED
      BY <2>3, <2>4
  <1>2. ASSUME o.kind = "UpdateResource"
        PROVE  Program(o) =
                   CASE o.content = None -> <<found, first, saved>>
                     [] o.content # None /\ o.content = Plain -> <<found, first, saved, untagged>>
                     [] o.content # None /\ o.content # Plain ->
                            <<found, first, saved, untagged, retagged>>
    <2>1. Program(o) = UpdateResource(o)
      BY <1>2 DEF Program
    <2>2. UpdateResource(o) = <<found>> \o <<first>> \o <<saved>>
              \o When(o.content # None, <<untagged>>)
              \o When(o.content \notin {None, Plain}, <<retagged>>)
      BY Units, Checks, Zenon DEF UpdateResource
    <2> HIDE DEF found, first, saved, untagged, retagged
    <2>3. <<found>> \o <<first>> \o <<saved>> = <<found, first, saved>>
      BY InARow3
    <2>4. CASE o.content = None
      <3>1. UpdateResource(o) = <<found, first, saved>> \o <<>> \o <<>>
        BY <2>2, <2>3, <2>4 DEF When
      <3>2. <<found, first, saved>> \o <<>> = <<found, first, saved>>
        OBVIOUS
      <3> QED
        BY <2>1, <2>4, <3>1, <3>2
    <2>5. CASE o.content # None /\ o.content = Plain
      <3>1. UpdateResource(o) = <<found, first, saved>> \o <<untagged>> \o <<>>
        BY <2>2, <2>3, <2>5 DEF When
      <3>2. <<found, first, saved>> \o <<untagged>> = <<found, first, saved, untagged>>
        BY Joined
      <3>3. <<found, first, saved, untagged>> \o <<>> = <<found, first, saved, untagged>>
        OBVIOUS
      <3> QED
        BY <2>1, <2>5, <3>1, <3>2, <3>3
    <2>6. CASE o.content # None /\ o.content # Plain
      <3>1. UpdateResource(o) = <<found, first, saved>> \o <<untagged>> \o <<retagged>>
        BY <2>2, <2>3, <2>6 DEF When
      <3>2. <<found, first, saved>> \o <<untagged>> = <<found, first, saved, untagged>>
        BY Joined
      <3>3. <<found, first, saved, untagged>> \o <<retagged>>
                = <<found, first, saved, untagged, retagged>>
        BY Joined
      <3> QED
        BY <2>1, <2>6, <3>1, <3>2, <3>3
    <2> QED
      BY <2>4, <2>5, <2>6
  <1> QED
    BY <1>1, <1>2

\* A batch: the check, the rows, and the tags when there are any.
LEMMA BatchSpelled ==
    ASSUME NEW o \in ResourceOps, o.kind = "BatchCreateResources"
    PROVE  LET n == Len(o.pids)
               row(i) == CreateSt(ResourceRow(o.ns, o.pids[i]), NewRow(o.content, o.now),
                                  "ErrPIDAllocationFailed")
               tags(i) == CreateSt(ResourceTagRow(o.ns, o.pids[i]), o.content,
                                   "ErrPIDAllocationFailed")
           IN  /\ n \in Nat /\ n >= 1 /\ DOMAIN o.pids = 1..n /\ \A i \in 1..n : o.pids[i] \in PIDs
               /\ Len(Program(o)) = IF o.content = Plain THEN n + 1 ELSE n + n + 1
               /\ Program(o)[1] = NamespaceFound(o)
               /\ \A i \in 1..n : Program(o)[i + 1] = row(i)
               /\ o.content # Plain => \A i \in 1..n : Program(o)[n + i + 1] = tags(i)
  <1> DEFINE n == Len(o.pids)
             row(i) == CreateSt(ResourceRow(o.ns, o.pids[i]), NewRow(o.content, o.now),
                                "ErrPIDAllocationFailed")
             tag(i) == CreateSt(ResourceTagRow(o.ns, o.pids[i]), o.content,
                                "ErrPIDAllocationFailed")
             a == <<NamespaceFound(o)>>
             b == [i \in DOMAIN o.pids |-> InsertRow(o, o.pids[i])[1]]
             c == [i \in DOMAIN o.pids |-> InsertTags(o, o.pids[i])[1]]
             d == When(o.content # Plain, c)
  <1>0. PICK len \in 1..MaxBatch : o.pids \in [1..len -> PIDs]
    BY ResourceFields
  <1>1. o.pids \in Seq(PIDs) /\ Len(o.pids) = len /\ len \in Nat /\ len >= 1
    BY <1>0, GormAssumption
  <1>2. n \in Nat /\ n >= 1 /\ DOMAIN o.pids = 1..n /\ \A i \in 1..n : o.pids[i] \in PIDs
    BY <1>0, <1>1
  <1>3. Program(o) = a \o b \o d
    BY Checks DEF Program, BatchCreateResources
  <1>4. ASSUME NEW i \in 1..n PROVE b[i] = row(i) /\ (o.content # Plain => c[i] = tag(i))
    BY <1>2, <1>4 DEF InsertRow, InsertTags, When, Create, CreateSt
  <1> DEFINE S == {NamespaceFound(o)} \cup {b[i] : i \in 1..n} \cup {c[i] : i \in 1..n}
  <1>5. a \in Seq(S) /\ Len(a) = 1 /\ a[1] = NamespaceFound(o)
    OBVIOUS
  <1>6. b \in [1..n -> S] /\ c \in [1..n -> S]
    BY <1>2
  <1>7. b \in Seq(S) /\ Len(b) = n /\ c \in Seq(S) /\ Len(c) = n
    BY <1>2, <1>6
  <1>8. d \in Seq(S) /\ Len(d) = (IF o.content = Plain THEN 0 ELSE n)
        /\ (o.content # Plain => d = c)
    BY <1>7 DEF When
  <1> HIDE DEF a, b, c, d, S, n, row, tag
  <1>9. /\ a \o b \in Seq(S) /\ Len(a \o b) = n + 1 /\ (a \o b)[1] = NamespaceFound(o)
        /\ \A i \in 1..n : (a \o b)[i + 1] = b[i]
    <2>1. /\ a \o b \in Seq(S) /\ Len(a \o b) = 1 + n
          /\ \A i \in 1..1 : (a \o b)[i] = a[i]
          /\ \A i \in 1..n : (a \o b)[1 + i] = b[i]
      <3>1. /\ a \o b \in Seq(S) /\ Len(a \o b) = Len(a) + Len(b)
            /\ \A i \in 1..Len(a) : (a \o b)[i] = a[i]
            /\ \A i \in 1..Len(b) : (a \o b)[Len(a) + i] = b[i]
        <4>1. a \in Seq(S) /\ b \in Seq(S)
          BY <1>5, <1>7
        <4> QED
          BY <4>1
      <3> QED
        BY <1>5, <1>7, <3>1
    <2>2. \A i \in 1..n : i + 1 = 1 + i
      BY <1>2
    <2> QED
      BY <1>2, <1>5, <2>1, <2>2
  <1>10. /\ Len(a \o b \o d) = n + 1 + Len(d) /\ (a \o b \o d)[1] = NamespaceFound(o)
         /\ \A i \in 1..(n + 1) : (a \o b \o d)[i] = (a \o b)[i]
         /\ \A i \in 1..Len(d) : (a \o b \o d)[n + 1 + i] = d[i]
    <2>1. /\ Len(a \o b \o d) = n + 1 + Len(d)
          /\ \A i \in 1..(n + 1) : (a \o b \o d)[i] = (a \o b)[i]
          /\ \A i \in 1..Len(d) : (a \o b \o d)[n + 1 + i] = d[i]
      <3>1. /\ Len(a \o b \o d) = Len(a \o b) + Len(d)
            /\ \A i \in 1..Len(a \o b) : (a \o b \o d)[i] = (a \o b)[i]
            /\ \A i \in 1..Len(d) : (a \o b \o d)[Len(a \o b) + i] = d[i]
        <4>1. a \o b \in Seq(S) /\ d \in Seq(S)
          BY <1>8, <1>9
        <4> DEFINE q == a \o b
        <4> HIDE DEF q
        <4>2. q \in Seq(S)
          BY <4>1 DEF q
        <4>3. /\ Len(q \o d) = Len(q) + Len(d)
              /\ \A i \in 1..Len(q) : (q \o d)[i] = q[i]
              /\ \A i \in 1..Len(d) : (q \o d)[Len(q) + i] = d[i]
          BY <4>1, <4>2
        <4> QED
          BY <4>3 DEF q
      <3> QED
        BY <1>9, <3>1, Zenon
    <2>2. 1 \in 1..(n + 1)
      BY <1>2
    <2> QED
      BY <1>9, <2>1, <2>2
  <1>11. \A i \in 1..n : i + 1 \in 1..(n + 1) /\ n + i + 1 = n + 1 + i
    BY <1>2
  <1>12. ASSUME NEW i \in 1..n PROVE Program(o)[i + 1] = row(i)
    <2>1. (a \o b \o d)[i + 1] = (a \o b)[i + 1] /\ (a \o b)[i + 1] = b[i] /\ b[i] = row(i)
      BY <1>4, <1>9, <1>10, <1>11
    <2> QED
      BY <1>3, <2>1
  <1>13. ASSUME o.content # Plain, NEW i \in 1..n PROVE Program(o)[n + i + 1] = tag(i)
    <2>1. d[i] = tag(i) /\ i \in 1..Len(d)
      BY <1>4, <1>8, <1>13
    <2>2. (a \o b \o d)[n + i + 1] = d[i]
      BY <1>10, <1>11, <2>1
    <2> QED
      BY <1>3, <2>1, <2>2
  <1>14. Len(Program(o)) = IF o.content = Plain THEN n + 1 ELSE n + n + 1
    <2>1. Len(Program(o)) = n + 1 + Len(d)
      BY <1>3, <1>10, Zenon
    <2> HIDE DEF n, d
    <2> QED
      BY <1>2, <1>8, <2>1
  <1> QED
    BY <1>2, <1>3, <1>10, <1>12, <1>13, <1>14 DEF n, row, tag

-----------------------------------------------------------------------------
(* The order of statements *)

Reads(st) == st.do \in {"ensure", "first"}
Puts(st) == st.do \in {"create", "save"}

\* The rows a statement may write.
Reaches(st, row) ==
    \/ st.do \in {"create", "save", "save loaded", "update"} /\ row = st.row
    \/ st.do = "delete" /\ (row \in st.rows \/ (OfUser(row) /\ UserRow(row[2]) \in st.rows))

\* Statement a may precede b: an operation reads before it writes, deletes
\* before it inserts, puts a row once unless both are INSERTs, and a DELETE
\* that must find something ends it.
Precedes(a, b) ==
    /\ Reads(b) => Reads(a)
    /\ b.do = "delete" => a.do \notin {"create", "save", "update"}
    /\ Puts(a) /\ Reaches(b, a.row) => b.do = "create"
    /\ a.do = "save loaded" => ~Reaches(b, a.row)
    /\ a.do # "update" /\ (b.do = "update" => Reads(a))
    /\ ~(a.do = "delete" /\ a.err # "nil")

InOrder(p) == \A i, j \in 1..Len(p) : j < i => Precedes(p[j], p[i])

LEMMA Pairs ==
    ASSUME NEW a, NEW b
    PROVE  /\ Reads(a) => Precedes(a, b)
           /\ a.do = "create" /\ b.do = "create" => Precedes(a, b)
           /\ a.do = "delete" /\ a.err = "nil" /\ b.do \in {"delete", "create", "save loaded"} =>
                  Precedes(a, b)
           /\ a.do = "create" /\ b.do = "save loaded" /\ a.row # b.row => Precedes(a, b)
           /\ a.do = "save loaded" /\ b.do = "create" /\ a.row # b.row => Precedes(a, b)
           /\ a.do = "save loaded" /\ b.do = "delete" /\ a.row \notin b.rows /\ ~OfUser(a.row) =>
                  Precedes(a, b)
  BY DEF Precedes, Reads, Puts, Reaches

LEMMA InOrderUpTo3 ==
    ASSUME NEW a, NEW b, NEW c
    PROVE  /\ InOrder(<<a>>)
           /\ Precedes(a, b) => InOrder(<<a, b>>)
           /\ Precedes(a, b) /\ Precedes(a, c) /\ Precedes(b, c) => InOrder(<<a, b, c>>)
  <1>1. InOrder(<<a>>)
    BY DEF InOrder
  <1>2. ASSUME Precedes(a, b) PROVE InOrder(<<a, b>>)
    BY <1>2 DEF InOrder
  <1>3. ASSUME Precedes(a, b), Precedes(a, c), Precedes(b, c) PROVE InOrder(<<a, b, c>>)
    BY <1>3 DEF InOrder
  <1> QED
    BY <1>1, <1>2, <1>3

LEMMA InOrder4 ==
    ASSUME NEW a, NEW b, NEW c, NEW d, Precedes(a, b), Precedes(a, c), Precedes(b, c),
           Precedes(a, d), Precedes(b, d), Precedes(c, d)
    PROVE  InOrder(<<a, b, c, d>>)
  BY DEF InOrder

LEMMA InOrder5 ==
    ASSUME NEW a, NEW b, NEW c, NEW d, NEW e, Precedes(a, b), Precedes(a, c), Precedes(b, c),
           Precedes(a, d), Precedes(b, d), Precedes(c, d),
           Precedes(a, e), Precedes(b, e), Precedes(c, e), Precedes(d, e)
    PROVE  InOrder(<<a, b, c, d, e>>)
  BY DEF InOrder

LEMMA InOrder6 ==
    ASSUME NEW a, NEW b, NEW c, NEW d, NEW e, NEW f,
           Precedes(a, b), Precedes(a, c), Precedes(b, c),
           Precedes(a, d), Precedes(b, d), Precedes(c, d),
           Precedes(a, e), Precedes(b, e), Precedes(c, e), Precedes(d, e),
           Precedes(a, f), Precedes(b, f), Precedes(c, f), Precedes(d, f), Precedes(e, f)
    PROVE  InOrder(<<a, b, c, d, e, f>>)
  BY DEF InOrder

\* The operations that write with one statement at most, their last.
SingleKinds ==
    {"CreateUser", "UpdateUser", "SetMountGrant", "DeleteMountGrant", "SetPassword",
     "CreateKey", "RevokeKey", "SetNamespaceRole", "DeleteNamespaceRole", "SetMount",
     "DeleteMount"}

LEMMA Singles ==
    ASSUME NEW o, o.kind \in SingleKinds
    PROVE  \E a, b, c : \/ Program(o) = <<a>> \/ (Program(o) = <<a, b>> /\ Reads(a))
                        \/ Program(o) = <<a, b, c>> /\ Reads(a) /\ Reads(b)
  <1> DEFINE Q == \E a, b, c : \/ Program(o) = <<a>> \/ (Program(o) = <<a, b>> /\ Reads(a))
                               \/ Program(o) = <<a, b, c>> /\ Reads(a) /\ Reads(b)
  <1>0. /\ Reads(UserFound(o)) /\ Reads(NamespaceFound(o))
        /\ \A row, err : Reads(FirstSt(row, err)) /\ Reads(EnsureSt(row, err))
    BY DEF Reads, UserFound, NamespaceFound, FirstSt, EnsureSt
  <1>1. ASSUME NEW a, Program(o) = <<a>> PROVE Q
    BY <1>1
  <1>2. ASSUME NEW a, NEW b, Program(o) = <<a, b>>, Reads(a) PROVE Q
    BY <1>2
  <1>3. ASSUME NEW a, NEW b, NEW c, Program(o) = <<a, b, c>>, Reads(a), Reads(b) PROVE Q
    BY <1>3
  <1> SUFFICES Q
    OBVIOUS
  <1> HIDE DEF Q
  <1>4. CASE o.kind = "CreateUser"
    <2>1. Program(o) = <<CreateSt(UserRow(o.user), [superuser |-> o.superuser],
                                  "ErrDuplicateUsername")>>
      BY <1>4, AccountSpelled
    <2> QED
      BY <1>1, <2>1, Zenon
  <1>5. CASE o.kind = "UpdateUser"
    <2> DEFINE a == FirstSt(UserRow(o.user), "ErrUserNotFound")
               b == UpdateSt(UserRow(o.user), [superuser |-> o.superuser])
    <2>1. Program(o) = <<a>> \/ Program(o) = <<a, b>>
      BY <1>5, AccountSpelled
    <2>2. Reads(a)
      BY <1>0
    <2> HIDE DEF a, b
    <2> QED
      BY <1>1, <1>2, <2>1, <2>2
  <1>6. CASE o.kind \in {"SetMountGrant", "DeleteMountGrant", "SetPassword", "CreateKey"}
    <2>1. PICK b : Program(o) = <<UserFound(o), b>>
      <3>1. CASE o.kind = "SetPassword"
        BY <3>1, AccountSpelled
      <3>2. CASE o.kind = "CreateKey"
        BY <3>2, AccountSpelled
      <3>3. CASE o.kind = "SetMountGrant"
        BY <3>3, AccountSpelled
      <3>4. CASE o.kind = "DeleteMountGrant"
        BY <3>4, AccountSpelled
      <3> QED
        BY <1>6, <3>1, <3>2, <3>3, <3>4
    <2> QED
      BY <1>0, <1>2, <2>1
  <1>7. CASE o.kind = "RevokeKey"
    <2> DEFINE b == EnsureSt(KeyRow(o.user, o.key), "ErrKeyNotFound")
               c == DeleteSt({KeyRow(o.user, o.key)}, "nil")
    <2>1. Program(o) = <<UserFound(o), b, c>>
      BY <1>7, AccountSpelled
    <2>2. Reads(b)
      BY <1>0
    <2> HIDE DEF b, c
    <2> QED
      BY <1>0, <1>3, <2>1, <2>2
  <1>8. CASE o.kind \in {"SetNamespaceRole", "SetMount"}
    <2>1. PICK b : Program(o) = <<NamespaceFound(o), b>>
      BY <1>8, NamespaceSpelled
    <2> QED
      BY <1>0, <1>2, <2>1
  <1>9. CASE o.kind \in {"DeleteNamespaceRole", "DeleteMount"}
    <2>1. PICK a : Program(o) = <<a>>
      BY <1>9, NamespaceSpelled
    <2> QED
      BY <1>1, <2>1
  <1> QED
    BY <1>4, <1>5, <1>6, <1>7, <1>8, <1>9 DEF SingleKinds

LEMMA SingleOrder ==
    ASSUME NEW o, o.kind \in SingleKinds
    PROVE  InOrder(Program(o))
  <1>1. PICK a, b, c : \/ Program(o) = <<a>> \/ (Program(o) = <<a, b>> /\ Reads(a))
                       \/ Program(o) = <<a, b, c>> /\ Reads(a) /\ Reads(b)
    BY Singles
  <1> QED
    BY <1>1, Pairs, InOrderUpTo3

LEMMA AccountOrder ==
    ASSUME NEW o, o.kind \in AccountKinds
    PROVE  InOrder(Program(o))
  <1>1. CASE o.kind = "DeleteUser"
    <2> DEFINE a == UserFound(o)
               b == DeleteSt(RolesOf(o.user), "nil")
               c == DeleteSt(GrantsOf(o.user), "nil")
               d == DeleteSt({PasswordRow(o.user)}, "nil")
               e == DeleteSt(KeysOf(o.user), "nil")
               f == DeleteSt({UserRow(o.user)}, "nil")
    <2>1. Program(o) = <<a, b, c, d, e, f>>
      BY <1>1, AccountSpelled
    <2>2. /\ Reads(a) /\ b.do = "delete" /\ c.do = "delete" /\ d.do = "delete" /\ e.do = "delete"
          /\ f.do = "delete" /\ b.err = "nil" /\ c.err = "nil" /\ d.err = "nil" /\ e.err = "nil"
      BY DEF Reads, EnsureSt, FirstSt, CreateSt, SaveSt, SaveLoadedSt, UpdateSt, DeleteSt,
         UserFound, NamespaceFound
    <2> HIDE DEF a, b, c, d, e, f
    <2>3. /\ Precedes(a, b) /\ Precedes(a, c) /\ Precedes(b, c)
          /\ Precedes(a, d) /\ Precedes(b, d) /\ Precedes(c, d)
          /\ Precedes(a, e) /\ Precedes(b, e) /\ Precedes(c, e) /\ Precedes(d, e)
          /\ Precedes(a, f) /\ Precedes(b, f) /\ Precedes(c, f) /\ Precedes(d, f) /\ Precedes(e, f)
      BY <2>2, Pairs
    <2> QED
      BY <2>1, <2>3, InOrder6
  <1> QED
    BY <1>1, SingleOrder DEF AccountKinds, SingleKinds

LEMMA NamespaceOrder ==
    ASSUME NEW o, o.kind \in NamespaceKinds
    PROVE  InOrder(Program(o))
  <1> DEFINE made == CreateSt(NamespaceRow(o.ns),
                              [pidFormat |-> o.format, dateCreated |-> o.now,
                               dateUpdated |-> o.now], "ErrDuplicateNamespaceID")
             tagged == CreateSt(NamespaceTagRow(o.ns), o.tags, "ErrDuplicateNamespaceID")
             found == EnsureSt(UserRow(o.owner), "ErrUserNotFound")
             owned == CreateSt(RoleRow(o.ns, o.owner), "manager", "DatabaseError")
             first == FirstSt(NamespaceRow(o.ns), "ErrNamespaceNotFound")
             untagged == DeleteSt({NamespaceTagRow(o.ns)}, "nil")
             retagged == CreateSt(NamespaceTagRow(o.ns), o.tags, "DatabaseError")
             saved == SaveLoadedSt(NamespaceRow(o.ns), [dateUpdated |-> o.now])
  <1>1. CASE o.kind = "CreateNamespace"
    <2>1. \/ Program(o) = <<made>> \/ Program(o) = <<made, tagged>>
          \/ Program(o) = <<found, made, owned>> \/ Program(o) = <<found, made, tagged, owned>>
      BY <1>1, NamespaceSpelled
    <2>2. made.do = "create" /\ tagged.do = "create" /\ owned.do = "create" /\ Reads(found)
      BY DEF Reads, EnsureSt, FirstSt, CreateSt, SaveSt, SaveLoadedSt, UpdateSt, DeleteSt,
         UserFound, NamespaceFound
    <2> HIDE DEF made, tagged, found, owned
    <2>3. /\ Precedes(made, tagged) /\ Precedes(made, owned) /\ Precedes(tagged, owned)
          /\ Precedes(found, made) /\ Precedes(found, tagged) /\ Precedes(found, owned)
      BY <2>2, Pairs
    <2> QED
      BY <2>1, <2>3, InOrderUpTo3, InOrder4
  <1>2. CASE o.kind = "UpdateNamespace"
    <2>1. \/ Program(o) = <<first, saved>> \/ Program(o) = <<first, untagged, saved>>
          \/ Program(o) = <<first, untagged, retagged, saved>>
      BY <1>2, NamespaceSpelled
    <2>2. /\ Reads(first) /\ saved.do = "save loaded" /\ untagged.do = "delete"
          /\ untagged.err = "nil" /\ retagged.do = "create"
          /\ retagged.row = NamespaceTagRow(o.ns) /\ saved.row = NamespaceRow(o.ns)
      BY DEF Reads, EnsureSt, FirstSt, CreateSt, SaveSt, SaveLoadedSt, UpdateSt, DeleteSt,
         UserFound, NamespaceFound
    <2>3. NamespaceTagRow(o.ns) # NamespaceRow(o.ns)
      BY DEF NamespaceTagRow, NamespaceRow
    <2> HIDE DEF first, saved, untagged, retagged
    <2>4. /\ Precedes(first, saved) /\ Precedes(first, untagged) /\ Precedes(first, retagged)
          /\ Precedes(untagged, saved) /\ Precedes(untagged, retagged)
          /\ Precedes(retagged, saved)
      BY <2>2, <2>3, Pairs
    <2> QED
      BY <2>1, <2>4, InOrderUpTo3, InOrder4
  <1> QED
    BY <1>1, <1>2, SingleOrder DEF NamespaceKinds, SingleKinds

\* A batch: reads first, and then INSERTs.
LEMMA BatchStatements ==
    ASSUME NEW o \in ResourceOps, o.kind = "BatchCreateResources", NEW i \in 1..Len(Program(o))
    PROVE  LET n == Len(o.pids)
           IN  \/ i = 1 /\ Program(o)[i] = NamespaceFound(o)
               \/ /\ i - 1 \in 1..n /\ o.pids[i - 1] \in PIDs
                  /\ Program(o)[i] = CreateSt(ResourceRow(o.ns, o.pids[i - 1]),
                                              NewRow(o.content, o.now), "ErrPIDAllocationFailed")
               \/ /\ o.content # Plain /\ i - 1 - n \in 1..n /\ o.pids[i - 1 - n] \in PIDs
                  /\ Program(o)[i] = CreateSt(ResourceTagRow(o.ns, o.pids[i - 1 - n]), o.content,
                                              "ErrPIDAllocationFailed")
  <1> DEFINE n == Len(o.pids)
  <1>1. /\ n \in Nat /\ n >= 1 /\ \A k \in 1..n : o.pids[k] \in PIDs
        /\ Len(Program(o)) = IF o.content = Plain THEN n + 1 ELSE n + n + 1
    BY BatchSpelled
  <1>2. CASE i = 1
    BY <1>2, BatchSpelled
  <1>3. CASE i - 1 \in 1..n
    <2>1. i = (i - 1) + 1
      BY <1>1
    <2> QED
      BY <1>1, <1>3, <2>1, BatchSpelled
  <1>4. CASE i # 1 /\ i - 1 \notin 1..n
    <2>1. o.content # Plain /\ i - 1 - n \in 1..n
      BY <1>1, <1>4
    <2>2. i = n + (i - 1 - n) + 1
      BY <1>1
    <2> DEFINE k == i - 1 - n
    <2> HIDE DEF k
    <2>3. Program(o)[n + k + 1] = CreateSt(ResourceTagRow(o.ns, o.pids[k]), o.content,
                                           "ErrPIDAllocationFailed")
      BY <2>1, BatchSpelled DEF k
    <2> QED
      BY <1>1, <2>1, <2>2, <2>3 DEF k
  <1> QED
    BY <1>2, <1>3, <1>4

LEMMA ResourceOrder ==
    ASSUME NEW o \in ResourceOps
    PROVE  InOrder(Program(o))
  <1> DEFINE found == NamespaceFound(o)
             made == CreateSt(ResourceRow(o.ns, o.pid), NewRow(o.content, o.now),
                              "ErrPIDAllocationFailed")
             tagged == CreateSt(ResourceTagRow(o.ns, o.pid), o.content, "ErrPIDAllocationFailed")
             first == FirstSt(ResourceRow(o.ns, o.pid), "ErrResourceNotFound")
             saved == SaveLoadedSt(ResourceRow(o.ns, o.pid),
                          Given([content |-> o.content, deleted |-> o.deleted,
                                 dateUpdated |-> o.now]))
             untagged == DeleteSt({ResourceTagRow(o.ns, o.pid)}, "nil")
             retagged == CreateSt(ResourceTagRow(o.ns, o.pid), o.content, "DatabaseError")
  <1>0. o.kind \in ResourceKinds
    BY ResourceFields
  <1>1. CASE o.kind = "CreateResource"
    <2>1. Program(o) = <<found, made>> \/ Program(o) = <<found, made, tagged>>
      BY <1>1, ResourceSpelled
    <2>2. Reads(found) /\ made.do = "create" /\ tagged.do = "create"
      BY DEF Reads, EnsureSt, FirstSt, CreateSt, SaveSt, SaveLoadedSt, UpdateSt, DeleteSt,
         UserFound, NamespaceFound
    <2> HIDE DEF found, made, tagged
    <2>3. Precedes(found, made) /\ Precedes(found, tagged) /\ Precedes(made, tagged)
      BY <2>2, Pairs
    <2> QED
      BY <2>1, <2>3, InOrderUpTo3
  <1>2. CASE o.kind = "UpdateResource"
    <2>1. \/ Program(o) = <<found, first, saved>> \/ Program(o) = <<found, first, saved, untagged>>
          \/ Program(o) = <<found, first, saved, untagged, retagged>>
      BY <1>2, ResourceSpelled
    <2>2. /\ Reads(found) /\ Reads(first) /\ saved.do = "save loaded" /\ untagged.do = "delete"
          /\ untagged.err = "nil" /\ retagged.do = "create"
          /\ retagged.row = ResourceTagRow(o.ns, o.pid) /\ saved.row = ResourceRow(o.ns, o.pid)
          /\ untagged.rows = {ResourceTagRow(o.ns, o.pid)}
      BY DEF Reads, EnsureSt, FirstSt, CreateSt, SaveSt, SaveLoadedSt, UpdateSt, DeleteSt,
         UserFound, NamespaceFound
    <2>3. /\ ResourceTagRow(o.ns, o.pid) # ResourceRow(o.ns, o.pid)
          /\ ~OfUser(ResourceRow(o.ns, o.pid))
      BY DEF ResourceTagRow, ResourceRow, OfUser
    <2> HIDE DEF found, first, saved, untagged, retagged
    <2>4. /\ Precedes(found, first) /\ Precedes(found, saved) /\ Precedes(found, untagged)
          /\ Precedes(found, retagged)
          /\ Precedes(first, saved) /\ Precedes(first, untagged) /\ Precedes(first, retagged)
      BY <2>2, Pairs
    <2>5. Precedes(saved, untagged) /\ Precedes(saved, retagged) /\ Precedes(untagged, retagged)
      BY <2>2, <2>3, Pairs
    <2> QED
      BY <2>1, <2>4, <2>5, InOrderUpTo3, InOrder4, InOrder5
  <1>3. CASE o.kind = "BatchCreateResources"
    <2> SUFFICES ASSUME NEW i \in 1..Len(Program(o)), NEW j \in 1..Len(Program(o)), j < i
                 PROVE  Precedes(Program(o)[j], Program(o)[i])
      BY DEF InOrder
    <2>1. Reads(Program(o)[j]) \/ Program(o)[j].do = "create"
      <3>1. \A row, v, err : CreateSt(row, v, err).do = "create" /\ Reads(NamespaceFound(o))
        BY DEF CreateSt, NamespaceFound, EnsureSt, Reads
      <3> QED
        BY <1>3, <3>1, BatchStatements
    <2>2. i # 1
      BY BatchSpelled, <1>3
    <2>3. Program(o)[i].do = "create"
      <3>1. \A row, v, err : CreateSt(row, v, err).do = "create"
        BY DEF CreateSt
      <3> QED
        BY <1>3, <2>2, <3>1, BatchStatements
    <2> QED
      BY <2>1, <2>3, Pairs
  <1> QED
    BY <1>0, <1>1, <1>2, <1>3 DEF ResourceKinds

\* Every operation executes its statements in such an order.
LEMMA ProgramsInOrder ==
    ASSUME NEW o \in Operations
    PROVE  InOrder(Program(o))
  BY AccountOrder, NamespaceOrder, ResourceOrder, AccountFields, NamespaceFields DEF Operations

-----------------------------------------------------------------------------
(* What a transaction has done *)

\* The statements that t has executed.
Prog(t) == Program(op[t])
Past(t) == 1..(at[t] - 1)

\* What t has written to a row, it has written with statements of this kind.
OnlyBy(t, row, do) ==
    \A j \in Past(t) : Reaches(Prog(t)[j], row) => Prog(t)[j].do = do

\* What an executed statement has put is there.
Done(t, st) ==
    /\ Puts(st) => st.row \in DOMAIN pending[t] /\ pending[t][st.row].to = st.value
    /\ st.do = "save loaded" => st.row \in DOMAIN pending[t]
    /\ st.do = "delete" /\ st.err # "nil" =>
           \E row \in st.rows : row \in DOMAIN pending[t] /\ pending[t][row].to = None

\* Every row that is written or locked was reached by a statement.
Reached(t) ==
    /\ \A row \in DOMAIN pending[t] : \E j \in Past(t) : Reaches(Prog(t)[j], row)
    /\ \A row \in shared[t] :
           \E j \in Past(t) : /\ Puts(Prog(t)[j])
                              /\ row \in Parents(Prog(t)[j].row, Prog(t)[j].value)
    /\ \A j \in Past(t) : Done(t, Prog(t)[j])

\* A row that t has created was not there and is not, as nobody else can
\* write it; one that it has deleted is; and it has created none twice.
Fresh(t) ==
    /\ \A row \in DOMAIN pending[t] :
           /\ OnlyBy(t, row, "create") => db[row] = None
           /\ OnlyBy(t, row, "delete") => pending[t][row].to = None
           /\ pending[t][row].to = None => db[row] # None
    /\ \A i, j \in Past(t) :
           j < i /\ Prog(t)[i].do = "create" /\ Puts(Prog(t)[j]) =>
               Prog(t)[i].row # Prog(t)[j].row

\* Only a DELETE that waits has found rows.
Scanning(t) ==
    scan[t] # None =>
        /\ Open(t) /\ ~AtEnd(t) /\ Statement(t).do = "delete"
        /\ scan[t] \subseteq Statement(t).rows

Traced(t) == Reached(t) /\ Fresh(t) /\ Scanning(t)

AllTraced == \A t \in Sessions : Traced(t)

LEMMA TraceElsewhere ==
    ASSUME NEW t \in Sessions, Traced(t), op'[t] = op[t], at'[t] = at[t],
           pending'[t] = pending[t], shared'[t] = shared[t],
           \/ scan'[t] = None \/ scan'[t] = scan[t]
           \/ (scan[t] # None /\ scan'[t] \subseteq scan[t]),
           \A row \in DOMAIN pending[t] : db'[row] = db[row]
    PROVE  Traced(t)'
  <1>1. Prog(t)' = Prog(t) /\ Past(t)' = Past(t)
    BY DEF Prog, Past
  <1>2. Reached(t)'
    <2>1. \A row \in DOMAIN pending'[t] : \E j \in Past(t)' : Reaches(Prog(t)'[j], row)
      BY <1>1 DEF Traced, Reached
    <2>2. \A row \in shared'[t] :
              \E j \in Past(t)' : /\ Puts(Prog(t)'[j])
                                  /\ row \in Parents(Prog(t)'[j].row, Prog(t)'[j].value)
      BY <1>1 DEF Traced, Reached
    <2>3. \A j \in Past(t)' : Done(t, Prog(t)[j])'
      <3>1. \A st : Done(t, st) => Done(t, st)'
        BY DEF Done
      <3> QED
        BY <1>1, <3>1 DEF Traced, Reached
    <2> QED
      BY <2>1, <2>2, <2>3 DEF Reached
  <1>3. \A row, do : OnlyBy(t, row, do)' <=> OnlyBy(t, row, do)
    BY <1>1 DEF OnlyBy
  <1>4. Fresh(t)'
    <2> USE <1>1, <1>3 DEF Traced, Fresh
    <2>1. ASSUME NEW row \in DOMAIN pending[t]
          PROVE  /\ OnlyBy(t, row, "create")' => db'[row] = None
                 /\ OnlyBy(t, row, "delete")' => pending'[t][row].to = None
                 /\ pending'[t][row].to = None => db'[row] # None
      OBVIOUS
    <2>2. \A i, j \in Past(t)' :
              j < i /\ Prog(t)'[i].do = "create" /\ Puts(Prog(t)'[j]) =>
                  Prog(t)'[i].row # Prog(t)'[j].row
      OBVIOUS
    <2> QED
      BY <2>1, <2>2
  <1>5. Scanning(t)'
    <2>1. Statement(t)' = Statement(t) /\ (Open(t)' <=> Open(t)) /\ (AtEnd(t)' <=> AtEnd(t))
      BY DEF Statement, Open, AtEnd
    <2> QED
      BY <2>1 DEF Traced, Scanning
  <1> QED
    BY <1>2, <1>4, <1>5 DEF Traced

LEMMA TraceAtStart ==
    ASSUME NEW t \in Sessions, at'[t] = 1, DOMAIN pending'[t] = {}, shared'[t] = {},
           scan'[t] = None
    PROVE  Traced(t)'
  <1>1. Past(t)' = {}
    BY DEF Past
  <1> QED
    BY <1>1 DEF Traced, Reached, Fresh, Scanning

\* The statement that is executed joins the past.
LEMMA PastGrows ==
    ASSUME GormInv, NEW t \in Sessions, Open(t), ~AtEnd(t), op'[t] = op[t], at'[t] = at[t] + 1
    PROVE  /\ Prog(t)' = Prog(t) /\ Prog(t)[at[t]] = Statement(t)
           /\ at[t] \in Nat /\ at[t] \in 1..Len(Prog(t))
           /\ Past(t) \subseteq Nat /\ Past(t) \subseteq 1..Len(Prog(t))
           /\ \A j \in Past(t) : j < at[t]
           /\ Past(t)' = Past(t) \cup {at[t]}
           /\ \A j \in Past(t) : Precedes(Prog(t)[j], Statement(t))
           /\ \A j \in Past(t) : StatementOK(op[t], Prog(t)[j])
  <1>1. op[t] \in Operations /\ at[t] \in 1..Len(Program(op[t])) /\ Len(Program(op[t])) \in Nat
    BY AtStatement
  <1>2. Past(t) \subseteq 1..Len(Prog(t)) /\ \A j \in Past(t) : j < at[t]
    BY <1>1 DEF Past, Prog
  <1>3. Past(t)' = Past(t) \cup {at[t]}
    BY <1>1 DEF Past
  <1>4. InOrder(Program(op[t]))
    BY <1>1, ProgramsInOrder
  <1>5. \A j \in Past(t) : Precedes(Prog(t)[j], Statement(t))
    BY <1>1, <1>2, <1>4 DEF InOrder, Prog, Statement
  <1>6. \A j \in Past(t) : StatementOK(op[t], Prog(t)[j])
    BY <1>1, <1>2, Programs DEF Prog
  <1> QED
    BY <1>1, <1>2, <1>3, <1>5, <1>6 DEF Prog, Statement

LEMMA TraceRead ==
    ASSUME GormInv, NEW t \in Sessions, Traced(t), Open(t), ~AtEnd(t),
           Statement(t).do \in {"ensure", "first", "update"},
           db' = db, op'[t] = op[t], at'[t] = at[t] + 1, pending'[t] = pending[t],
           shared'[t] = shared[t], scan'[t] = scan[t]
    PROVE  Traced(t)'
  <1> USE PastGrows
  <1>1. Reached(t)'
    <2>1. \A row \in DOMAIN pending'[t] : \E j \in Past(t)' : Reaches(Prog(t)'[j], row)
      BY DEF Traced, Reached
    <2>2. \A row \in shared'[t] :
              \E j \in Past(t)' : /\ Puts(Prog(t)'[j])
                                  /\ row \in Parents(Prog(t)'[j].row, Prog(t)'[j].value)
      BY DEF Traced, Reached
    <2>3. \A j \in Past(t)' : Done(t, Prog(t)[j])'
      <3>1. \A st : Done(t, st) => Done(t, st)'
        BY DEF Done
      <3>2. Done(t, Statement(t))
        BY DEF Done, Puts
      <3> QED
        BY <3>1, <3>2 DEF Traced, Reached
    <2> HIDE PastGrows
    <2> QED
      BY <2>1, <2>2, <2>3 DEF Reached
  <1>2. \A row, do : OnlyBy(t, row, do)' => OnlyBy(t, row, do)
    BY DEF OnlyBy
  <1>3. Fresh(t)'
    <2>1. ASSUME NEW row \in DOMAIN pending[t]
          PROVE  /\ OnlyBy(t, row, "create")' => db'[row] = None
                 /\ OnlyBy(t, row, "delete")' => pending'[t][row].to = None
                 /\ pending'[t][row].to = None => db'[row] # None
      BY <1>2 DEF Traced, Fresh
    <2>2. ASSUME NEW i \in Past(t)', NEW j \in Past(t)', j < i, Prog(t)[i].do = "create",
                 Puts(Prog(t)[j])
          PROVE  Prog(t)[i].row # Prog(t)[j].row
      <3>1. i \in Past(t) /\ j \in Past(t)
        BY <2>2
      <3> QED
        BY <2>2, <3>1 DEF Traced, Fresh
    <2>3. \A i, j \in Past(t)' :
              j < i /\ Prog(t)'[i].do = "create" /\ Puts(Prog(t)'[j]) =>
                  Prog(t)'[i].row # Prog(t)'[j].row
      BY <2>2
    <2> HIDE PastGrows
    <2> QED
      BY <2>1, <2>3 DEF Fresh
  <1>4. Scanning(t)'
    BY DEF Traced, Scanning
  <1> QED
    BY <1>1, <1>3, <1>4 DEF Traced

\* What a statement that writes does: it writes the rows of ch and locks those
\* of more against deletion.
Effect(t, st, ch, more) ==
    /\ \A row \in DOMAIN ch : Reaches(st, row)
    /\ more # {} => Puts(st) /\ more \subseteq Parents(st.row, st.value)
    /\ Puts(st) => DOMAIN ch = {st.row} /\ ch[st.row].to = st.value
    /\ st.do = "save loaded" => st.row \in DOMAIN ch /\ ch[st.row].to # None
    /\ st.do = "update" => View(t, st.row) # None
    /\ st.do = "create" => View(t, st.row) = None
    /\ st.do = "delete" =>
           /\ \A row \in DOMAIN ch : ch[row].to = None /\ View(t, row) # None
           /\ st.err # "nil" => \E row \in st.rows : row \in DOMAIN ch

\* A statement writes no row that an earlier one has put.
LEMMA PutOnce ==
    ASSUME GormInv, NEW t \in Sessions, Traced(t), Open(t), ~AtEnd(t),
           op'[t] = op[t], at'[t] = at[t] + 1, NEW ch, NEW more,
           Effect(t, Statement(t), ch, more), NEW j \in Past(t), Puts(Prog(t)[j])
    PROVE  ~Reaches(Statement(t), Prog(t)[j].row)
  <1> DEFINE st == Statement(t)
             row == Prog(t)[j].row
  <1> SUFFICES ASSUME Reaches(st, row) PROVE FALSE
    OBVIOUS
  <1>1. Precedes(Prog(t)[j], st) /\ StatementOK(op[t], Prog(t)[j])
    BY PastGrows
  <1>2. st.do = "create" /\ st.row = row
    BY <1>1 DEF Precedes, Reaches
  <1>3. row \in DOMAIN pending[t] /\ pending[t][row].to = Prog(t)[j].value
    BY DEF Traced, Reached, Done
  <1>4. Prog(t)[j].value # None
    BY <1>1 DEF StatementOK, Puts
  <1> QED
    BY <1>2, <1>3, <1>4 DEF Effect, View

LEMMA TraceWrite ==
    ASSUME GormInv, NEW t \in Sessions, Traced(t), Open(t), ~AtEnd(t),
           NEW st, st = Statement(t), NEW ch, NEW more, Effect(t, st, ch, more), ~Reads(st),
           db' = db, op'[t] = op[t], at'[t] = at[t] + 1, pending'[t] = Merged(t, ch),
           shared'[t] = shared[t] \cup more,
           scan'[t] = scan[t] \/ scan'[t] = None, st.do = "delete" => scan'[t] = None
    PROVE  Traced(t)'
  <1>0. /\ DOMAIN pending'[t] = DOMAIN ch \cup DOMAIN pending[t]
        /\ \A row \in DOMAIN ch : pending'[t][row] = ch[row]
        /\ \A row \in DOMAIN pending[t] : row \notin DOMAIN ch => pending'[t][row] = pending[t][row]
    BY DEF Merged
  <1>1. /\ Prog(t)' = Prog(t) /\ Prog(t)[at[t]] = st /\ at[t] \in Nat /\ Past(t) \subseteq Nat
        /\ \A j \in Past(t) : j < at[t]
        /\ Past(t)' = Past(t) \cup {at[t]}
        /\ \A j \in Past(t) : Precedes(Prog(t)[j], st)
        /\ \A j \in Past(t) : StatementOK(op[t], Prog(t)[j])
        /\ StatementOK(op[t], st)
    BY PastGrows, AtStatement
  <1>2. \A j \in Past(t) : Puts(Prog(t)[j]) => ~Reaches(st, Prog(t)[j].row)
    BY PutOnce
  <1>4. Reached(t)'
    <2>1. \A row \in DOMAIN pending'[t] : \E j \in Past(t)' : Reaches(Prog(t)'[j], row)
      <3> TAKE row \in DOMAIN pending'[t]
      <3>1. CASE row \in DOMAIN ch
        BY <1>1, <3>1 DEF Effect
      <3>2. CASE row \notin DOMAIN ch
        <4>1. row \in DOMAIN pending[t]
          BY <1>0, <3>2
        <4> QED
          BY <1>1, <4>1 DEF Traced, Reached
      <3> QED
        BY <3>1, <3>2
    <2>2. \A row \in shared'[t] :
              \E j \in Past(t)' : /\ Puts(Prog(t)'[j])
                                  /\ row \in Parents(Prog(t)'[j].row, Prog(t)'[j].value)
      <3> TAKE row \in shared'[t]
      <3>1. CASE row \in more
        BY <1>1, <3>1 DEF Effect
      <3>2. CASE row \in shared[t]
        BY <1>1, <3>2 DEF Traced, Reached
      <3> QED
        BY <3>1, <3>2
    <2>3. Done(t, st)'
      <3>1. Puts(st) => st.row \in DOMAIN pending'[t] /\ pending'[t][st.row].to = st.value
        BY <1>0 DEF Effect
      <3>2. st.do = "save loaded" => st.row \in DOMAIN pending'[t]
        BY <1>0 DEF Effect
      <3>3. st.do = "delete" /\ st.err # "nil" =>
                \E row \in st.rows : row \in DOMAIN pending'[t] /\ pending'[t][row].to = None
        BY <1>0 DEF Effect
      <3> QED
        BY <3>1, <3>2, <3>3 DEF Done
    <2>4. ASSUME NEW j \in Past(t) PROVE Done(t, Prog(t)[j])'
      <3> DEFINE a == Prog(t)[j]
      <3>1. Done(t, a) /\ Precedes(a, st) /\ (Puts(a) => ~Reaches(st, a.row))
        BY <1>1, <1>2 DEF Traced, Reached
      <3> HIDE DEF a
      <3>2. Puts(a) => a.row \in DOMAIN pending'[t] /\ pending'[t][a.row].to = a.value
        BY <1>0, <3>1 DEF Done, Effect
      <3>3. a.do = "save loaded" => a.row \in DOMAIN pending'[t]
        BY <1>0, <3>1 DEF Done
      <3>4. ~(a.do = "delete" /\ a.err # "nil")
        BY <3>1 DEF Precedes
      <3>5. \A b : (Puts(b) => b.row \in DOMAIN pending'[t] /\ pending'[t][b.row].to = b.value)
                   /\ (b.do = "save loaded" => b.row \in DOMAIN pending'[t])
                   /\ ~(b.do = "delete" /\ b.err # "nil") => Done(t, b)'
        BY DEF Done
      <3> QED
        BY <1>1, <3>2, <3>3, <3>4, <3>5 DEF a
    <2>5. \A j \in Past(t)' : Done(t, Prog(t)[j])'
      <3>1. \A b : b = st => Done(t, b)'
        BY <2>3
      <3> QED
        BY <1>1, <3>1, <2>4
    <2> QED
      BY <2>1, <2>2, <2>5 DEF Reached
  <1>5. ASSUME NEW row \in DOMAIN pending'[t]
        PROVE  /\ OnlyBy(t, row, "create")' => db'[row] = None
               /\ OnlyBy(t, row, "delete")' => pending'[t][row].to = None
               /\ pending'[t][row].to = None => db'[row] # None
    <2>1. \A do : OnlyBy(t, row, do)' => OnlyBy(t, row, do) /\ (Reaches(st, row) => st.do = do)
      BY <1>1 DEF OnlyBy
    <2>2. CASE row \notin DOMAIN ch
      BY <1>0, <2>1, <2>2 DEF Traced, Fresh
    <2>3. CASE row \in DOMAIN ch
      <3>1. Reaches(st, row) /\ pending'[t][row] = ch[row]
        BY <1>0, <2>3 DEF Effect
      <3>2. ASSUME OnlyBy(t, row, "create")' PROVE db[row] = None
        <4>1. st.do = "create" /\ row = st.row /\ View(t, row) = None
          <5>1. st.do = "create"
            BY <2>1, <3>1, <3>2
          <5>2. row = st.row
            BY <3>1, <5>1 DEF Reaches
          <5> QED
            BY <5>1, <5>2 DEF Effect
        <4>2. row \notin DOMAIN pending[t]
          <5> SUFFICES ASSUME row \in DOMAIN pending[t] PROVE FALSE
            OBVIOUS
          <5>1. PICK j \in Past(t) : Reaches(Prog(t)[j], row)
            BY DEF Traced, Reached
          <5>2. Prog(t)[j].do = "create"
            BY <2>1, <3>2, <5>1 DEF OnlyBy
          <5> QED
            BY <1>2, <3>1, <5>1, <5>2 DEF Reaches, Puts
        <4> QED
          BY <4>1, <4>2 DEF View
      <3>3. ASSUME OnlyBy(t, row, "delete")' PROVE ch[row].to = None
        BY <2>1, <2>3, <3>1, <3>3 DEF Effect
      <3>4. ASSUME ch[row].to = None PROVE db[row] # None
        <4>1. CASE st.do = "update"
          <5>1. row = st.row /\ View(t, row) # None
            BY <3>1, <4>1 DEF Reaches, Effect
          <5>2. \A j \in Past(t) : ~Reaches(Prog(t)[j], row)
            BY <1>1, <4>1 DEF Precedes, Reads, Reaches
          <5> QED
            BY <5>1, <5>2 DEF View, Traced, Reached
        <4>2. CASE st.do = "delete"
          <5>1. View(t, row) # None
            BY <2>3, <4>2 DEF Effect
          <5>2. OnlyBy(t, row, "delete")
            <6> SUFFICES ASSUME NEW j \in Past(t), Reaches(Prog(t)[j], row)
                         PROVE  Prog(t)[j].do = "delete"
              BY DEF OnlyBy
            <6>1. Precedes(Prog(t)[j], st)
              BY <1>1
            <6> QED
              BY <3>1, <4>2, <6>1 DEF Precedes, Reaches
          <5> QED
            BY <5>1, <5>2 DEF View, Traced, Fresh
        <4>3. CASE Puts(st)
          BY <1>1, <2>3, <3>4, <4>3 DEF Effect, StatementOK, Puts
        <4>4. CASE st.do = "save loaded"
          BY <3>1, <3>4, <4>4 DEF Effect, Reaches
        <4> QED
          BY <1>1, <4>1, <4>2, <4>3, <4>4 DEF StatementOK, Puts, Reads
      <3> QED
        BY <3>1, <3>2, <3>3, <3>4
    <2> QED
      BY <2>2, <2>3
  <1>6. ASSUME NEW i \in Past(t)', NEW j \in Past(t)', j < i, Prog(t)[i].do = "create",
               Puts(Prog(t)[j])
        PROVE  Prog(t)[i].row # Prog(t)[j].row
    <2>1. j \in Past(t)
      BY <1>1, <1>6
    <2>2. CASE i \in Past(t)
      BY <1>6, <2>1, <2>2 DEF Traced, Fresh
    <2>3. CASE i = at[t]
      BY <1>1, <1>2, <1>6, <2>1, <2>3 DEF Reaches
    <2> QED
      BY <1>1, <2>2, <2>3
  <1>7. \A i, j \in Past(t)' :
            j < i /\ Prog(t)'[i].do = "create" /\ Puts(Prog(t)'[j]) =>
                Prog(t)'[i].row # Prog(t)'[j].row
    BY <1>1, <1>6
  <1>8. Fresh(t)'
    BY <1>5, <1>7 DEF Fresh
  <1>9. Scanning(t)'
    <2>1. scan'[t] = None
      BY DEF Traced, Scanning
    <2> QED
      BY <2>1 DEF Scanning
  <1> QED
    BY <1>4, <1>8, <1>9 DEF Traced

LEMMA TraceOthers ==
    ASSUME AllTraced, NEW t \in Sessions, Traced(t)',
           \A s \in Sessions \ {t} :
               /\ op'[s] = op[s] /\ at'[s] = at[s] /\ pending'[s] = pending[s]
               /\ shared'[s] = shared[s]
               /\ scan'[s] = None \/ scan'[s] = scan[s]
                  \/ (scan[s] # None /\ scan'[s] \subseteq scan[s])
               /\ \A row \in DOMAIN pending[s] : db'[row] = db[row]
    PROVE  AllTraced'
  <1>1. ASSUME NEW s \in Sessions \ {t} PROVE Traced(s)'
    BY TraceElsewhere DEF AllTraced
  <1> QED
    BY <1>1 DEF AllTraced

LEMMA RollbackTraced ==
    ASSUME GormInv, AllTraced, NEW t \in Sessions, NEW code, Rollback(t, code)
    PROVE  AllTraced'
  <1> USE DEF GormInv, Placed, PerSession
  <1>1. at'[t] = 1 /\ DOMAIN pending'[t] = {} /\ shared'[t] = {} /\ scan'[t] = None
    BY NothingWritten DEF Rollback, Forget
  <1>2. Traced(t)'
    BY <1>1, TraceAtStart
  <1>3. \A s \in Sessions \ {t} :
            /\ op'[s] = op[s] /\ at'[s] = at[s] /\ pending'[s] = pending[s]
            /\ shared'[s] = shared[s] /\ scan'[s] = scan[s]
    BY DEF Rollback, Forget
  <1>4. db' = db
    BY DEF Rollback
  <1> QED
    BY <1>2, <1>3, <1>4, TraceOthers

LEMMA CommitTraced ==
    ASSUME GormInv, AllTraced, NEW t \in Sessions, Commit(t)
    PROVE  AllTraced'
  <1> USE DEF GormInv, Placed, PerSession
  <1> DEFINE gone == {row \in DOMAIN pending[t] :
                         pending[t][row].to = None \/ pending[t][row].created}
  <1>0. /\ Forget(t)
        /\ db' = [row \in Rows |->
                     IF row \in DOMAIN pending[t] THEN pending[t][row].to ELSE db[row]]
        /\ scan' = [s \in Sessions |-> IF s = t \/ scan[s] = None THEN None ELSE scan[s] \ gone]
    BY DEF Commit
  <1>1. at'[t] = 1 /\ DOMAIN pending'[t] = {} /\ shared'[t] = {} /\ scan'[t] = None
    BY <1>0, NothingWritten DEF Forget
  <1>2. Traced(t)'
    BY <1>1, TraceAtStart
  <1>3. \A s \in Sessions \ {t} :
            /\ op'[s] = op[s] /\ at'[s] = at[s]
            /\ pending'[s] = pending[s] /\ shared'[s] = shared[s]
    BY <1>0 DEF Forget
  <1>4. \A s \in Sessions \ {t} :
            scan'[s] = None \/ (scan[s] # None /\ scan'[s] \subseteq scan[s])
    BY <1>0
  <1>5. ASSUME NEW s \in Sessions \ {t}, NEW row \in DOMAIN pending[s] PROVE db'[row] = db[row]
    <2>1. row \in Rows /\ row \notin DOMAIN pending[t]
      BY DEF Typed, Locks
    <2> QED
      BY <1>0, <2>1
  <1> QED
    BY <1>2, <1>3, <1>4, <1>5, TraceOthers

LEMMA BeginTraced ==
    ASSUME GormInv, AllTraced, NEW t \in Sessions, NEW o \in Operations, Begin(t, o)
    PROVE  AllTraced'
  <1> USE DEF GormInv, Placed, PerSession
  <1>0. /\ ~Open(t) /\ op' = [op EXCEPT ![t] = o]
        /\ UNCHANGED <<db, at, pending, shared, scan>>
    BY DEF Begin
  <1>1. at[t] = 1 /\ Traced(t)
    BY <1>0 DEF PlacedAt, AllTraced
  <1>2. Past(t) = {}
    BY <1>1 DEF Past
  <1>3. DOMAIN pending[t] = {} /\ shared[t] = {} /\ scan[t] = None
    BY <1>0, <1>1, <1>2 DEF Traced, Reached, Scanning
  <1>4. Traced(t)'
    BY <1>0, <1>1, <1>3, TraceAtStart
  <1>5. \A s \in Sessions \ {t} : op'[s] = op[s]
    BY <1>0
  <1> QED
    BY <1>0, <1>4, <1>5, TraceOthers

\* A step of t that only reads.
LEMMA ReadTraced ==
    ASSUME GormInv, AllTraced, NEW t \in Sessions, Open(t), ~AtEnd(t),
           Statement(t).do \in {"ensure", "first", "update"}, Read(t)
    PROVE  AllTraced'
  <1> USE DEF GormInv, Placed, PerSession
  <1>0. /\ at' = [at EXCEPT ![t] = at[t] + 1] /\ UNCHANGED <<db, op, pending, shared, scan>>
    BY DEF Read, Advance
  <1>1. at'[t] = at[t] + 1 /\ \A s \in Sessions \ {t} : at'[s] = at[s]
    BY <1>0
  <1>2. Traced(t)
    BY DEF AllTraced
  <1> HIDE DEF GormInv, Placed, PerSession
  <1>3. Traced(t)'
    BY <1>0, <1>1, <1>2, TraceRead
  <1> QED
    BY <1>0, <1>1, <1>3, TraceOthers

\* A step of t that writes.
LEMMA WriteTraced ==
    ASSUME GormInv, AllTraced, NEW t \in Sessions, Open(t), ~AtEnd(t),
           NEW st, st = Statement(t), NEW ch, NEW more, Effect(t, st, ch, more), ~Reads(st),
           Write(t, ch), shared'[t] = shared[t] \cup more,
           \A s \in Sessions \ {t} : shared'[s] = shared[s],
           scan'[t] = scan[t] \/ scan'[t] = None, st.do = "delete" => scan'[t] = None,
           \A s \in Sessions \ {t} : scan'[s] = scan[s]
    PROVE  AllTraced'
  <1>0. /\ at' = [at EXCEPT ![t] = at[t] + 1] /\ db' = db /\ op' = op
        /\ pending' = [pending EXCEPT ![t] = Merged(t, ch)]
    BY DEF Write, Merged, Advance, GormInv, Placed, PerSession
  <1>1. /\ at'[t] = at[t] + 1 /\ pending'[t] = Merged(t, ch)
        /\ \A s \in Sessions \ {t} : at'[s] = at[s] /\ pending'[s] = pending[s]
    BY <1>0 DEF GormInv, Placed, PerSession
  <1>2. Traced(t)
    BY DEF AllTraced
  <1>3. Traced(t)'
    BY <1>0, <1>1, <1>2, TraceWrite
  <1> QED
    BY <1>0, <1>1, <1>3, TraceOthers

LEMMA InsertTraced ==
    ASSUME GormInv, AllTraced, NEW t \in Sessions, Open(t), ~AtEnd(t),
           NEW st, st = Statement(t), Puts(st), Insert(t, st.row, st.value),
           View(t, st.row) = None
    PROVE  AllTraced'
  <1>1. CASE \E p \in Parents(st.row, st.value) : View(t, p) = None
    BY <1>1, RollbackTraced DEF Insert
  <1>2. CASE ~ \E p \in Parents(st.row, st.value) : View(t, p) = None
    <2> DEFINE ch == Put(st.row, st.value, TRUE)
               more == Parents(st.row, st.value)
    <2>1. /\ Write(t, ch) /\ shared' = [shared EXCEPT ![t] = shared[t] \cup more]
          /\ scan' = scan
      BY <1>2 DEF Insert
    <2>2. DOMAIN ch = {st.row} /\ ch[st.row].to = st.value
      BY DEF Put
    <2>3. /\ shared'[t] = shared[t] \cup more
          /\ \A s \in Sessions \ {t} : shared'[s] = shared[s]
      BY <2>1 DEF GormInv, Placed, PerSession
    <2> HIDE DEF ch
    <2>4. Effect(t, st, ch, more) /\ ~Reads(st) /\ st.do # "delete"
      BY <2>2 DEF Effect, Puts, Reaches, Reads
    <2> HIDE DEF more
    <2> QED
      BY <2>1, <2>3, <2>4, WriteTraced
  <1> QED
    BY <1>1, <1>2

LEMMA CreateTraced ==
    ASSUME GormInv, AllTraced, NEW t \in Sessions, ExecCreate(t)
    PROVE  AllTraced'
  <1>1. PICK st : st = Statement(t)
    OBVIOUS
  <1>2. Open(t) /\ ~AtEnd(t) /\ st.do = "create"
    BY <1>1 DEF ExecCreate, Ready
  <1>3. CASE View(t, st.row) # None
    BY <1>1, <1>3, RollbackTraced DEF ExecCreate
  <1>4. CASE View(t, st.row) = None
    <2>1. Insert(t, st.row, st.value)
      BY <1>1, <1>4 DEF ExecCreate
    <2> QED
      BY <1>1, <1>2, <1>4, <2>1, InsertTraced DEF Puts
  <1> QED
    BY <1>3, <1>4

LEMMA SaveTraced ==
    ASSUME GormInv, AllTraced, NEW t \in Sessions, ExecSave(t)
    PROVE  AllTraced'
  <1>1. PICK st : st = Statement(t)
    OBVIOUS
  <1>2. Open(t) /\ ~AtEnd(t) /\ st.do = "save"
    BY <1>1 DEF ExecSave, Ready
  <1>3. CASE View(t, st.row) = None
    <2>1. Insert(t, st.row, st.value)
      BY <1>1, <1>3 DEF ExecSave
    <2> QED
      BY <1>1, <1>2, <1>3, <2>1, InsertTraced DEF Puts
  <1>4. CASE View(t, st.row) # None
    <2> DEFINE ch == Put(st.row, st.value, FALSE)
    <2>1. Write(t, ch) /\ shared' = shared /\ scan' = scan
      BY <1>1, <1>4 DEF ExecSave
    <2>2. DOMAIN ch = {st.row} /\ ch[st.row].to = st.value
      BY PutRow
    <2> HIDE DEF ch
    <2>3. Effect(t, st, ch, {}) /\ ~Reads(st) /\ st.do # "delete"
      BY <1>2, <2>2 DEF Effect, Puts, Reaches, Reads
    <2> QED
      BY <1>1, <1>2, <2>1, <2>3, WriteTraced
  <1> QED
    BY <1>3, <1>4

LEMMA UpdateTraced ==
    ASSUME GormInv, AllTraced, NEW t \in Sessions, ExecUpdate(t)
    PROVE  AllTraced'
  <1>1. PICK st : st = Statement(t)
    OBVIOUS
  <1>2. Open(t) /\ ~AtEnd(t) /\ st.do = "update"
    BY <1>1 DEF ExecUpdate, Ready
  <1>3. CASE View(t, st.row) = None
    BY <1>1, <1>2, <1>3, ReadTraced DEF ExecUpdate
  <1>4. CASE View(t, st.row) # None
    <2> DEFINE v == With(View(t, st.row), st.set)
               ch == Put(st.row, v, FALSE)
    <2>1. Write(t, ch) /\ shared' = shared /\ scan' = scan
      BY <1>1, <1>4 DEF ExecUpdate
    <2> HIDE DEF v
    <2>2. DOMAIN ch = {st.row}
      BY PutRow
    <2> HIDE DEF ch
    <2>3. Effect(t, st, ch, {}) /\ ~Reads(st) /\ st.do # "delete"
      BY <1>2, <1>4, <2>2 DEF Effect, Puts, Reaches, Reads
    <2> QED
      BY <1>1, <1>2, <2>1, <2>3, WriteTraced
  <1> QED
    BY <1>3, <1>4

LEMMA ScanTraced ==
    ASSUME GormInv, AllTraced, NEW t \in Sessions, ScanDelete(t)
    PROVE  AllTraced'
  <1> USE DEF GormInv, Placed, PerSession
  <1>1. /\ Open(t) /\ ~AtEnd(t) /\ Statement(t).do = "delete" /\ scan[t] = None
        /\ scan' = [scan EXCEPT ![t] = Targets(t)]
        /\ UNCHANGED <<db, op, at, pending, shared>>
    BY DEF ScanDelete
  <1>2. scan'[t] \subseteq Statement(t).rows /\ \A s \in Sessions \ {t} : scan'[s] = scan[s]
    BY <1>1 DEF Targets
  <1>3. Reached(t)' /\ Fresh(t)'
    <2>1. Traced(t)
      BY DEF AllTraced
    <2>2. ASSUME NEW row, NEW do PROVE OnlyBy(t, row, do)' <=> OnlyBy(t, row, do)
      BY <1>1 DEF OnlyBy, Past, Prog
    <2>3. Fresh(t)'
      BY <1>1, <2>1, <2>2 DEF Traced, Fresh, Past, Prog
    <2>4. Reached(t)'
      BY <1>1, <2>1 DEF Traced, Reached, Past, Prog, Done
    <2> QED
      BY <2>3, <2>4
  <1>4. Scanning(t)'
    BY <1>1, <1>2 DEF Scanning, Open, AtEnd, Statement
  <1>5. Traced(t)'
    BY <1>3, <1>4 DEF Traced
  <1> QED
    BY <1>1, <1>2, <1>5, TraceOthers

\* What is saved is no NULL.
LEMMA SavedNotNull ==
    ASSUME GormInv, NEW t \in Sessions, ExecSaveLoaded(t)
    PROVE  SaveLoadedValue(t) # None
  <1> DEFINE st == Statement(t)
  <1>1. Open(t) /\ ~AtEnd(t) /\ st.do = "save loaded"
    BY DEF ExecSaveLoaded, Ready
  <1>2. /\ op[t].kind \in {"UpdateNamespace", "UpdateResource"} /\ st.row = Anchor(op[t])
        /\ \A x : x # None /\ ValueOK(st.row, x) => With(x, st.set) # None
    BY <1>1, AtStatement DEF StatementOK
  <1>3. loaded[t] # None /\ ValueOK(st.row, loaded[t])
    BY <1>2, SavingSecured DEF Secured
  <1> QED
    BY <1>2, <1>3 DEF SaveLoadedValue

\* A DELETE takes with it only passwords and keys of a user it deletes.
LEMMA CascadeReached ==
    ASSUME GormInv, NEW t \in Sessions, Open(t), ~AtEnd(t), NEW st, st = Statement(t),
           st.do = "delete", Targets(t) \subseteq st.rows, NEW row \in Cascade(t, Targets(t))
    PROVE  Reaches(st, row) /\ View(t, row) # None /\ row \in Rows /\ OfUser(row)
  <1>1. row \in Rows /\ View(t, row) # None /\ Parents(row, View(t, row)) \cap Targets(t) # {}
    BY DEF Cascade
  <1>2. PICK p \in Parents(row, View(t, row)) : p \in Targets(t)
    BY <1>1
  <1>3. OfUser(row)
    BY <1>1, <1>2, TargetsOfDelete, ParentFacts
  <1>4. p = UserRow(row[2])
    BY <1>1, <1>2, <1>3, ParentsOf
  <1> QED
    BY <1>1, <1>2, <1>3, <1>4 DEF Reaches

LEMMA SaveLoadedTraced ==
    ASSUME GormInv, AllTraced, NEW t \in Sessions, ExecSaveLoaded(t)
    PROVE  AllTraced'
  <1>1. PICK st : st = Statement(t)
    OBVIOUS
  <1>2. Open(t) /\ ~AtEnd(t) /\ st.do = "save loaded"
    BY <1>1 DEF ExecSaveLoaded, Ready
  <1> DEFINE v == SaveLoadedValue(t)
             ch == Put(st.row, v, FALSE)
  <1>3. Write(t, ch) /\ shared' = shared /\ scan' = scan
    BY <1>1 DEF ExecSaveLoaded
  <1>4. v # None
    BY SavedNotNull
  <1> HIDE DEF v
  <1>5. DOMAIN ch = {st.row} /\ ch[st.row].to = v
    BY PutRow
  <1> HIDE DEF ch
  <1>6. Effect(t, st, ch, {}) /\ ~Reads(st) /\ st.do # "delete"
    BY <1>2, <1>4, <1>5 DEF Effect, Puts, Reaches, Reads
  <1> QED
    BY <1>1, <1>2, <1>3, <1>6, WriteTraced

LEMMA DeleteTraced ==
    ASSUME GormInv, AllTraced, NEW t \in Sessions, ExecDelete(t)
    PROVE  AllTraced'
  <1>1. PICK st : st = Statement(t)
    OBVIOUS
  <1> DEFINE rows == Targets(t)
             all == rows \cup Cascade(t, rows)
             ch == [row \in all |-> [to |-> None, created |-> FALSE]]
  <1>2. Open(t) /\ ~AtEnd(t) /\ st.do = "delete"
    BY <1>1 DEF ExecDelete, Ready
  <1>3. CASE rows = {} /\ st.err # "nil"
    BY <1>1, <1>3, RollbackTraced DEF ExecDelete
  <1>4. CASE ~(rows = {} /\ st.err # "nil")
    <2>1. Write(t, ch) /\ scan' = [scan EXCEPT ![t] = None] /\ shared' = shared
      BY <1>1, <1>4 DEF ExecDelete
    <2>2. rows \subseteq st.rows /\ \A row \in rows : View(t, row) # None
      BY <1>1 DEF Targets, AllTraced, Traced, Scanning
    <2>3. ASSUME NEW row \in Cascade(t, rows)
          PROVE  Reaches(st, row) /\ View(t, row) # None
      BY <1>1, <1>2, <2>2, <2>3, CascadeReached
    <2>4. \A row \in all : Reaches(st, row) /\ View(t, row) # None
      BY <1>2, <2>2, <2>3 DEF Reaches
    <2>5. DOMAIN ch = all /\ \A row \in all : ch[row].to = None
      OBVIOUS
    <2>6. st.err # "nil" => \E row \in st.rows : row \in all
      BY <1>4, <2>2
    <2> HIDE DEF ch, all
    <2>7. Effect(t, st, ch, {}) /\ ~Reads(st)
      BY <1>2, <2>4, <2>5, <2>6 DEF Effect, Puts, Reads
    <2>8. scan'[t] = None /\ \A s \in Sessions \ {t} : scan'[s] = scan[s]
      BY <2>1 DEF GormInv, Placed, PerSession
    <2> QED
      BY <1>1, <1>2, <2>1, <2>7, <2>8, WriteTraced
  <1> QED
    BY <1>3, <1>4

LEMMA TracedInitially == GormInit => AllTraced
  <1> SUFFICES ASSUME GormInit, NEW t \in Sessions PROVE Traced(t)
    BY DEF AllTraced
  <1> USE DEF GormInit, SessionsInit, IdleSessions
  <1>1. Past(t) = {} /\ DOMAIN pending[t] = {} /\ shared[t] = {} /\ scan[t] = None
    BY NothingWritten DEF Past
  <1> QED
    BY <1>1 DEF Traced, Reached, Fresh, Scanning

LEMMA TracedSteps == GormInv /\ AllTraced /\ [GormNext]_gormVars => AllTraced'
  <1> SUFFICES ASSUME GormInv, AllTraced, [GormNext]_gormVars PROVE AllTraced'
    OBVIOUS
  <1>1. CASE UNCHANGED gormVars
    <2>1. UNCHANGED <<db, op, at, pending, shared, scan>>
      BY <1>1 DEF gormVars, sessionVars
    <2>2. ASSUME NEW t \in Sessions PROVE Traced(t)'
      BY <2>1, TraceElsewhere DEF AllTraced
    <2> QED
      BY <2>2 DEF AllTraced
  <1>2. ASSUME NEW t \in Sessions, NEW o \in Operations, Begin(t, o) PROVE AllTraced'
    BY <1>2, BeginTraced
  <1>3. ASSUME NEW t \in Sessions, Execute(t) PROVE AllTraced'
    <2>1. CASE ExecEnsure(t)
      <3>1. Open(t) /\ ~AtEnd(t) /\ Statement(t).do = "ensure"
        BY <2>1 DEF ExecEnsure, Ready
      <3> QED
        BY <2>1, <3>1, RollbackTraced, ReadTraced DEF ExecEnsure
    <2>2. CASE ExecFirst(t)
      <3>1. Open(t) /\ ~AtEnd(t) /\ Statement(t).do = "first"
        BY <2>2 DEF ExecFirst, Ready
      <3> QED
        BY <2>2, <3>1, RollbackTraced, ReadTraced DEF ExecFirst
    <2> QED
      BY <1>3, <2>1, <2>2, CreateTraced, SaveTraced, SaveLoadedTraced, UpdateTraced, ScanTraced,
         DeleteTraced, CommitTraced DEF Execute
  <1>4. ASSUME NEW t \in Sessions, Fails(t) PROVE AllTraced'
    BY <1>4, RollbackTraced DEF Fails
  <1> QED
    BY <1>1, <1>2, <1>3, <1>4 DEF GormNext

LEMMA TraceInvariant == GormSpec => [](GormInv /\ AllTraced)
  <1>1. GormInit => GormInv /\ AllTraced
    BY GormInitially, TracedInitially
  <1>2. GormInv /\ AllTraced /\ [GormNext]_gormVars => (GormInv /\ AllTraced)'
    BY GormSteps, TracedSteps
  <1> QED
    BY <1>1, <1>2, PTL DEF GormSpec

-----------------------------------------------------------------------------
(* Where an operation that has written may be *)

\* Some statement before the i-th of p writes.
Begun(p, i) == \E j \in 1..(i - 1) : ~Reads(p[j])

\* An operation with one write has not written before its end.
LEMMA SingleBegun ==
    ASSUME NEW o, o.kind \in SingleKinds, NEW i \in 1..Len(Program(o))
    PROVE  ~Begun(Program(o), i)
  <1>1. PICK a, b, c : \/ Program(o) = <<a>> \/ (Program(o) = <<a, b>> /\ Reads(a))
                       \/ Program(o) = <<a, b, c>> /\ Reads(a) /\ Reads(b)
    BY Singles
  <1>2. CASE Program(o) = <<a>>
    BY <1>2 DEF Begun
  <1>3. CASE Program(o) = <<a, b>> /\ Reads(a)
    BY <1>3 DEF Begun
  <1>4. CASE Program(o) = <<a, b, c>> /\ Reads(a) /\ Reads(b)
    BY <1>4 DEF Begun
  <1> QED
    BY <1>1, <1>2, <1>3, <1>4

\* What i inserts belongs to a row that the operation has inserted.
Inserting(p, i) ==
    /\ p[i].do = "create" /\ ~OfUser(p[i].row)
    /\ \A j \in 1..(i - 1) : Reads(p[j]) \/ p[j].do = "create"
    /\ \E j \in 1..(i - 1) : p[j].do = "create" /\ p[j].row \in Parents(p[i].row, p[i].value)

LEMMA CreateNamespaceBegun ==
    ASSUME NEW o, o.kind = "CreateNamespace", NEW i \in 1..Len(Program(o)), Begun(Program(o), i)
    PROVE  Inserting(Program(o), i)
  <1> DEFINE made == CreateSt(NamespaceRow(o.ns),
                              [pidFormat |-> o.format, dateCreated |-> o.now,
                               dateUpdated |-> o.now], "ErrDuplicateNamespaceID")
             tagged == CreateSt(NamespaceTagRow(o.ns), o.tags, "ErrDuplicateNamespaceID")
             found == EnsureSt(UserRow(o.owner), "ErrUserNotFound")
             owned == CreateSt(RoleRow(o.ns, o.owner), "manager", "DatabaseError")
  <1>1. \/ Program(o) = <<made>> \/ Program(o) = <<made, tagged>>
        \/ Program(o) = <<found, made, owned>> \/ Program(o) = <<found, made, tagged, owned>>
    BY NamespaceSpelled
  <1>2. /\ made.do = "create" /\ tagged.do = "create" /\ owned.do = "create" /\ Reads(found)
        /\ made.row = NamespaceRow(o.ns)
        /\ tagged.row = NamespaceTagRow(o.ns) /\ owned.row = RoleRow(o.ns, o.owner)
    BY DEF Reads, EnsureSt, CreateSt
  <1>3. /\ ~OfUser(tagged.row) /\ ~OfUser(owned.row)
        /\ \A v : made.row \in Parents(tagged.row, v) /\ made.row \in Parents(owned.row, v)
    BY <1>2, RowTables, ParentsOf DEF OfUser
  <1>4. ~Reads(made)
    BY <1>2 DEF Reads
  <1> HIDE DEF made, tagged, found, owned
  <1>5. CASE Program(o) = <<made>>
    BY <1>5 DEF Begun
  <1>6. CASE Program(o) = <<made, tagged>>
    <2>1. i = 2
      BY <1>6 DEF Begun
    <2> QED
      BY <1>2, <1>3, <1>6, <2>1 DEF Inserting
  <1>7. CASE Program(o) = <<found, made, owned>>
    <2>1. i = 3
      BY <1>2, <1>7 DEF Begun
    <2> QED
      BY <1>2, <1>3, <1>7, <2>1 DEF Inserting
  <1>8. CASE Program(o) = <<found, made, tagged, owned>>
    <2>1. i \in {3, 4}
      BY <1>2, <1>8 DEF Begun
    <2> QED
      BY <1>2, <1>3, <1>8, <2>1 DEF Inserting
  <1> QED
    BY <1>1, <1>5, <1>6, <1>7, <1>8

LEMMA CreateResourceBegun ==
    ASSUME NEW o \in ResourceOps, o.kind = "CreateResource", NEW i \in 1..Len(Program(o)),
           Begun(Program(o), i)
    PROVE  Inserting(Program(o), i)
  <1> DEFINE found == NamespaceFound(o)
             made == CreateSt(ResourceRow(o.ns, o.pid), NewRow(o.content, o.now),
                              "ErrPIDAllocationFailed")
             tagged == CreateSt(ResourceTagRow(o.ns, o.pid), o.content, "ErrPIDAllocationFailed")
  <1>1. Program(o) = <<found, made>> \/ Program(o) = <<found, made, tagged>>
    BY ResourceSpelled
  <1>2. /\ made.do = "create" /\ tagged.do = "create" /\ Reads(found)
        /\ made.row = ResourceRow(o.ns, o.pid) /\ tagged.row = ResourceTagRow(o.ns, o.pid)
    BY DEF Reads, EnsureSt, CreateSt, NamespaceFound
  <1>3. ~OfUser(tagged.row) /\ \A v : made.row \in Parents(tagged.row, v)
    BY <1>2, RowTables, ParentsOf DEF OfUser
  <1> HIDE DEF made, tagged, found
  <1>4. CASE Program(o) = <<found, made>>
    BY <1>2, <1>4 DEF Begun
  <1>5. CASE Program(o) = <<found, made, tagged>>
    <2>1. i = 3
      BY <1>2, <1>5 DEF Begun
    <2> QED
      BY <1>2, <1>3, <1>5, <2>1 DEF Inserting
  <1> QED
    BY <1>1, <1>4, <1>5

\* A batch that has inserted a row, and is at another one.
LEMMA BatchBegun ==
    ASSUME NEW o \in ResourceOps, o.kind = "BatchCreateResources", NEW i \in 1..Len(Program(o)),
           Begun(Program(o), i)
    PROVE  \/ Inserting(Program(o), i)
           \/ /\ Len(o.pids) > 1 /\ Program(o)[i].do = "create"
              /\ \E q \in PIDs : Program(o)[i].row = ResourceRow(o.ns, q)
              /\ \A j \in 1..(i - 1) :
                     \/ Reads(Program(o)[j])
                     \/ /\ Program(o)[j].do = "create"
                        /\ \E q \in PIDs : Program(o)[j].row = ResourceRow(o.ns, q)
  <1> DEFINE n == Len(o.pids)
  <1>1. /\ n \in Nat /\ n >= 1 /\ Len(Program(o)) = IF o.content = Plain THEN n + 1 ELSE n + n + 1
        /\ Program(o)[1] = NamespaceFound(o)
        /\ \A k \in 1..n : Program(o)[k + 1] = CreateSt(ResourceRow(o.ns, o.pids[k]),
                                             NewRow(o.content, o.now), "ErrPIDAllocationFailed")
    BY BatchSpelled
  <1>2. /\ \A row, v, err : CreateSt(row, v, err).do = "create" /\ CreateSt(row, v, err).row = row
        /\ Reads(NamespaceFound(o))
    BY DEF CreateSt, NamespaceFound, EnsureSt, Reads
  <1>3. i # 1 /\ i # 2
    <2>1. ASSUME NEW j \in 1..(i - 1), i \in {1, 2} PROVE j = 1
      BY <2>1
    <2> QED
      BY <1>1, <1>2, <2>1 DEF Begun
  <1>4. CASE i - 1 \in 1..n
    <2>1. n > 1
      BY <1>1, <1>3, <1>4
    <2>2. /\ o.pids[i - 1] \in PIDs
          /\ Program(o)[i] = CreateSt(ResourceRow(o.ns, o.pids[i - 1]), NewRow(o.content, o.now),
                                      "ErrPIDAllocationFailed")
      <3>1. i # 1 /\ i - 1 - n \notin 1..n
        BY <1>1, <1>3, <1>4
      <3> QED
        BY <3>1, BatchStatements
    <2>3. ASSUME NEW j \in 1..(i - 1)
          PROVE  \/ Reads(Program(o)[j])
                 \/ /\ Program(o)[j].do = "create"
                    /\ \E q \in PIDs : Program(o)[j].row = ResourceRow(o.ns, q)
      <3>1. j \in 1..Len(Program(o)) /\ j - 1 - n \notin 1..n
        BY <1>1, <1>4, <2>3
      <3> QED
        BY <1>2, <3>1, BatchStatements
    <2> QED
      BY <1>2, <2>1, <2>2, <2>3
  <1>5. CASE i - 1 \notin 1..n
    <2> DEFINE k == i - 1 - n
    <2>1. /\ k \in 1..n
          /\ Program(o)[i] = CreateSt(ResourceTagRow(o.ns, o.pids[k]), o.content,
                                      "ErrPIDAllocationFailed")
      BY <1>3, <1>5, BatchStatements
    <2>2. k + 1 \in 1..(i - 1) /\ 1..(i - 1) \subseteq 1..Len(Program(o))
      BY <1>1, <2>1
    <2> HIDE DEF k
    <2>3. \A j \in 1..(i - 1) : Reads(Program(o)[j]) \/ Program(o)[j].do = "create"
      <3> TAKE j \in 1..(i - 1)
      <3>1. j \in 1..Len(Program(o))
        BY <2>2
      <3> QED
        BY <1>2, <3>1, BatchStatements
    <2>4. /\ Program(o)[k + 1].do = "create"
          /\ Program(o)[k + 1].row = ResourceRow(o.ns, o.pids[k])
      BY <1>1, <1>2, <2>1
    <2>5. Program(o)[i].do = "create" /\ Program(o)[i].row = ResourceTagRow(o.ns, o.pids[k])
      BY <1>2, <2>1
    <2>6. /\ ~OfUser(Program(o)[i].row)
          /\ \A v : ResourceRow(o.ns, o.pids[k]) \in Parents(Program(o)[i].row, v)
      BY <2>5, RowTables, ParentsOf DEF OfUser
    <2> QED
      BY <2>2, <2>3, <2>4, <2>5, <2>6 DEF Inserting
  <1> QED
    BY <1>4, <1>5

\* The tags are changed after the row is saved.
TagsLast(p, i, row, tags) ==
    /\ \/ p[i].do = "delete" /\ p[i].rows = {tags}
       \/ p[i].do = "create" /\ p[i].row = tags
    /\ \E j \in 1..(i - 1) : p[j].do = "save loaded" /\ p[j].row = row
    /\ \A j \in 1..(i - 1) : \/ Reads(p[j])
                             \/ p[j].do = "save loaded" /\ p[j].row = row
                             \/ p[j].do = "delete" /\ p[j].rows = {tags}

LEMMA UpdateResourceBegun ==
    ASSUME NEW o \in ResourceOps, o.kind = "UpdateResource", NEW i \in 1..Len(Program(o)),
           Begun(Program(o), i)
    PROVE  TagsLast(Program(o), i, ResourceRow(o.ns, o.pid), ResourceTagRow(o.ns, o.pid))
  <1> DEFINE found == NamespaceFound(o)
             first == FirstSt(ResourceRow(o.ns, o.pid), "ErrResourceNotFound")
             saved == SaveLoadedSt(ResourceRow(o.ns, o.pid),
                          Given([content |-> o.content, deleted |-> o.deleted,
                                 dateUpdated |-> o.now]))
             untagged == DeleteSt({ResourceTagRow(o.ns, o.pid)}, "nil")
             retagged == CreateSt(ResourceTagRow(o.ns, o.pid), o.content, "DatabaseError")
  <1>1. \/ Program(o) = <<found, first, saved>> \/ Program(o) = <<found, first, saved, untagged>>
        \/ Program(o) = <<found, first, saved, untagged, retagged>>
    BY ResourceSpelled
  <1>0. Reads(found) /\ Reads(first)
    BY DEF Reads, EnsureSt, FirstSt, NamespaceFound
  <1>2. /\ saved.do = "save loaded" /\ untagged.do = "delete"
        /\ retagged.do = "create" /\ saved.row = ResourceRow(o.ns, o.pid)
        /\ retagged.row = ResourceTagRow(o.ns, o.pid)
        /\ untagged.rows = {ResourceTagRow(o.ns, o.pid)}
    BY DEF Reads, EnsureSt, FirstSt, CreateSt, SaveLoadedSt, DeleteSt, NamespaceFound
  <1> HIDE DEF found, first, saved, untagged, retagged
  <1>3. CASE Program(o) = <<found, first, saved>>
    <2>1. ~Begun(Program(o), i)
      BY <1>0, <1>3 DEF Begun
    <2> QED
      BY <2>1
  <1>4. CASE Program(o) = <<found, first, saved, untagged>>
    <2>1. i = 4
      BY <1>0, <1>4 DEF Begun
    <2>2. Program(o)[i] = untagged /\ 3 \in 1..(i - 1) /\ Program(o)[3] = saved
      BY <1>4, <2>1
    <2>3. \A j \in 1..(i - 1) : Program(o)[j] \in {found, first, saved}
      BY <1>4, <2>1
    <2> QED
      BY <1>0, <1>2, <2>2, <2>3 DEF TagsLast
  <1>5. CASE Program(o) = <<found, first, saved, untagged, retagged>>
    <2>1. i \in {4, 5}
      BY <1>0, <1>5 DEF Begun
    <2>2. 3 \in 1..(i - 1) /\ Program(o)[3] = saved
      BY <1>5, <2>1
    <2>3. Program(o)[i] = untagged \/ Program(o)[i] = retagged
      BY <1>5, <2>1
    <2>4. \A j \in 1..(i - 1) : Program(o)[j] \in {found, first, saved, untagged}
      BY <1>5, <2>1
    <2> QED
      BY <1>0, <1>2, <2>2, <2>3, <2>4 DEF TagsLast
  <1> QED
    BY <1>1, <1>3, <1>4, <1>5

\* The tags are changed before the row is saved.
TagsFirst(p, i, row, tags) ==
    \/ /\ p[i].do = "save loaded" /\ p[i].row = row
       /\ \A j \in 1..(i - 1) : \/ Reads(p[j])
                                \/ p[j].do = "delete" /\ p[j].rows = {tags}
                                \/ p[j].do = "create" /\ p[j].row = tags
    \/ /\ p[i].do = "create" /\ p[i].row = tags
       /\ \A j \in 1..(i - 1) : Reads(p[j]) \/ (p[j].do = "delete" /\ p[j].rows = {tags})

LEMMA UpdateNamespaceBegun ==
    ASSUME NEW o, o.kind = "UpdateNamespace", NEW i \in 1..Len(Program(o)), Begun(Program(o), i)
    PROVE  TagsFirst(Program(o), i, NamespaceRow(o.ns), NamespaceTagRow(o.ns))
  <1> DEFINE first == FirstSt(NamespaceRow(o.ns), "ErrNamespaceNotFound")
             untagged == DeleteSt({NamespaceTagRow(o.ns)}, "nil")
             retagged == CreateSt(NamespaceTagRow(o.ns), o.tags, "DatabaseError")
             saved == SaveLoadedSt(NamespaceRow(o.ns), [dateUpdated |-> o.now])
  <1>1. \/ Program(o) = <<first, saved>> \/ Program(o) = <<first, untagged, saved>>
        \/ Program(o) = <<first, untagged, retagged, saved>>
    BY NamespaceSpelled
  <1>0. Reads(first)
    BY DEF Reads, FirstSt
  <1>2. /\ saved.do = "save loaded" /\ untagged.do = "delete"
        /\ retagged.do = "create" /\ saved.row = NamespaceRow(o.ns)
        /\ retagged.row = NamespaceTagRow(o.ns) /\ untagged.rows = {NamespaceTagRow(o.ns)}
    BY DEF Reads, FirstSt, CreateSt, SaveLoadedSt, DeleteSt
  <1> HIDE DEF first, saved, untagged, retagged
  <1>3. CASE Program(o) = <<first, saved>>
    <2>1. ~Begun(Program(o), i)
      BY <1>0, <1>3 DEF Begun
    <2> QED
      BY <2>1
  <1>4. CASE Program(o) = <<first, untagged, saved>>
    <2>1. i = 3
      BY <1>0, <1>4 DEF Begun
    <2>2. Program(o)[i] = saved /\ \A j \in 1..(i - 1) : Program(o)[j] \in {first, untagged}
      BY <1>4, <2>1
    <2> QED
      BY <1>0, <1>2, <2>2 DEF TagsFirst
  <1>5. CASE Program(o) = <<first, untagged, retagged, saved>>
    <2>1. i \in {3, 4}
      BY <1>0, <1>5 DEF Begun
    <2>2. CASE i = 3
      <3>1. Program(o)[i] = retagged /\ \A j \in 1..(i - 1) : Program(o)[j] \in {first, untagged}
        BY <1>5, <2>2
      <3> QED
        BY <1>0, <1>2, <3>1 DEF TagsFirst
    <2>3. CASE i = 4
      <3>1. /\ Program(o)[i] = saved
            /\ \A j \in 1..(i - 1) : Program(o)[j] \in {first, untagged, retagged}
        BY <1>5, <2>3
      <3> QED
        BY <1>0, <1>2, <3>1 DEF TagsFirst
    <2> QED
      BY <2>1, <2>2, <2>3
  <1> QED
    BY <1>1, <1>3, <1>4, <1>5

\* The rows that go with a user.
Belongs(row, u) ==
    \/ /\ row[1] \in {"users", "user_passwords", "user_api_keys", "user_mount_grants"}
       /\ row[2] = u
    \/ row[1] = "namespace_roles" /\ row[3] = u

LEMMA DeleteUserStatements ==
    ASSUME NEW o, o.kind = "DeleteUser", NEW i \in 1..Len(Program(o))
    PROVE  \/ Reads(Program(o)[i])
           \/ /\ Program(o)[i].do = "delete"
              /\ \A row : Reaches(Program(o)[i], row) => Belongs(row, o.user)
  <1> DEFINE all == {RolesOf(o.user), GrantsOf(o.user), {PasswordRow(o.user)}, KeysOf(o.user),
                     {UserRow(o.user)}}
  <1>1. Program(o)[i] = UserFound(o) \/ \E rows \in all : Program(o)[i] = DeleteSt(rows, "nil")
    <2> DEFINE a == UserFound(o)
               b == DeleteSt(RolesOf(o.user), "nil")
               c == DeleteSt(GrantsOf(o.user), "nil")
               d == DeleteSt({PasswordRow(o.user)}, "nil")
               e == DeleteSt(KeysOf(o.user), "nil")
               f == DeleteSt({UserRow(o.user)}, "nil")
    <2>1. Program(o) = <<a, b, c, d, e, f>>
      BY AccountSpelled
    <2> HIDE DEF a, b, c, d, e, f
    <2>2. Program(o)[i] \in {a, b, c, d, e, f}
      BY <2>1
    <2> QED
      BY <2>2 DEF a, b, c, d, e, f
  <1>2. ASSUME NEW rows \in all, NEW row \in rows PROVE Belongs(row, o.user)
    <2>1. CASE row = UserRow(o.user) \/ row = PasswordRow(o.user)
      BY <2>1, RowTables DEF Belongs
    <2>2. ASSUME NEW n \in NamespaceIDs, row = RoleRow(n, o.user) PROVE Belongs(row, o.user)
      BY <2>2 DEF Belongs, RoleRow
    <2>3. ASSUME NEW g \in Patterns, row = GrantRow(o.user, g) PROVE Belongs(row, o.user)
      BY <2>3 DEF Belongs, GrantRow
    <2>4. ASSUME NEW k \in KeyIDs, row = KeyRow(o.user, k) PROVE Belongs(row, o.user)
      BY <2>4, RowTables DEF Belongs
    <2> QED
      BY <1>2, <2>1, <2>2, <2>3, <2>4 DEF RolesOf, GrantsOf, KeysOf
  <1> HIDE DEF all
  <1>3. Reads(UserFound(o))
    BY DEF Reads, UserFound, EnsureSt
  <1>4. ASSUME NEW rows \in all, Program(o)[i] = DeleteSt(rows, "nil"),
               NEW row, Reaches(Program(o)[i], row)
        PROVE  Belongs(row, o.user)
    <2>1. Program(o)[i].do = "delete" /\ Program(o)[i].rows = rows
      BY <1>4 DEF DeleteSt
    <2>2. CASE row \in rows
      BY <1>2, <2>2
    <2>3. CASE OfUser(row) /\ UserRow(row[2]) \in rows
      <3>1. Belongs(UserRow(row[2]), o.user)
        BY <1>2, <2>3
      <3>2. row[2] = o.user
        BY <3>1, RowTables DEF Belongs
      <3> QED
        BY <2>3, <3>2 DEF Belongs, OfUser
    <2> QED
      BY <1>4, <2>1, <2>2, <2>3 DEF Reaches
  <1>5. \A rows : DeleteSt(rows, "nil").do = "delete"
    BY DEF DeleteSt
  <1> QED
    BY <1>1, <1>3, <1>4, <1>5

\* A row refers to one row at most.
LEMMA OneParent ==
    ASSUME NEW row \in Rows, NEW v, NEW p \in Parents(row, v)
    PROVE  Parents(row, v) = {p}
  BY DEF Parents

\* A transaction that waits is at a statement that writes.
LEMMA WaitKinds ==
    ASSUME GormInv, NEW t \in Sessions, WaitsFor(t) # {}
    PROVE  Statement(t).do \in {"create", "save", "save loaded", "update", "delete"}
  <1>1. Open(t) /\ ~AtEnd(t)
    BY DEF WaitsFor
  <1>2. Statement(t).do \notin {"ensure", "first"}
    BY <1>1 DEF WaitsFor
  <1> QED
    BY <1>1, <1>2, AtStatement DEF StatementOK

-----------------------------------------------------------------------------
(* Cycles of waiting transactions *)

\* Others may have to wait for t.
Busy(t) == DOMAIN pending[t] # {} \/ shared[t] # {}

\* In a cycle a transaction has written, waits and is waited for.
InCycle(t) == Open(t) /\ ~AtEnd(t) /\ Busy(t) /\ WaitsFor(t) # {}

\* What t waits for.
LEMMA Waiting ==
    ASSUME GormInv, NEW t \in Sessions, NEW s \in WaitsFor(t), NEW st, st = Statement(t)
    PROVE  /\ Open(t) /\ ~AtEnd(t) /\ s \in Sessions /\ s # t /\ Busy(s) /\ ~Reads(st)
           /\ Puts(st) => \/ st.row \in DOMAIN pending[s]
                          \/ \E p \in Parents(st.row, st.value) :
                                 p \in DOMAIN pending[s] /\ pending[s][p].to = None
           /\ st.do = "save loaded" => st.row \in DOMAIN pending[s]
           /\ st.do = "delete" =>
                  \E row \in Targets(t) \cup Cascade(t, Targets(t)) :
                      row \in DOMAIN pending[s] \/ row \in shared[s]
  <1>1. Open(t) /\ ~AtEnd(t)
    BY DEF WaitsFor
  <1>2. CASE Puts(st)
    <2>1. s \in Writers(t, {st.row}) \cup Deleters(t, Parents(st.row, st.value))
      BY <1>1, <1>2 DEF WaitsFor, Puts
    <2> QED
      BY <1>1, <1>2, <2>1 DEF Writers, Deleters, Busy, Puts, Reads
  <1>3. CASE st.do = "save loaded"
    <2>1. s \in Writers(t, {st.row})
      BY <1>1, <1>3 DEF WaitsFor
    <2> QED
      BY <1>1, <1>3, <2>1 DEF Writers, Busy, Puts, Reads
  <1>4. CASE st.do = "update"
    <2>1. s \in Writers(t, {st.row})
      BY <1>1, <1>4 DEF WaitsFor
    <2> QED
      BY <1>1, <1>4, <2>1 DEF Writers, Busy, Puts, Reads
  <1>5. CASE st.do = "delete"
    <2> DEFINE rows == Targets(t) \cup Cascade(t, Targets(t))
    <2>1. s \in Writers(t, rows) \cup Sharers(t, rows)
      BY <1>1, <1>5 DEF WaitsFor
    <2> HIDE DEF rows
    <2>2. /\ s \in Sessions /\ s # t /\ Busy(s)
          /\ \E row \in rows : row \in DOMAIN pending[s] \/ row \in shared[s]
      BY <2>1 DEF Writers, Sharers, Busy
    <2> QED
      BY <1>1, <1>5, <2>2 DEF Puts, Reads, rows
  <1> QED
    <2>1. st.do \in {"create", "save", "save loaded", "update", "delete"}
      BY WaitKinds
    <2> QED
      BY <2>1, <1>2, <1>3, <1>4, <1>5 DEF Puts

\* A busy transaction has executed a statement that writes.
LEMMA BusyBegun ==
    ASSUME AllTraced, NEW t \in Sessions, Busy(t)
    PROVE  Begun(Prog(t), at[t])
  <1>1. \A st, row : Reaches(st, row) \/ Puts(st) => ~Reads(st)
    BY DEF Reaches, Puts, Reads
  <1>2. \E j \in Past(t) : ~Reads(Prog(t)[j])
    <2>1. CASE DOMAIN pending[t] # {}
      BY <1>1, <2>1 DEF AllTraced, Traced, Reached
    <2>2. CASE shared[t] # {}
      BY <1>1, <2>2 DEF AllTraced, Traced, Reached
    <2> QED
      BY <2>1, <2>2 DEF Busy
  <1> QED
    BY <1>2 DEF Begun, Past

\* Nobody can be in the way of what belongs to a row that t has inserted.
LEMMA InsertingWaitsForNobody ==
    ASSUME GormInv, AllTraced, NEW t \in Sessions, Open(t), ~AtEnd(t), Inserting(Prog(t), at[t])
    PROVE  WaitsFor(t) = {}
  <1> SUFFICES ASSUME NEW s \in WaitsFor(t) PROVE FALSE
    OBVIOUS
  <1>1. PICK st : st = Statement(t)
    OBVIOUS
  <1>2. Prog(t)[at[t]] = st /\ Past(t) = 1..(at[t] - 1)
    BY <1>1 DEF Prog, Statement, Past
  <1>3. /\ st.do = "create" /\ ~OfUser(st.row)
        /\ \A j \in Past(t) : Reads(Prog(t)[j]) \/ Prog(t)[j].do = "create"
    BY <1>2 DEF Inserting
  <1>4. PICK j \in Past(t) : /\ Prog(t)[j].do = "create"
                             /\ Prog(t)[j].row \in Parents(st.row, st.value)
    BY <1>2 DEF Inserting
  <1> DEFINE p == Prog(t)[j].row
  <1>5. p \in DOMAIN pending[t] /\ db[p] = None
    <2>1. p \in DOMAIN pending[t]
      BY <1>4 DEF AllTraced, Traced, Reached, Done, Puts
    <2>2. OnlyBy(t, p, "create")
      BY <1>3 DEF OnlyBy, Reads, Reaches
    <2> QED
      BY <2>1, <2>2 DEF AllTraced, Traced, Fresh
  <1>6. st.row \in Rows /\ st.row[1] # "mounts"
    BY <1>1, <1>3, AtStatement DEF StatementOK
  <1> HIDE DEF p
  <1>7. p \in Parents(st.row, st.value)
    BY <1>4 DEF p
  <1>8. \A v : Parents(st.row, v) = {p}
    <2>1. \A v : p \in Parents(st.row, v)
      BY <1>6, <1>7, ParentFacts
    <2> QED
      BY <1>6, <2>1, OneParent
  <1>9. /\ s \in Sessions /\ s # t
        /\ \/ st.row \in DOMAIN pending[s]
           \/ p \in DOMAIN pending[s]
    BY <1>1, <1>3, <1>8, Waiting DEF Puts
  <1>10. p \notin DOMAIN pending[s]
    BY <1>5, <1>9 DEF GormInv, Locks
  <1>11. CASE st.row \in DOMAIN pending[s]
    <2>1. CASE pending[s][st.row].to = None
      <3>1. db[st.row] # None
        BY <1>9, <1>11, <2>1 DEF AllTraced, Traced, Fresh
      <3> QED
        BY <1>5, <1>6, <1>8, <3>1 DEF GormInv, Owned
    <2>2. CASE pending[s][st.row].to # None
      <3>1. View(s, st.row) # None
        BY <1>11, <2>2 DEF View
      <3>2. View(s, p) # None
        BY <1>6, <1>8, <1>9, <3>1 DEF GormInv, Owned
      <3> QED
        BY <1>5, <1>10, <3>2 DEF View
    <2> QED
      BY <2>1, <2>2
  <1> QED
    BY <1>9, <1>10, <1>11

LEMMA DeletesOne ==
    ASSUME NEW st, NEW row, NEW x, st.do = "delete", st.rows = {x}, x[1] # "users",
           Reaches(st, row)
    PROVE  row = x
  BY RowTables DEF Reaches

\* The places where a transaction may be in a cycle, and the rows it holds
\* there.
AtRow(t) ==
    /\ op[t].kind = "BatchCreateResources" /\ Len(op[t].pids) > 1
    /\ Statement(t).do = "create" /\ Statement(t).row[1] = "resources"
    /\ Statement(t).row[2] = op[t].ns
    /\ \A row \in DOMAIN pending[t] : row[1] = "resources" /\ row[2] = op[t].ns
    /\ \A row \in shared[t] : row[1] = "namespaces"

AtNamespace(t) ==
    /\ op[t].kind = "UpdateNamespace"
    /\ Statement(t).do = "save loaded" /\ Statement(t).row = NamespaceRow(op[t].ns)
    /\ \A row \in DOMAIN pending[t] : row[1] = "namespace_tags"
    /\ \A row \in shared[t] : row[1] = "namespaces"

AtTags(t) ==
    LET tags == ResourceTagRow(op[t].ns, op[t].pid)
        resource == ResourceRow(op[t].ns, op[t].pid)
    IN  /\ op[t].kind = "UpdateResource"
        /\ \/ Statement(t).do = "delete" /\ Statement(t).rows = {tags}
           \/ Statement(t).do = "create" /\ Statement(t).row = tags
        /\ resource \in DOMAIN pending[t]
        /\ DOMAIN pending[t] \subseteq {resource, tags}

AtDelete(t) ==
    /\ op[t].kind = "DeleteUser" /\ Statement(t).do = "delete"
    /\ \A row : Reaches(Statement(t), row) => Belongs(row, op[t].user)
    /\ \A row \in DOMAIN pending[t] : Belongs(row, op[t].user)
    /\ shared[t] = {}

\* What t has written or locked comes from what it has executed.
LEMMA HeldRows ==
    ASSUME AllTraced, NEW t \in Sessions
    PROVE  /\ \A row \in DOMAIN pending[t] : \E j \in Past(t) : Reaches(Prog(t)[j], row)
           /\ \A row \in shared[t] :
                  \E j \in Past(t) : /\ Puts(Prog(t)[j])
                                     /\ row \in Parents(Prog(t)[j].row, Prog(t)[j].value)
  BY DEF AllTraced, Traced, Reached

LEMMA BatchInCycle ==
    ASSUME GormInv, AllTraced, NEW t \in Sessions, InCycle(t),
           op[t].kind = "BatchCreateResources", op[t] \in ResourceOps
    PROVE  AtRow(t)
  <1>1. /\ Open(t) /\ ~AtEnd(t) /\ Busy(t) /\ WaitsFor(t) # {}
        /\ at[t] \in 1..Len(Prog(t)) /\ Begun(Prog(t), at[t])
        /\ Prog(t)[at[t]] = Statement(t) /\ Past(t) = 1..(at[t] - 1)
    BY AtStatement, BusyBegun DEF InCycle, Prog, Past, Statement
  <1>2. ~Inserting(Prog(t), at[t])
    BY <1>1, InsertingWaitsForNobody
  <1>3. /\ Len(op[t].pids) > 1 /\ Statement(t).do = "create"
        /\ \E q \in PIDs : Statement(t).row = ResourceRow(op[t].ns, q)
        /\ \A j \in Past(t) :
               \/ Reads(Prog(t)[j])
               \/ /\ Prog(t)[j].do = "create"
                  /\ \E q \in PIDs : Prog(t)[j].row = ResourceRow(op[t].ns, q)
    BY <1>1, <1>2, BatchBegun DEF Prog
  <1>4. ASSUME NEW row \in DOMAIN pending[t] PROVE row[1] = "resources" /\ row[2] = op[t].ns
    <2>1. PICK j \in Past(t) : Reaches(Prog(t)[j], row)
      BY HeldRows
    <2>2. \E q \in PIDs : row = ResourceRow(op[t].ns, q)
      BY <1>3, <2>1 DEF Reaches, Reads
    <2> QED
      BY <2>2, RowTables
  <1>5. ASSUME NEW row \in shared[t] PROVE row[1] = "namespaces"
    <2>1. PICK j \in Past(t) : Puts(Prog(t)[j]) /\ row \in Parents(Prog(t)[j].row, Prog(t)[j].value)
      BY HeldRows
    <2>2. PICK q \in PIDs : Prog(t)[j].row = ResourceRow(op[t].ns, q)
      BY <1>3, <2>1 DEF Puts, Reads
    <2>3. row = NamespaceRow(op[t].ns)
      BY <2>1, <2>2, RowTables, ParentsOf
    <2> QED
      BY <2>3, RowTables
  <1> QED
    BY <1>3, <1>4, <1>5, RowTables DEF AtRow

LEMMA UpdateNamespaceInCycle ==
    ASSUME GormInv, AllTraced, NEW t \in Sessions, InCycle(t), op[t].kind = "UpdateNamespace"
    PROVE  AtNamespace(t)
  <1> DEFINE tags == NamespaceTagRow(op[t].ns)
  <1>1. /\ Open(t) /\ ~AtEnd(t) /\ Busy(t) /\ WaitsFor(t) # {}
        /\ at[t] \in 1..Len(Prog(t)) /\ Begun(Prog(t), at[t])
        /\ Prog(t)[at[t]] = Statement(t) /\ Past(t) = 1..(at[t] - 1)
    BY AtStatement, BusyBegun DEF InCycle, Prog, Past, Statement
  <1>2. tags[1] = "namespace_tags" /\ \A v : Parents(tags, v) = {NamespaceRow(op[t].ns)}
    BY RowTables, ParentsOf
  <1>3. \/ /\ Statement(t).do = "save loaded" /\ Statement(t).row = NamespaceRow(op[t].ns)
           /\ \A j \in Past(t) : \/ Reads(Prog(t)[j])
                                 \/ Prog(t)[j].do = "delete" /\ Prog(t)[j].rows = {tags}
                                 \/ Prog(t)[j].do = "create" /\ Prog(t)[j].row = tags
        \/ /\ Statement(t).do = "create" /\ Statement(t).row = tags
           /\ \A j \in Past(t) : \/ Reads(Prog(t)[j])
                                 \/ Prog(t)[j].do = "delete" /\ Prog(t)[j].rows = {tags}
    <2>1. TagsFirst(Prog(t), at[t], NamespaceRow(op[t].ns), tags)
      BY <1>1, UpdateNamespaceBegun DEF Prog
    <2> HIDE DEF tags
    <2> QED
      BY <1>1, <2>1 DEF TagsFirst
  <1> HIDE DEF tags
  <1>4. ASSUME NEW row \in DOMAIN pending[t] PROVE row = tags
    <2>1. PICK j \in Past(t) : Reaches(Prog(t)[j], row)
      BY HeldRows
    <2>2. \/ Prog(t)[j].do = "delete" /\ Prog(t)[j].rows = {tags}
          \/ Prog(t)[j].do = "create" /\ Prog(t)[j].row = tags
      BY <1>3, <2>1 DEF Reaches, Reads
    <2> QED
      BY <1>2, <2>1, <2>2, DeletesOne DEF Reaches
  <1>5. ASSUME NEW row \in shared[t] PROVE row[1] = "namespaces"
    <2>1. PICK j \in Past(t) : Puts(Prog(t)[j]) /\ row \in Parents(Prog(t)[j].row, Prog(t)[j].value)
      BY HeldRows
    <2>2. Prog(t)[j].row = tags
      BY <1>3, <2>1 DEF Puts, Reads
    <2> QED
      BY <1>2, <2>1, <2>2, RowTables
  <1>6. Statement(t).do # "create"
    <2> SUFFICES ASSUME Statement(t).do = "create" PROVE FALSE
      OBVIOUS
    <2>1. shared[t] = {}
      BY <1>3, HeldRows DEF Puts, Reads
    <2>2. tags \in DOMAIN pending[t]
      BY <1>1, <1>4, <2>1 DEF Busy
    <2>3. PICK s \in WaitsFor(t) : TRUE
      BY <1>1
    <2>4. /\ s \in Sessions /\ s # t
          /\ \/ tags \in DOMAIN pending[s]
             \/ LET p == NamespaceRow(op[t].ns)
                IN  p \in DOMAIN pending[s] /\ pending[s][p].to = None
      <3>1. PICK st : st = Statement(t)
        OBVIOUS
      <3>2. Puts(st) /\ st.row = tags
        BY <1>3, <3>1 DEF Puts
      <3> QED
        BY <1>2, <3>1, <3>2, Waiting
    <2>5. Lasting(NamespaceRow(op[t].ns))
      BY RowTables DEF Lasting
    <2> QED
      BY <2>2, <2>4, <2>5 DEF GormInv, Locks, Typed
  <1> QED
    BY <1>2, <1>3, <1>4, <1>5, <1>6 DEF AtNamespace

LEMMA UpdateResourceInCycle ==
    ASSUME GormInv, AllTraced, NEW t \in Sessions, InCycle(t),
           op[t].kind = "UpdateResource", op[t] \in ResourceOps
    PROVE  AtTags(t)
  <1> DEFINE tags == ResourceTagRow(op[t].ns, op[t].pid)
             resource == ResourceRow(op[t].ns, op[t].pid)
  <1>1. /\ Open(t) /\ ~AtEnd(t) /\ Busy(t)
        /\ at[t] \in 1..Len(Prog(t)) /\ Begun(Prog(t), at[t])
        /\ Prog(t)[at[t]] = Statement(t) /\ Past(t) = 1..(at[t] - 1)
    BY AtStatement, BusyBegun DEF InCycle, Prog, Past, Statement
  <1>2. tags[1] # "users"
    BY RowTables
  <1>3. /\ \/ Statement(t).do = "delete" /\ Statement(t).rows = {tags}
           \/ Statement(t).do = "create" /\ Statement(t).row = tags
        /\ \E j \in Past(t) : Prog(t)[j].do = "save loaded" /\ Prog(t)[j].row = resource
        /\ \A j \in Past(t) : \/ Reads(Prog(t)[j])
                              \/ Prog(t)[j].do = "save loaded" /\ Prog(t)[j].row = resource
                              \/ Prog(t)[j].do = "delete" /\ Prog(t)[j].rows = {tags}
    <2>1. TagsLast(Prog(t), at[t], resource, tags)
      BY <1>1, UpdateResourceBegun DEF Prog
    <2> HIDE DEF tags, resource
    <2> QED
      BY <1>1, <2>1 DEF TagsLast
  <1> HIDE DEF tags, resource
  <1>4. resource \in DOMAIN pending[t]
    BY <1>3 DEF AllTraced, Traced, Reached, Done
  <1>5. ASSUME NEW row \in DOMAIN pending[t] PROVE row \in {resource, tags}
    <2>1. PICK j \in Past(t) : Reaches(Prog(t)[j], row)
      BY HeldRows
    <2>2. \/ Prog(t)[j].do = "save loaded" /\ Prog(t)[j].row = resource
          \/ Prog(t)[j].do = "delete" /\ Prog(t)[j].rows = {tags}
      BY <1>3, <2>1 DEF Reaches, Reads
    <2> QED
      BY <1>2, <2>1, <2>2, DeletesOne DEF Reaches
  <1> QED
    BY <1>3, <1>4, <1>5 DEF AtTags, tags, resource

LEMMA DeleteUserInCycle ==
    ASSUME GormInv, AllTraced, NEW t \in Sessions, InCycle(t), op[t].kind = "DeleteUser"
    PROVE  AtDelete(t)
  <1>1. /\ Open(t) /\ ~AtEnd(t) /\ WaitsFor(t) # {}
        /\ at[t] \in 1..Len(Prog(t)) /\ Len(Prog(t)) \in Nat
        /\ Prog(t)[at[t]] = Statement(t) /\ Past(t) = 1..(at[t] - 1)
    BY AtStatement DEF InCycle, Prog, Past, Statement
  <1>2. \A i \in 1..Len(Prog(t)) :
            \/ Reads(Prog(t)[i])
            \/ /\ Prog(t)[i].do = "delete"
               /\ \A row : Reaches(Prog(t)[i], row) => Belongs(row, op[t].user)
    BY DeleteUserStatements DEF Prog
  <1>3. Past(t) \subseteq 1..Len(Prog(t))
    BY <1>1
  <1>4. ~Reads(Statement(t))
    BY <1>1, WaitKinds DEF Reads
  <1>5. \A row \in DOMAIN pending[t] : Belongs(row, op[t].user)
    BY <1>2, <1>3, HeldRows DEF Reads, Reaches
  <1>6. shared[t] = {}
    BY <1>2, <1>3, HeldRows DEF Reads, Puts
  <1> QED
    BY <1>1, <1>2, <1>4, <1>5, <1>6 DEF AtDelete

LEMMA CyclePlaces ==
    ASSUME GormInv, AllTraced, NEW t \in Sessions, InCycle(t)
    PROVE  AtRow(t) \/ AtNamespace(t) \/ AtTags(t) \/ AtDelete(t)
  <1>1. /\ Open(t) /\ ~AtEnd(t) /\ Busy(t) /\ WaitsFor(t) # {} /\ op[t] \in Operations
        /\ at[t] \in 1..Len(Prog(t)) /\ Begun(Prog(t), at[t])
    BY AtStatement, BusyBegun DEF InCycle, Prog
  <1>2. ~Inserting(Prog(t), at[t])
    BY <1>1, InsertingWaitsForNobody
  <1>3. op[t].kind \notin SingleKinds /\ op[t].kind # "CreateNamespace"
    BY <1>1, <1>2, SingleBegun, CreateNamespaceBegun DEF Prog
  <1>4. CASE op[t] \in AccountOps
    <2>1. op[t].kind = "DeleteUser"
      BY <1>3, <1>4, AccountFields DEF AccountKinds, SingleKinds
    <2> QED
      BY <2>1, DeleteUserInCycle
  <1>5. CASE op[t] \in NamespaceOps
    <2>1. op[t].kind = "UpdateNamespace"
      BY <1>3, <1>5, NamespaceFields DEF NamespaceKinds, SingleKinds
    <2> QED
      BY <2>1, UpdateNamespaceInCycle
  <1>6. CASE op[t] \in ResourceOps
    <2>1. op[t].kind # "CreateResource"
      BY <1>1, <1>2, <1>6, CreateResourceBegun DEF Prog
    <2>2. op[t].kind \in {"BatchCreateResources", "UpdateResource"}
      BY <1>6, <2>1, ResourceFields DEF ResourceKinds
    <2> QED
      BY <1>6, <2>2, BatchInCycle, UpdateResourceInCycle
  <1> QED
    BY <1>1, <1>4, <1>5, <1>6 DEF Operations

\* A DELETE that waits meets a row that it reaches.
LEMMA DeleteMeets ==
    ASSUME GormInv, AllTraced, NEW t \in Sessions, NEW s \in WaitsFor(t),
           NEW st, st = Statement(t), st.do = "delete"
    PROVE  \E row : Reaches(st, row) /\ (row \in DOMAIN pending[s] \/ row \in shared[s])
  <1>1. Open(t) /\ ~AtEnd(t)
    BY Waiting
  <1>2. PICK row \in Targets(t) \cup Cascade(t, Targets(t)) :
            row \in DOMAIN pending[s] \/ row \in shared[s]
    BY Waiting
  <1>3. Targets(t) \subseteq st.rows
    BY DEF Targets, AllTraced, Traced, Scanning
  <1>4. Reaches(st, row)
    <2>1. CASE row \in Targets(t)
      BY <1>3, <2>1 DEF Reaches
    <2>2. CASE row \in Cascade(t, Targets(t))
      BY <1>1, <1>3, <2>2, CascadeReached
    <2> QED
      BY <1>2, <2>1, <2>2
  <1> QED
    BY <1>2, <1>4

\* A resource is saved before its tags are touched, so that two updates of it
\* meet at its row, not at its tags.
LEMMA TagsAreFree ==
    ASSUME GormInv, AllTraced, NEW t \in Sessions, AtTags(t), NEW s \in WaitsFor(t),
           s \in Sessions, InCycle(s)
    PROVE  FALSE
  <1> DEFINE tags == ResourceTagRow(op[t].ns, op[t].pid)
             resource == ResourceRow(op[t].ns, op[t].pid)
  <1>1. PICK st : st = Statement(t)
    OBVIOUS
  <1>2. /\ resource \in DOMAIN pending[t]
        /\ \/ st.do = "delete" /\ st.rows = {tags}
           \/ st.do = "create" /\ st.row = tags
    BY <1>1 DEF AtTags
  <1>3. /\ tags[1] = "resource_tags" /\ tags[2] = op[t].ns /\ tags[3] = op[t].pid
        /\ \A v : Parents(tags, v) = {resource}
    BY RowTables, ParentsOf
  <1>a. s # t
    BY <1>1, Waiting
  <1>4. resource \notin DOMAIN pending[s]
    BY <1>2, <1>a DEF GormInv, Locks
  <1>5. tags \in DOMAIN pending[s]
    <2> HIDE DEF tags, resource
    <2>1. CASE st.do = "create" /\ st.row = tags
      BY <1>1, <1>3, <1>4, <2>1, Waiting DEF Puts
    <2>2. CASE st.do = "delete" /\ st.rows = {tags}
      <3>1. PICK row : Reaches(st, row) /\ (row \in DOMAIN pending[s] \/ row \in shared[s])
        BY <1>1, <2>2, DeleteMeets
      <3>2. row = tags
        BY <1>3, <2>2, <3>1, DeletesOne
      <3>3. tags \notin shared[s]
        BY <1>3 DEF GormInv, Typed, ParentRows, IsParent
      <3> QED
        BY <3>1, <3>2, <3>3
    <2> QED
      BY <1>2, <2>1, <2>2
  <1>6. ~AtRow(s) /\ ~AtNamespace(s) /\ ~AtDelete(s)
    BY <1>3, <1>5 DEF AtRow, AtNamespace, AtDelete, Belongs
  <1>7. AtTags(s)
    BY <1>6, CyclePlaces
  <1>8. resource = ResourceRow(op[s].ns, op[s].pid)
    <2>1. tags = ResourceTagRow(op[s].ns, op[s].pid)
      <3>1. tags \in {ResourceRow(op[s].ns, op[s].pid), ResourceTagRow(op[s].ns, op[s].pid)}
        BY <1>5, <1>7 DEF AtTags
      <3> QED
        BY <1>3, <3>1, RowTables
    <2>2. op[s].ns = op[t].ns /\ op[s].pid = op[t].pid
      BY <1>3, <2>1, RowTables
    <2> QED
      BY <2>2
  <1> QED
    BY <1>4, <1>7, <1>8 DEF AtTags

LEMMA NamespaceIsFree ==
    ASSUME GormInv, AllTraced, NEW t \in Sessions, AtNamespace(t), NEW s \in WaitsFor(t),
           s \in Sessions, InCycle(s), ~AtTags(s)
    PROVE  FALSE
  <1>1. PICK st : st = Statement(t)
    OBVIOUS
  <1>2. st.do = "save loaded" /\ st.row[1] = "namespaces"
    <2>1. st.do = "save loaded" /\ st.row = NamespaceRow(op[t].ns)
      BY <1>1 DEF AtNamespace
    <2>2. NamespaceRow(op[t].ns)[1] = "namespaces"
      BY RowTables
    <2> QED
      BY <2>1, <2>2
  <1>3. st.row \in DOMAIN pending[s]
    BY <1>1, <1>2, Waiting
  <1>4. ~AtRow(s) /\ ~AtNamespace(s) /\ ~AtDelete(s)
    BY <1>2, <1>3 DEF AtRow, AtNamespace, AtDelete, Belongs
  <1> QED
    BY <1>4, CyclePlaces

LEMMA BatchesMeet ==
    ASSUME GormInv, AllTraced, NEW t \in Sessions, AtRow(t), NEW s \in WaitsFor(t),
           s \in Sessions, InCycle(s), ~AtTags(s)
    PROVE  Rivals(s, t)
  <1>1. PICK st : st = Statement(t)
    OBVIOUS
  <1>2. st.do = "create" /\ st.row[1] = "resources" /\ st.row[2] = op[t].ns
    BY <1>1 DEF AtRow
  <1>3. st.row \in DOMAIN pending[s]
    <2>1. Parents(st.row, st.value) = {NamespaceRow(st.row[2])}
      BY <1>2, ParentsOf
    <2>2. Lasting(NamespaceRow(st.row[2]))
      BY RowTables DEF Lasting
    <2> QED
      BY <1>1, <1>2, <2>1, <2>2, Waiting DEF Puts, GormInv, Typed
  <1>4. ~AtNamespace(s) /\ ~AtDelete(s)
    BY <1>2, <1>3 DEF AtNamespace, AtDelete, Belongs
  <1>5. AtRow(s)
    BY <1>4, CyclePlaces
  <1> QED
    BY <1>2, <1>3, <1>5 DEF AtRow, Rivals

LEMMA DeletionsMeet ==
    ASSUME GormInv, AllTraced, NEW t \in Sessions, AtDelete(t), InCycle(t), NEW s \in WaitsFor(t),
           s \in Sessions, InCycle(s), ~AtTags(s)
    PROVE  Rivals(s, t)
  <1>1. PICK st : st = Statement(t)
    OBVIOUS
  <1>2. PICK row : Reaches(st, row) /\ (row \in DOMAIN pending[s] \/ row \in shared[s])
    BY <1>1, DeleteMeets DEF AtDelete
  <1>3. Belongs(row, op[t].user)
    BY <1>1, <1>2 DEF AtDelete
  <1>4. ~AtRow(s) /\ ~AtNamespace(s)
    BY <1>2, <1>3 DEF AtRow, AtNamespace, Belongs
  <1>5. AtDelete(s)
    BY <1>4, CyclePlaces
  <1>6. Belongs(row, op[s].user)
    BY <1>2, <1>5 DEF AtDelete
  <1>7. op[s].user = op[t].user /\ op[s].kind = "DeleteUser" /\ op[t].kind = "DeleteUser"
    BY <1>3, <1>5, <1>6 DEF Belongs, AtDelete
  <1>8. ASSUME NEW r \in Sessions, InCycle(r), op[r].kind = "DeleteUser"
        PROVE  op[r] \in [kind : {"DeleteUser"}, user : Usernames]
    <2>1. op[r] \in Operations
      BY <1>8, AtStatement DEF InCycle
    <2>2. op[r] \in AccountOps
      BY <1>8, <2>1, NamespaceFields, ResourceFields DEF Operations, NamespaceKinds, ResourceKinds
    <2> QED
      BY <1>8, <2>2 DEF AccountOps
  <1>9. op[s] = op[t]
    <2>1. \A x, y \in [kind : {"DeleteUser"}, user : Usernames] : x.user = y.user => x = y
      OBVIOUS
    <2> QED
      BY <1>7, <1>8, <2>1
  <1> QED
    BY <1>7, <1>9 DEF Rivals

-----------------------------------------------------------------------------
(* Types, owners, PIDs and deadlocks *)

\* Rows, locks and the positions of all connections have their types, for any
\* number of concurrent transactions of the gorm backend.
THEOREM GormTypeCorrect == GormSpec => []GormTypeOK
  <1>1. GormInv => GormTypeOK
    <2> SUFFICES ASSUME GormInv PROVE GormTypeOK
      OBVIOUS
    <2>1. \A u \in Usernames : db[UserRow(u)] \in Optional(UserValue)
      BY RowNames, RowTables DEF GormInv, Typed, ValueOK
    <2>2. \A n \in NamespaceIDs, p \in PIDs :
              db[ResourceRow(n, p)] # None => db[ResourceRow(n, p)].deleted \in BOOLEAN
      <3> TAKE n \in NamespaceIDs, p \in PIDs
      <3>1. db[ResourceRow(n, p)] \in Optional(ResourceValue)
        BY RowNames, RowTables DEF GormInv, Typed, ValueOK
      <3> QED
        BY <3>1 DEF Optional, ResourceValue
    <2>3. op \in [Sessions -> Optional(Operations)]
      BY DEF GormInv, Placed, PlacedAt, PerSession
    <2>4. \A t \in Sessions :
              /\ Open(t) => at[t] \in 1..(Len(Program(op[t])) + 1)
              /\ DOMAIN pending[t] \subseteq Rows /\ shared[t] \subseteq Rows
              /\ scan[t] \in Optional(SUBSET Rows)
      BY DEF GormInv, Placed, PlacedAt, Typed, ParentRows, Optional
    <2>5. \A t \in Sessions : overlapped[t] \in BOOLEAN
      BY DEF GormInv, Placed
    <2> QED
      BY <2>1, <2>2, <2>3, <2>4, <2>5 DEF GormTypeOK, GormInv, Typed, Placed
  <1> QED
    BY <1>1, GormInvariant, PTL

\* Who is not stored has no password and no keys, and so on: the owners of
\* the committed rows.
LEMMA Owners ==
    ASSUME GormInv
    PROVE  RowsHaveOwners
  <1> DEFINE Holds(row) == \A p \in Parents(row, db[row]) : db[row] # None => db[p] # None
  <1>1. \A row \in Rows : Holds(row)
    BY DEF GormInv, Owned
  <1>2. ASSUME NEW u \in Usernames, db[UserRow(u)] = None
        PROVE  db[PasswordRow(u)] = None /\ \A k \in KeyIDs : db[KeyRow(u, k)] = None
    <2>1. Holds(PasswordRow(u)) /\ \A k \in KeyIDs : Holds(KeyRow(u, k))
      BY <1>1, RowNames
    <2> QED
      BY <1>2, <2>1, RowTables, ParentsOf DEF OfUser
  <1>3. ASSUME NEW n \in NamespaceIDs, db[NamespaceRow(n)] = None
        PROVE  /\ db[NamespaceTagRow(n)] = None
               /\ \A u \in Usernames : db[RoleRow(n, u)] = None
               /\ \A p \in PIDs : db[ResourceRow(n, p)] = None
    <2>1. /\ Holds(NamespaceTagRow(n)) /\ \A u \in Usernames : Holds(RoleRow(n, u))
          /\ \A p \in PIDs : Holds(ResourceRow(n, p))
      BY <1>1, RowNames
    <2> QED
      BY <1>3, <2>1, RowTables, ParentsOf
  <1>4. ASSUME NEW n \in NamespaceIDs, db[NamespaceRow(n)] = None, NEW b \in BaseURIs
        PROVE  db[MountRow(b)] # n
    <2>1. Holds(MountRow(b))
      BY <1>1, RowNames
    <2> QED
      BY <1>4, <2>1, RowTables, ParentsOf, GormAssumption
  <1>5. ASSUME NEW n \in NamespaceIDs, NEW p \in PIDs, db[ResourceRow(n, p)] = None
        PROVE  db[ResourceTagRow(n, p)] = None
    <2>1. Holds(ResourceTagRow(n, p))
      BY <1>1, RowNames
    <2> QED
      BY <1>5, <2>1, RowTables, ParentsOf
  <1> QED
    BY <1>2, <1>3, <1>4, <1>5 DEF RowsHaveOwners, KeysOf

\* However the statements of any number of transactions interleave, fail and
\* are rolled back, no password, key, role, tag, resource or mount is stored
\* without the row it belongs to.
THEOREM NoOrphans == GormSpec => []RowsHaveOwners
  BY Owners, GormInvariant, PTL

\* Only a commit changes what is stored, and it keeps the lasting rows.
LEMMA LastingRows ==
    ASSUME GormInv, [GormNext]_gormVars, NEW row \in Rows, Lasting(row), db[row] # None
    PROVE  db'[row] # None /\ Kept(row, db[row], db'[row])
  <1>1. CASE db' = db
    BY <1>1, KeptRefl
  <1>2. ASSUME NEW t \in Sessions, Commit(t)
        PROVE  db'[row] # None /\ Kept(row, db[row], db'[row])
    <2>1. db'[row] = IF row \in DOMAIN pending[t] THEN pending[t][row].to ELSE db[row]
      BY <1>2 DEF Commit
    <2>2. CASE row \in DOMAIN pending[t]
      BY <2>1, <2>2 DEF GormInv, Typed
    <2>3. CASE row \notin DOMAIN pending[t]
      BY <2>1, <2>3, KeptRefl
    <2> QED
      BY <2>2, <2>3
  <1>3. ASSUME NEW t \in Sessions, Execute(t), ~Commit(t) PROVE db' = db
    BY <1>3 DEF Execute, ExecEnsure, ExecFirst, ExecCreate, Insert, ExecSave, ExecSaveLoaded,
                ExecUpdate, ScanDelete, ExecDelete, Rollback, Read, Write, Advance
  <1>4. ASSUME NEW t \in Sessions, Fails(t) \/ \E o \in Operations : Begin(t, o) PROVE db' = db
    BY <1>4 DEF Fails, Rollback, Begin
  <1>5. CASE UNCHANGED gormVars
    BY <1>1, <1>5 DEF gormVars
  <1> QED
    BY <1>1, <1>2, <1>3, <1>4, <1>5 DEF GormNext

\* No transaction, however interleaved with others and although it saves rows
\* it read earlier, takes a PID back or changes a date of creation or a format.
THEOREM StoredPIDsArePermanent == GormSpec => StoredPIDsStay
  <1>1. ASSUME GormInv, GormInv', [GormNext]_gormVars PROVE Contract!KeepsPIDs
    <2>1. ASSUME NEW n \in NamespaceIDs, NEW p \in PIDs, db[ResourceRow(n, p)] # None
          PROVE  /\ db'[ResourceRow(n, p)] # None
                 /\ db'[ResourceRow(n, p)].dateCreated = db[ResourceRow(n, p)].dateCreated
      BY <1>1, <2>1, LastingRows, RowNames, Tables DEF Kept
    <2>2. ASSUME NEW n \in NamespaceIDs, db[NamespaceRow(n)] # None
          PROVE  /\ db'[NamespaceRow(n)] # None
                 /\ db'[NamespaceRow(n)].dateCreated = db[NamespaceRow(n)].dateCreated
                 /\ db'[NamespaceRow(n)].pidFormat = db[NamespaceRow(n)].pidFormat
      BY <1>1, <2>2, LastingRows, RowNames, Tables, RowTables DEF Kept
    <2>3. ASSUME NEW n \in NamespaceIDs, db'[NamespaceRow(n)] # None
          PROVE  StoredNamespaces'[n] \in Contract!NamespaceRecord
      <3>1. db'[NamespaceRow(n)] \in NamespaceValue
        BY <1>1, <2>3, RowNames, RowTables DEF GormInv, Typed, ValueOK, Optional
      <3>2. db'[NamespaceTagRow(n)] \in Optional(Contents)
        BY <1>1, RowNames, RowTables DEF GormInv, Typed, ValueOK
      <3> QED
        BY <2>3, <3>1, <3>2, GormAssumption
           DEF StoredNamespaces, NamespaceValue, Optional, Contract!NamespaceRecord
    <2>4. \A n \in NamespaceIDs : StoredNamespaces[n] # None =>
              /\ StoredNamespaces'[n] # None
              /\ StoredNamespaces'[n].pidFormat = StoredNamespaces[n].pidFormat
              /\ StoredNamespaces'[n].dateCreated = StoredNamespaces[n].dateCreated
      BY <2>2, <2>3, NoneIsNoRecord DEF StoredNamespaces
    <2> QED
      BY <2>1, <2>4 DEF Contract!KeepsPIDs, Contract!NamespaceExists
  <1> QED
    BY <1>1, GormInvariant, PTL DEF GormSpec, StoredPIDsStay

\* Transactions of the gorm backend wait for each other in a cycle only when
\* they are batches in one namespace or deletions of one user, for any number
\* of connections and whatever else runs: everything else locks its rows in
\* one order.
THEOREM DeadlocksAreRivals == GormSpec => []OnlyRivalsDeadlock
  <1>1. GormInv /\ AllTraced => OnlyRivalsDeadlock
    <2> SUFFICES ASSUME GormInv, AllTraced, NEW C \in SUBSET Sessions, Deadlock(C)
                 PROVE  \A t \in C : \A s \in C \cap WaitsFor(t) : Rivals(s, t)
      BY DEF OnlyRivalsDeadlock
    <2>1. ASSUME NEW t \in C PROVE InCycle(t)
      <3>1. WaitsFor(t) # {} /\ \E s \in C : t \in WaitsFor(s)
        BY DEF Deadlock
      <3>2. Open(t) /\ ~AtEnd(t)
        BY <3>1, Waiting
      <3>3. Busy(t)
        BY <3>1, Waiting
      <3> QED
        BY <3>1, <3>2, <3>3 DEF InCycle
    <2>2. ASSUME NEW t \in C PROVE ~AtTags(t)
      <3>1. PICK s : s \in C /\ s \in WaitsFor(t)
        BY DEF Deadlock
      <3> QED
        BY <2>1, <3>1, TagsAreFree
    <2>3. ASSUME NEW t \in C PROVE ~AtNamespace(t)
      <3>1. PICK s : s \in C /\ s \in WaitsFor(t)
        BY DEF Deadlock
      <3> QED
        BY <2>1, <2>2, <3>1, NamespaceIsFree
    <2>4. ASSUME NEW t \in C, NEW s \in C \cap WaitsFor(t) PROVE Rivals(s, t)
      <3>1. InCycle(t) /\ InCycle(s) /\ ~AtTags(s) /\ ~AtTags(t) /\ ~AtNamespace(t)
        BY <2>1, <2>2, <2>3
      <3>2. AtRow(t) \/ AtDelete(t)
        BY <3>1, CyclePlaces
      <3> QED
        BY <3>1, <3>2, BatchesMeet, DeletionsMeet
    <2> QED
      BY <2>4
  <1> QED
    BY <1>1, TraceInvariant, PTL

-----------------------------------------------------------------------------
(* What a transaction knows of the committed rows *)

\* What transaction t has found with statement st still holds: of a lasting
\* row always, and of any row while nobody else has committed.
Current(t, st) ==
    /\ Reads(st) /\ (Lasting(st.row) \/ ~overlapped[t]) => db[st.row] # None
    /\ st.do = "save loaded" => pending[t][st.row].to = With(loaded[t], st.set)
    /\ ~overlapped[t] =>
           /\ st.do = "first" /\ Anchored(op[t]) => loaded[t] = db[Anchor(op[t])]
           /\ st.do = "update" /\ db[st.row] # None =>
                  /\ st.row \in DOMAIN pending[t]
                  /\ pending[t][st.row].to = With(db[st.row], st.set)
           /\ st.do = "delete" => \A row \in st.rows : db[row] # None => row \in DOMAIN pending[t]

\* The same of all it has executed, and of the rows a waiting DELETE has chosen.
Sound(t) ==
    /\ \A j \in Past(t) : Current(t, Prog(t)[j])
    /\ ~overlapped[t] /\ scan[t] # None =>
           \A row \in Statement(t).rows : View(t, row) # None => row \in scan[t]

AllSound == \A t \in Sessions : Sound(t)

LEMMA SoundAtStart ==
    ASSUME NEW t, at'[t] = 1, scan'[t] = None
    PROVE  Sound(t)'
  <1>1. Past(t)' = {}
    BY DEF Past
  <1> QED
    BY <1>1 DEF Sound

\* The statements that a transaction has executed are of its program.
LEMMA PastOK ==
    ASSUME GormInv, NEW t \in Sessions, NEW j \in Past(t)
    PROVE  /\ Open(t) /\ op[t] \in Operations /\ StatementOK(op[t], Prog(t)[j])
           /\ j \in 1..Len(Prog(t))
  <1>1. PlacedAt(t)
    BY DEF GormInv, Placed
  <1>2. Open(t)
    BY <1>1 DEF PlacedAt, Past
  <1>3. op[t] \in Operations /\ at[t] \in 1..(Len(Program(op[t])) + 1)
    BY <1>1, <1>2 DEF PlacedAt, Open, Optional
  <1>4. Len(Program(op[t])) \in Nat
    BY <1>3, Programs
  <1>5. j \in 1..Len(Prog(t))
    BY <1>3, <1>4 DEF Past, Prog
  <1> QED
    BY <1>2, <1>3, <1>5, Programs DEF Prog

\* Others end without a change: what t knows holds.
LEMMA SoundStays ==
    ASSUME GormInv, NEW t \in Sessions, Traced(t), Sound(t), op'[t] = op[t], at'[t] = at[t],
           pending'[t] = pending[t], loaded'[t] = loaded[t], overlapped'[t] = overlapped[t],
           scan'[t] = scan[t], \A row \in Rows : db'[row] = db[row]
    PROVE  Sound(t)'
  <1>1. Prog(t)' = Prog(t) /\ Past(t)' = Past(t) /\ Statement(t)' = Statement(t)
    BY DEF Prog, Past, Statement
  <1>2. ASSUME NEW j \in Past(t) PROVE Current(t, Prog(t)[j])'
    <2> DEFINE st == Prog(t)[j]
    <2>1. Current(t, st) /\ StatementOK(op[t], st)
      BY PastOK DEF Sound
    <2>2. Reads(st) \/ st.do = "update" => st.row \in Rows
      BY <2>1 DEF StatementOK, Reads
    <2>3. st.do = "delete" => st.rows \subseteq Rows
      BY <2>1 DEF StatementOK
    <2>4. st.do = "first" /\ Anchored(op[t]) => Anchor(op[t]) \in Rows
      BY <2>1 DEF StatementOK
    <2>5. st' = st
      BY <1>1
    <2> HIDE DEF st
    <2>6. Current(t, st)'
      BY <2>1, <2>2, <2>3, <2>4, <2>5 DEF Current
    <2> QED
      BY <2>6 DEF st
  <1>3. ASSUME ~overlapped[t], scan[t] # None, NEW row \in Statement(t).rows, View(t, row)' # None
        PROVE  row \in scan[t]
    <2>1. StatementOK(op[t], Statement(t)) /\ Statement(t).do = "delete"
      BY <1>3, AtStatement DEF Traced, Scanning
    <2>2. row \in Rows
      BY <1>3, <2>1 DEF StatementOK
    <2>3. View(t, row) # None
      BY <1>3, <2>2 DEF View
    <2> QED
      BY <1>3, <2>3 DEF Sound
  <1> QED
    BY <1>1, <1>2, <1>3 DEF Sound

\* Others commit: what t knows of lasting rows holds.
LEMMA SoundOverlapped ==
    ASSUME GormInv, NEW t \in Sessions, Sound(t), op'[t] = op[t], at'[t] = at[t],
           pending'[t] = pending[t], loaded'[t] = loaded[t], overlapped'[t],
           \A row \in Rows : Lasting(row) /\ db[row] # None => db'[row] # None
    PROVE  Sound(t)'
  <1>1. Prog(t)' = Prog(t) /\ Past(t)' = Past(t)
    BY DEF Prog, Past
  <1>2. ASSUME NEW j \in Past(t) PROVE Current(t, Prog(t)[j])'
    <2> DEFINE st == Prog(t)[j]
    <2>1. Current(t, st) /\ StatementOK(op[t], st)
      BY PastOK DEF Sound
    <2>2. Reads(st) => st.row \in Rows
      BY <2>1 DEF StatementOK, Reads
    <2>3. st' = st
      BY <1>1
    <2> HIDE DEF st
    <2>4. Current(t, st)'
      BY <2>1, <2>2, <2>3 DEF Current
    <2> QED
      BY <2>4 DEF st
  <1> QED
    BY <1>1, <1>2 DEF Sound

\* An operation that has only read has written nothing.
LEMMA NothingYet ==
    ASSUME GormInv, NEW t \in Sessions, Traced(t), Open(t), ~AtEnd(t),
           Reads(Statement(t)) \/ Statement(t).do = "update"
    PROVE  /\ \A j \in Past(t) : Reads(Prog(t)[j])
           /\ DOMAIN pending[t] = {} /\ \A row : View(t, row) = db[row]
  <1>1. op[t] \in Operations /\ at[t] \in 1..Len(Program(op[t])) /\ Len(Program(op[t])) \in Nat
    BY AtStatement
  <1>2. InOrder(Program(op[t]))
    BY <1>1, ProgramsInOrder
  <1>3. \A j \in Past(t) : Precedes(Prog(t)[j], Statement(t))
    BY <1>1, <1>2 DEF InOrder, Prog, Statement, Past
  <1>4. \A j \in Past(t) : Reads(Prog(t)[j])
    BY <1>3 DEF Precedes
  <1>5. DOMAIN pending[t] = {}
    BY <1>4 DEF Traced, Reached, Reaches, Reads
  <1> QED
    BY <1>4, <1>5 DEF View

\* A statement that writes nothing.
LEMMA SoundRead ==
    ASSUME GormInv, NEW t \in Sessions, Traced(t), Sound(t), Open(t), ~AtEnd(t),
           NEW st, st = Statement(t), st.do \in {"ensure", "first", "update"},
           st.do = "update" <=> View(t, st.row) = None,
           db' = db, op'[t] = op[t], at'[t] = at[t] + 1, pending'[t] = pending[t],
           scan'[t] = scan[t], overlapped'[t] = overlapped[t],
           loaded'[t] = IF st.do = "first" THEN View(t, st.row) ELSE loaded[t]
    PROVE  Sound(t)'
  <1>1. /\ \A j \in Past(t) : Reads(Prog(t)[j])
        /\ DOMAIN pending[t] = {} /\ \A row : View(t, row) = db[row]
    BY NothingYet DEF Reads
  <1>2. /\ Prog(t)' = Prog(t) /\ Prog(t)[at[t]] = st
        /\ Past(t)' = Past(t) \cup {at[t]}
    BY PastGrows
  <1>3. StatementOK(op[t], st)
    BY AtStatement
  <1>4. st.do = "first" /\ Anchored(op[t]) => loaded'[t] = db[Anchor(op[t])]
    BY <1>1, <1>3 DEF StatementOK
  <1>5. Current(t, st)'
    BY <1>1, <1>4 DEF Current, Reads
  <1>6. ASSUME NEW a, Current(t, a), Reads(a) PROVE Current(t, a)'
    BY <1>4, <1>6 DEF Current, Reads
  <1>7. scan'[t] = None
    BY DEF Traced, Scanning
  <1>8. \A j \in Past(t)' : Current(t, Prog(t)[j])'
    <2>1. \A a : a = st => Current(t, a)'
      BY <1>5
    <2> QED
      BY <1>1, <1>2, <1>6, <2>1 DEF Sound
  <1> QED
    BY <1>7, <1>8 DEF Sound

\* A statement that writes.
LEMMA SoundWrite ==
    ASSUME GormInv, NEW t \in Sessions, Traced(t), Sound(t), Open(t), ~AtEnd(t),
           NEW st, st = Statement(t), NEW ch, ~Reads(st),
           \A row \in DOMAIN ch : Reaches(st, row),
           st.do = "save loaded" => st.row \in DOMAIN ch /\ ch[st.row].to = With(loaded[t], st.set),
           st.do = "update" =>
               st.row \in DOMAIN ch /\ ch[st.row].to = With(View(t, st.row), st.set),
           st.do = "delete" => Targets(t) \subseteq DOMAIN ch /\ scan'[t] = None,
           db' = db, op'[t] = op[t], at'[t] = at[t] + 1, pending'[t] = Merged(t, ch),
           scan'[t] = scan[t] \/ scan'[t] = None, overlapped'[t] = overlapped[t],
           loaded'[t] = loaded[t]
    PROVE  Sound(t)'
  <1>0. /\ DOMAIN pending'[t] = DOMAIN ch \cup DOMAIN pending[t]
        /\ \A row \in DOMAIN ch : pending'[t][row] = ch[row]
        /\ \A row \in DOMAIN pending[t] : row \notin DOMAIN ch => pending'[t][row] = pending[t][row]
    BY DEF Merged
  <1>1. /\ Prog(t)' = Prog(t) /\ Prog(t)[at[t]] = st
        /\ Past(t)' = Past(t) \cup {at[t]}
        /\ \A j \in Past(t) : Precedes(Prog(t)[j], st)
    BY PastGrows
  <1>2. scan'[t] = None
    BY DEF Traced, Scanning
  <1>3. ASSUME NEW j \in Past(t) PROVE Current(t, Prog(t)[j])'
    <2> DEFINE a == Prog(t)[j]
    <2>1. Current(t, a) /\ Precedes(a, st) /\ Done(t, a)
      BY <1>1 DEF Sound, Traced, Reached
    <2>2. a' = a
      BY <1>1
    <2> HIDE DEF a
    <2>3. a.do # "update"
      BY <2>1 DEF Precedes
    <2>4. ASSUME a.do = "save loaded" PROVE pending'[t][a.row].to = With(loaded[t], a.set)
      <3>1. a.row \in DOMAIN pending[t] /\ a.row \notin DOMAIN ch
        BY <2>1, <2>4 DEF Precedes, Done
      <3> QED
        BY <1>0, <2>1, <2>4, <3>1 DEF Current
    <2>5. Current(t, a)'
      BY <1>0, <2>1, <2>2, <2>3, <2>4 DEF Current
    <2> QED
      BY <2>5 DEF a
  <1>4. ASSUME st.do = "update" PROVE pending'[t][st.row].to = With(db[st.row], st.set)
    <2>1. View(t, st.row) = db[st.row]
      BY <1>4, NothingYet
    <2> QED
      BY <1>0, <1>4, <2>1
  <1>5. ASSUME st.do = "delete", ~overlapped[t], NEW row \in st.rows, db[row] # None
        PROVE  row \in DOMAIN pending'[t]
    <2>1. CASE row \in DOMAIN pending[t]
      BY <1>0, <2>1
    <2>2. CASE row \notin DOMAIN pending[t]
      <3>1. View(t, row) # None
        BY <1>5, <2>2 DEF View
      <3>2. row \in Targets(t)
        BY <1>5, <3>1 DEF Targets, Sound
      <3> QED
        BY <1>0, <1>5, <3>2
    <2> QED
      BY <2>1, <2>2
  <1>6. Current(t, st)'
    BY <1>0, <1>4, <1>5 DEF Current, Reads
  <1>7. \A j \in Past(t)' : Current(t, Prog(t)[j])'
    <2>1. \A a : a = st => Current(t, a)'
      BY <1>6
    <2> QED
      BY <1>1, <1>3, <2>1
  <1> QED
    BY <1>2, <1>7 DEF Sound

\* The other sessions know what they knew.
LEMMA SoundOthers ==
    ASSUME GormInv, AllTraced, AllSound, NEW t \in Sessions, Sound(t)', db' = db,
           \A s \in Sessions \ {t} :
               /\ op'[s] = op[s] /\ at'[s] = at[s] /\ pending'[s] = pending[s]
               /\ loaded'[s] = loaded[s] /\ overlapped'[s] = overlapped[s]
               /\ scan'[s] = scan[s]
    PROVE  AllSound'
  <1>1. ASSUME NEW s \in Sessions \ {t} PROVE Sound(s)'
    BY SoundStays DEF AllTraced, AllSound
  <1> QED
    BY <1>1 DEF AllSound

LEMMA RollbackSound ==
    ASSUME GormInv, AllTraced, AllSound, NEW t \in Sessions, NEW code, Rollback(t, code)
    PROVE  AllSound'
  <1> USE DEF GormInv, Placed, PerSession
  <1>1. at'[t] = 1 /\ scan'[t] = None /\ db' = db
    BY DEF Rollback, Forget
  <1>2. \A s \in Sessions \ {t} :
            /\ op'[s] = op[s] /\ at'[s] = at[s] /\ pending'[s] = pending[s]
            /\ loaded'[s] = loaded[s] /\ overlapped'[s] = overlapped[s]
            /\ scan'[s] = scan[s]
    BY DEF Rollback, Forget
  <1> HIDE DEF GormInv, Placed, PerSession
  <1> QED
    BY <1>1, <1>2, SoundAtStart, SoundOthers

LEMMA CommitSound ==
    ASSUME GormInv, AllTraced, AllSound, NEW t \in Sessions, Commit(t)
    PROVE  AllSound'
  <1> DEFINE new == pending[t]
             gone == {row \in DOMAIN new : new[row].to = None \/ new[row].created}
  <1>0. /\ Forget(t)
        /\ db' = [row \in Rows |-> IF row \in DOMAIN new THEN new[row].to ELSE db[row]]
        /\ scan' = [s \in Sessions |-> IF s = t \/ scan[s] = None THEN None ELSE scan[s] \ gone]
        /\ overlapped' = [s \in Sessions |->
                             overlapped[s] \/ (s # t /\ Open(s) /\ new # Nothing)]
    BY DEF Commit
  <1>1. at'[t] = 1 /\ scan'[t] = None
    BY <1>0 DEF Forget, GormInv, Placed, PerSession
  <1>2. Sound(t)'
    BY <1>1, SoundAtStart
  <1>3. ASSUME NEW s \in Sessions \ {t} PROVE Sound(s)'
    <2>1. /\ op'[s] = op[s] /\ at'[s] = at[s] /\ pending'[s] = pending[s]
          /\ loaded'[s] = loaded[s]
      BY <1>0 DEF Forget, GormInv, Placed, PerSession
    <2>2. Traced(s) /\ Sound(s)
      BY DEF AllTraced, AllSound
    <2>3. overlapped[s] \in BOOLEAN
      BY DEF GormInv, Placed
    <2>4. CASE ~Open(s)
      <3>1. at[s] = 1
        BY <2>4 DEF GormInv, Placed, PlacedAt
      <3>2. scan'[s] = None
        BY <1>0, <2>2, <2>4 DEF Traced, Scanning
      <3> QED
        BY <2>1, <3>1, <3>2, SoundAtStart
    <2>5. CASE Open(s) /\ new # Nothing
      <3>1. overlapped'[s]
        BY <1>0, <2>5
      <3>2. \A row \in Rows : Lasting(row) /\ db[row] # None => db'[row] # None
        BY <1>0 DEF GormInv, Typed
      <3> QED
        BY <2>1, <2>2, <3>1, <3>2, SoundOverlapped
    <2>6. CASE new = Nothing
      <3>1. DOMAIN new = {}
        BY <2>6, NothingWritten
      <3>2. \A row \in Rows : db'[row] = db[row]
        BY <1>0, <3>1
      <3>3. scan'[s] = scan[s]
        <4>1. gone = {}
          BY <3>1
        <4> HIDE DEF gone
        <4>2. scan[s] # None => scan'[s] = scan[s] \ {}
          BY <1>0, <4>1
        <4>3. CASE scan[s] # None
          <5>1. scan[s] \subseteq Rows
            BY <4>3 DEF GormInv, Placed, PlacedAt
          <5> QED
            BY <4>2, <4>3
        <4>4. CASE scan[s] = None
          BY <1>0, <4>4
        <4> QED
          BY <4>3, <4>4
      <3>4. overlapped'[s] = overlapped[s]
        BY <1>0, <2>3, <2>6
      <3> QED
        BY <2>1, <2>2, <3>2, <3>3, <3>4, SoundStays
    <2> QED
      BY <2>4, <2>5, <2>6
  <1> QED
    BY <1>2, <1>3 DEF AllSound

LEMMA BeginSound ==
    ASSUME GormInv, AllTraced, AllSound, NEW t \in Sessions, NEW o \in Operations, Begin(t, o)
    PROVE  AllSound'
  <1> USE DEF GormInv, Placed, PerSession
  <1>0. /\ ~Open(t) /\ op' = [op EXCEPT ![t] = o] /\ overlapped' = [overlapped EXCEPT ![t] = FALSE]
        /\ UNCHANGED <<db, at, pending, scan, loaded>>
    BY DEF Begin
  <1>1. at[t] = 1 /\ scan[t] = None
    BY <1>0 DEF PlacedAt, AllTraced, Traced, Scanning
  <1>2. Sound(t)'
    BY <1>0, <1>1, SoundAtStart
  <1>3. \A s \in Sessions \ {t} : op'[s] = op[s] /\ overlapped'[s] = overlapped[s]
    BY <1>0
  <1> HIDE DEF GormInv, Placed, PerSession
  <1> QED
    BY <1>0, <1>2, <1>3, SoundOthers

\* A step of t that only reads.
LEMMA ReadSound ==
    ASSUME GormInv, AllTraced, AllSound, NEW t \in Sessions, Open(t), ~AtEnd(t),
           NEW st, st = Statement(t), st.do \in {"ensure", "first", "update"},
           st.do = "update" <=> View(t, st.row) = None, Read(t),
           loaded' = IF st.do = "first" THEN [loaded EXCEPT ![t] = View(t, st.row)] ELSE loaded
    PROVE  AllSound'
  <1> USE DEF GormInv, Placed, PerSession
  <1>0. /\ at' = [at EXCEPT ![t] = at[t] + 1]
        /\ UNCHANGED <<db, op, pending, shared, scan, overlapped>>
    BY DEF Read, Advance
  <1>1. /\ at'[t] = at[t] + 1
        /\ loaded'[t] = (IF st.do = "first" THEN View(t, st.row) ELSE loaded[t])
        /\ \A s \in Sessions \ {t} : at'[s] = at[s] /\ loaded'[s] = loaded[s]
    BY <1>0
  <1> HIDE DEF GormInv, Placed, PerSession
  <1>2. Traced(t) /\ Sound(t)
    BY DEF AllTraced, AllSound
  <1>3. Sound(t)'
    BY <1>0, <1>1, <1>2, SoundRead
  <1> QED
    BY <1>0, <1>1, <1>3, SoundOthers

\* A step of t that writes.
LEMMA WriteSound ==
    ASSUME GormInv, AllTraced, AllSound, NEW t \in Sessions, Open(t), ~AtEnd(t),
           NEW st, st = Statement(t), NEW ch, ~Reads(st), Write(t, ch), loaded' = loaded,
           \A row \in DOMAIN ch : Reaches(st, row),
           st.do = "save loaded" => st.row \in DOMAIN ch /\ ch[st.row].to = With(loaded[t], st.set),
           st.do = "update" =>
               st.row \in DOMAIN ch /\ ch[st.row].to = With(View(t, st.row), st.set),
           st.do = "delete" => Targets(t) \subseteq DOMAIN ch /\ scan'[t] = None,
           scan'[t] = scan[t] \/ scan'[t] = None,
           \A s \in Sessions \ {t} : scan'[s] = scan[s]
    PROVE  AllSound'
  <1>0. /\ at' = [at EXCEPT ![t] = at[t] + 1] /\ db' = db /\ op' = op /\ overlapped' = overlapped
        /\ pending' = [pending EXCEPT ![t] = Merged(t, ch)]
    BY DEF Write, Merged, Advance, GormInv, Placed, PerSession
  <1>1. /\ at'[t] = at[t] + 1 /\ pending'[t] = Merged(t, ch)
        /\ \A s \in Sessions \ {t} : at'[s] = at[s] /\ pending'[s] = pending[s]
    BY <1>0 DEF GormInv, Placed, PerSession
  <1>2. Traced(t) /\ Sound(t)
    BY DEF AllTraced, AllSound
  <1>3. Sound(t)'
    BY <1>0, <1>1, <1>2, SoundWrite
  <1> QED
    BY <1>0, <1>1, <1>3, SoundOthers

\* INSERT and UPDATE of a new struct.
LEMMA PutSound ==
    ASSUME GormInv, AllTraced, AllSound, NEW t \in Sessions, ExecCreate(t) \/ ExecSave(t)
    PROVE  AllSound'
  <1>1. PICK st : st = Statement(t)
    OBVIOUS
  <1>2. Open(t) /\ ~AtEnd(t) /\ st.do \in {"create", "save"}
    BY <1>1 DEF ExecCreate, ExecSave, Ready
  <1>3. ASSUME NEW created \in BOOLEAN, Write(t, Put(st.row, st.value, created)),
               UNCHANGED <<scan, loaded>>
        PROVE  AllSound'
    <2> DEFINE ch == Put(st.row, st.value, created)
    <2>1. DOMAIN ch = {st.row}
      BY PutRow
    <2>2. Write(t, ch)
      BY <1>3
    <2> HIDE DEF ch
    <2>3. ~Reads(st) /\ \A row \in DOMAIN ch : Reaches(st, row)
      BY <1>2, <2>1 DEF Reads, Reaches
    <2> QED
      BY <1>1, <1>2, <1>3, <2>2, <2>3, WriteSound
  <1>4. \/ \E code : Rollback(t, code)
        \/ \E created \in BOOLEAN :
              Write(t, Put(st.row, st.value, created)) /\ UNCHANGED <<scan, loaded>>
    BY <1>1 DEF ExecCreate, ExecSave, Insert
  <1> QED
    BY <1>3, <1>4, RollbackSound

LEMMA UpdateSound ==
    ASSUME GormInv, AllTraced, AllSound, NEW t \in Sessions, ExecUpdate(t)
    PROVE  AllSound'
  <1>1. PICK st : st = Statement(t)
    OBVIOUS
  <1>2. Open(t) /\ ~AtEnd(t) /\ st.do = "update"
    BY <1>1 DEF ExecUpdate, Ready
  <1>3. CASE View(t, st.row) = None
    <2>1. Read(t) /\ loaded' = loaded
      BY <1>1, <1>3 DEF ExecUpdate
    <2> QED
      BY <1>1, <1>2, <1>3, <2>1, ReadSound
  <1>4. CASE View(t, st.row) # None
    <2> DEFINE v == With(View(t, st.row), st.set)
               ch == Put(st.row, v, FALSE)
    <2>1. Write(t, ch) /\ scan' = scan /\ loaded' = loaded
      BY <1>1, <1>4 DEF ExecUpdate
    <2>2. DOMAIN ch = {st.row} /\ ch[st.row].to = v
      BY PutRow
    <2> HIDE DEF ch
    <2>3. ~Reads(st) /\ \A row \in DOMAIN ch : Reaches(st, row)
      BY <1>2, <2>2 DEF Reads, Reaches
    <2> QED
      BY <1>1, <1>2, <2>1, <2>2, <2>3, WriteSound
  <1> QED
    BY <1>3, <1>4

LEMMA SaveLoadedSound ==
    ASSUME GormInv, AllTraced, AllSound, NEW t \in Sessions, ExecSaveLoaded(t)
    PROVE  AllSound'
  <1>1. PICK st : st = Statement(t)
    OBVIOUS
  <1>2. Open(t) /\ ~AtEnd(t) /\ st.do = "save loaded"
    BY <1>1 DEF ExecSaveLoaded, Ready
  <1> DEFINE v == With(loaded[t], st.set)
             ch == Put(st.row, v, FALSE)
  <1>3. Write(t, ch) /\ scan' = scan /\ loaded' = loaded
    BY <1>1 DEF ExecSaveLoaded, SaveLoadedValue
  <1>4. DOMAIN ch = {st.row} /\ ch[st.row].to = v
    BY PutRow
  <1> HIDE DEF ch
  <1>5. ~Reads(st) /\ \A row \in DOMAIN ch : Reaches(st, row)
    BY <1>2, <1>4 DEF Reads, Reaches
  <1> QED
    BY <1>1, <1>2, <1>3, <1>4, <1>5, WriteSound

LEMMA ScanSound ==
    ASSUME GormInv, AllTraced, AllSound, NEW t \in Sessions, ScanDelete(t)
    PROVE  AllSound'
  <1>1. /\ scan[t] = None /\ scan' = [scan EXCEPT ![t] = Targets(t)]
        /\ UNCHANGED <<db, op, at, pending, loaded, overlapped>>
    BY DEF ScanDelete
  <1>2. scan'[t] = Targets(t) /\ \A s \in Sessions \ {t} : scan'[s] = scan[s]
    BY <1>1 DEF GormInv, Placed, PerSession
  <1>3. Prog(t)' = Prog(t) /\ Past(t)' = Past(t) /\ Statement(t)' = Statement(t)
    BY <1>1 DEF Prog, Past, Statement
  <1>4. \A st : Current(t, st) => Current(t, st)'
    BY <1>1 DEF Current
  <1>5. \A j \in Past(t)' : Current(t, Prog(t)[j])'
    BY <1>3, <1>4 DEF AllSound, Sound
  <1>6. \A row \in Statement(t).rows : View(t, row)' # None => row \in scan'[t]
    BY <1>1, <1>2 DEF Targets, View
  <1>7. Sound(t)'
    BY <1>3, <1>5, <1>6 DEF Sound
  <1> QED
    BY <1>1, <1>2, <1>7, SoundOthers

LEMMA DeleteSound ==
    ASSUME GormInv, AllTraced, AllSound, NEW t \in Sessions, ExecDelete(t)
    PROVE  AllSound'
  <1>1. PICK st : st = Statement(t)
    OBVIOUS
  <1> DEFINE rows == Targets(t)
             all == rows \cup Cascade(t, rows)
             ch == [row \in all |-> [to |-> None, created |-> FALSE]]
  <1>2. Open(t) /\ ~AtEnd(t) /\ st.do = "delete"
    BY <1>1 DEF ExecDelete, Ready
  <1>3. CASE rows = {} /\ st.err # "nil"
    BY <1>1, <1>3, RollbackSound DEF ExecDelete
  <1>4. CASE ~(rows = {} /\ st.err # "nil")
    <2>1. Write(t, ch) /\ scan' = [scan EXCEPT ![t] = None] /\ loaded' = loaded
      BY <1>1, <1>4 DEF ExecDelete
    <2>2. rows \subseteq st.rows
      BY <1>1 DEF Targets, AllTraced, Traced, Scanning
    <2>3. \A row \in Cascade(t, rows) : Reaches(st, row)
      BY <1>1, <1>2, <2>2, CascadeReached
    <2>4. \A row \in all : Reaches(st, row)
      BY <1>2, <2>2, <2>3 DEF Reaches
    <2>5. DOMAIN ch = all /\ Targets(t) \subseteq DOMAIN ch
      OBVIOUS
    <2> HIDE DEF ch, all
    <2>6. scan'[t] = None /\ \A s \in Sessions \ {t} : scan'[s] = scan[s]
      BY <2>1 DEF GormInv, Placed, PerSession
    <2>7. ~Reads(st)
      BY <1>2 DEF Reads
    <2> QED
      BY <1>1, <1>2, <2>1, <2>4, <2>5, <2>6, <2>7, WriteSound
  <1> QED
    BY <1>3, <1>4

LEMMA SoundInitially == GormInit => AllSound
  <1> SUFFICES ASSUME GormInit, NEW t \in Sessions PROVE Sound(t)
    BY DEF AllSound
  <1> USE DEF GormInit, SessionsInit, IdleSessions
  <1>1. Past(t) = {} /\ scan[t] = None
    BY DEF Past
  <1> QED
    BY <1>1 DEF Sound

LEMMA SoundSteps ==
    GormInv /\ AllTraced /\ AllSound /\ [GormNext]_gormVars => AllSound'
  <1> SUFFICES ASSUME GormInv, AllTraced, AllSound, [GormNext]_gormVars PROVE AllSound'
    OBVIOUS
  <1>1. CASE UNCHANGED gormVars
    <2>1. UNCHANGED <<db, op, at, pending, scan, loaded, overlapped>>
      BY <1>1 DEF gormVars, sessionVars
    <2>2. ASSUME NEW t \in Sessions PROVE Sound(t)'
      BY <2>1, SoundStays DEF AllTraced, AllSound
    <2> QED
      BY <2>2 DEF AllSound
  <1>2. ASSUME NEW t \in Sessions, NEW o \in Operations, Begin(t, o) PROVE AllSound'
    BY <1>2, BeginSound
  <1>3. ASSUME NEW t \in Sessions, ExecEnsure(t) \/ ExecFirst(t) PROVE AllSound'
    <2>1. PICK st : st = Statement(t)
      OBVIOUS
    <2>2. Open(t) /\ ~AtEnd(t) /\ st.do \in {"ensure", "first"}
      BY <1>3, <2>1 DEF ExecEnsure, ExecFirst, Ready
    <2>3. CASE View(t, st.row) = None
      BY <1>3, <2>1, <2>3, RollbackSound DEF ExecEnsure, ExecFirst
    <2>4. CASE View(t, st.row) # None
      <3>1. /\ Read(t)
            /\ loaded' = IF st.do = "first" THEN [loaded EXCEPT ![t] = View(t, st.row)] ELSE loaded
        BY <1>3, <2>1, <2>4 DEF ExecEnsure, ExecFirst, Ready
      <3> QED
        BY <2>1, <2>2, <2>4, <3>1, ReadSound
    <2> QED
      BY <2>3, <2>4
  <1>4. ASSUME NEW t \in Sessions, Execute(t) PROVE AllSound'
    BY <1>3, <1>4, PutSound, SaveLoadedSound, UpdateSound, ScanSound, DeleteSound, CommitSound
       DEF Execute
  <1>5. ASSUME NEW t \in Sessions, Fails(t) PROVE AllSound'
    BY <1>5, RollbackSound DEF Fails
  <1> QED
    BY <1>1, <1>2, <1>4, <1>5 DEF GormNext

LEMMA SoundInvariant == GormSpec => [](GormInv /\ AllTraced /\ AllSound)
  <1>1. GormInit => GormInv /\ AllTraced /\ AllSound
    BY GormInitially, TracedInitially, SoundInitially
  <1>2. GormInv /\ AllTraced /\ AllSound /\ [GormNext]_gormVars
            => (GormInv /\ AllTraced /\ AllSound)'
    BY GormSteps, TracedSteps, SoundSteps
  <1> QED
    BY <1>1, <1>2, PTL DEF GormSpec

-----------------------------------------------------------------------------
(* What the committed rows are to the contract *)

\* A user or namespace of the contract is a row.
LEMMA StoredExists ==
    ASSUME GormInv
    PROVE  /\ \A u \in Usernames : Contract!UserExists(u) <=> db[UserRow(u)] # None
           /\ \A n \in NamespaceIDs : Contract!NamespaceExists(n) <=> db[NamespaceRow(n)] # None
  <1>1. ASSUME NEW u \in Usernames, db[UserRow(u)] # None
        PROVE  StoredUsers[u] \in Contract!UserRecord
    <2>1. db[UserRow(u)] \in UserValue /\ db[PasswordRow(u)] \in Optional(PasswordValue)
      BY <1>1, RowNames, RowTables DEF GormInv, Typed, ValueOK, Optional
    <2>2. \A k \in KeyIDs : db[KeyRow(u, k)] \in Optional(KeyValue)
      BY RowNames, RowTables DEF GormInv, Typed, ValueOK, Optional
    <2> DEFINE keys == [k \in KeyIDs |-> db[KeyRow(u, k)]]
    <2>3. keys \in [KeyIDs -> Optional(KeyValue)]
      BY <2>2
    <2>4. StoredUsers[u] = [superuser |-> db[UserRow(u)].superuser,
                            passwordHash |-> db[PasswordRow(u)], keys |-> keys]
      BY <1>1 DEF StoredUsers
    <2> HIDE DEF keys
    <2>5. db[UserRow(u)].superuser \in BOOLEAN
      BY <2>1 DEF UserValue
    <2>6. keys \in [KeyIDs -> Contract!Optional(Contract!KeyRecord)]
      BY <2>3, Zenon DEF Contract!Optional, Optional, Contract!KeyRecord, KeyValue
    <2>7. db[PasswordRow(u)] \in Contract!Optional([bcrypt : Passwords])
      BY <2>1, Zenon DEF Contract!Optional, Optional, PasswordValue
    <2> QED
      BY <2>4, <2>5, <2>6, <2>7 DEF Contract!UserRecord
  <1>2. ASSUME NEW n \in NamespaceIDs, db[NamespaceRow(n)] # None
        PROVE  StoredNamespaces[n] \in Contract!NamespaceRecord
    <2>1. db[NamespaceRow(n)] \in NamespaceValue
      BY <1>2, RowNames, RowTables DEF GormInv, Typed, ValueOK, Optional
    <2>2. db[NamespaceTagRow(n)] \in Optional(Contents)
      BY RowNames, RowTables DEF GormInv, Typed, ValueOK
    <2> QED
      BY <1>2, <2>1, <2>2, GormAssumption
         DEF StoredNamespaces, NamespaceValue, Optional, Contract!NamespaceRecord
  <1>3. \A u \in Usernames : StoredUsers[u] # None <=> db[UserRow(u)] # None
    BY <1>1, NoneIsNoRecord DEF StoredUsers
  <1>4. \A n \in NamespaceIDs : StoredNamespaces[n] # None <=> db[NamespaceRow(n)] # None
    BY <1>2, NoneIsNoRecord DEF StoredNamespaces
  <1> QED
    BY <1>3, <1>4 DEF Contract!UserExists, Contract!NamespaceExists

\* A key of the contract is a row.
LEMMA StoredKeys ==
    ASSUME GormInv, NEW u \in Usernames, NEW k \in KeyIDs
    PROVE  Contract!KeyAt(u, k) = db[KeyRow(u, k)]
  <1>1. CASE db[UserRow(u)] = None
    <2>1. db[KeyRow(u, k)] = None
      BY <1>1, Owners DEF RowsHaveOwners, KeysOf
    <2> QED
      BY <1>1, <2>1, StoredExists DEF Contract!KeyAt
  <1>2. CASE db[UserRow(u)] # None
    <2>1. StoredUsers[u].keys[k] = db[KeyRow(u, k)]
      BY <1>2 DEF StoredUsers
    <2> QED
      BY <1>2, <2>1, StoredExists DEF Contract!KeyAt
  <1> QED
    BY <1>1, <1>2

\* Only rows of D change.
Changes(D) == \A row \in Rows : row \notin D => db'[row] = db[row]

StoredResources == [n \in NamespaceIDs |-> [p \in PIDs |-> db[ResourceRow(n, p)]]]
StoredRoles ==
    [n \in NamespaceIDs |-> [u \in Usernames |->
        IF db[RoleRow(n, u)] = None THEN "none" ELSE db[RoleRow(n, u)]]]
StoredMounts == [b \in BaseURIs |-> db[MountRow(b)]]
StoredGrants == [u \in Usernames |-> {g \in Patterns : db[GrantRow(u, g)] # None}]

LEMMA Unmoved ==
    ASSUME NEW D, Changes(D)
    PROVE  /\ (\A row \in D : row[1] \notin {"users", "user_passwords", "user_api_keys"}) =>
                  StoredUsers' = StoredUsers
           /\ (\A row \in D : row[1] \notin {"namespaces", "namespace_tags"}) =>
                  StoredNamespaces' = StoredNamespaces
           /\ (\A row \in D : row[1] # "resources") => StoredResources' = StoredResources
           /\ (\A row \in D : row[1] # "namespace_roles") => StoredRoles' = StoredRoles
           /\ (\A row \in D : row[1] # "mounts") => StoredMounts' = StoredMounts
           /\ (\A row \in D : row[1] # "user_mount_grants") => StoredGrants' = StoredGrants
  <1>0. \A row \in Rows : row \notin D => db'[row] = db[row]
    BY DEF Changes
  <1>1. ASSUME \A row \in D : row[1] \notin {"users", "user_passwords", "user_api_keys"}
        PROVE  StoredUsers' = StoredUsers
    <2>1. \A u \in Usernames :
              /\ db'[UserRow(u)] = db[UserRow(u)] /\ db'[PasswordRow(u)] = db[PasswordRow(u)]
              /\ \A k \in KeyIDs : db'[KeyRow(u, k)] = db[KeyRow(u, k)]
      BY <1>0, <1>1, RowNames, RowTables
    <2> QED
      BY <2>1 DEF StoredUsers
  <1>2. ASSUME \A row \in D : row[1] \notin {"namespaces", "namespace_tags"}
        PROVE  StoredNamespaces' = StoredNamespaces
    <2>1. \A n \in NamespaceIDs :
              /\ db'[NamespaceRow(n)] = db[NamespaceRow(n)]
              /\ db'[NamespaceTagRow(n)] = db[NamespaceTagRow(n)]
      BY <1>0, <1>2, RowNames, RowTables
    <2> QED
      BY <2>1 DEF StoredNamespaces
  <1>3. ASSUME \A row \in D : row[1] # "resources" PROVE StoredResources' = StoredResources
    <2>1. \A n \in NamespaceIDs, p \in PIDs : db'[ResourceRow(n, p)] = db[ResourceRow(n, p)]
      BY <1>0, <1>3, RowNames, RowTables
    <2> QED
      BY <2>1 DEF StoredResources
  <1>4. ASSUME \A row \in D : row[1] # "namespace_roles" PROVE StoredRoles' = StoredRoles
    <2>1. \A n \in NamespaceIDs, u \in Usernames : db'[RoleRow(n, u)] = db[RoleRow(n, u)]
      BY <1>0, <1>4, RowNames, RowTables
    <2> QED
      BY <2>1 DEF StoredRoles
  <1>5. ASSUME \A row \in D : row[1] # "mounts" PROVE StoredMounts' = StoredMounts
    <2>1. \A b \in BaseURIs : db'[MountRow(b)] = db[MountRow(b)]
      BY <1>0, <1>5, RowNames, RowTables
    <2> QED
      BY <2>1 DEF StoredMounts
  <1>6. ASSUME \A row \in D : row[1] # "user_mount_grants" PROVE StoredGrants' = StoredGrants
    <2>1. \A u \in Usernames, g \in Patterns : db'[GrantRow(u, g)] = db[GrantRow(u, g)]
      BY <1>0, <1>6, RowNames, RowTables
    <2> QED
      BY <2>1 DEF StoredGrants
  <1> QED
    BY <1>1, <1>2, <1>3, <1>4, <1>5, <1>6

-----------------------------------------------------------------------------
(* How a transaction ends *)

Consistent(t) == GormInv /\ Traced(t) /\ Sound(t) /\ Open(t)

\* Everything has been executed, and is stored.
Stores(t) ==
    /\ Consistent(t) /\ AtEnd(t)
    /\ db' = [row \in Rows |-> IF row \in DOMAIN pending[t] THEN pending[t][row].to ELSE db[row]]

\* A statement ends the transaction because of what it meets.
Refused(t, st) ==
    /\ Consistent(t) /\ ~AtEnd(t) /\ st = Statement(t) /\ db' = db
    /\ \/ Reads(st) /\ View(t, st.row) = None
       \/ st.do = "create" /\ View(t, st.row) # None
       \/ st.do = "delete" /\ Targets(t) = {} /\ st.err # "nil"

\* What a transaction has executed when it commits, and what it stores.
LEMMA AtTheEnd ==
    ASSUME NEW t \in Sessions, Stores(t)
    PROVE  /\ Past(t) = 1..Len(Prog(t)) /\ Len(Prog(t)) \in Nat /\ op[t] \in Operations
           /\ \A j \in 1..Len(Prog(t)) :
                  /\ Current(t, Prog(t)[j]) /\ StatementOK(op[t], Prog(t)[j])
                  /\ Puts(Prog(t)[j]) => db'[Prog(t)[j].row] = Prog(t)[j].value
                  /\ Prog(t)[j].do = "save loaded" =>
                         db'[Prog(t)[j].row] = With(loaded[t], Prog(t)[j].set)
           /\ \A row \in Rows :
                  (\A j \in 1..Len(Prog(t)) : ~Reaches(Prog(t)[j], row)) => db'[row] = db[row]
  <1>1. /\ GormInv /\ Traced(t) /\ Sound(t) /\ Open(t) /\ AtEnd(t)
        /\ \A row \in Rows : db'[row] = IF row \in DOMAIN pending[t] THEN pending[t][row].to
                                        ELSE db[row]
    BY DEF Stores, Consistent
  <1>2. op[t] \in Operations /\ at[t] \in 1..(Len(Program(op[t])) + 1)
    BY <1>1 DEF GormInv, Placed, PlacedAt, Optional, Open
  <1>3. Len(Program(op[t])) \in Nat
    BY <1>2, Programs
  <1>4. Past(t) = 1..Len(Prog(t))
    BY <1>1, <1>2, <1>3 DEF Past, Prog, AtEnd
  <1>5. ASSUME NEW j \in 1..Len(Prog(t))
        PROVE  /\ Current(t, Prog(t)[j]) /\ StatementOK(op[t], Prog(t)[j])
               /\ Puts(Prog(t)[j]) => db'[Prog(t)[j].row] = Prog(t)[j].value
               /\ Prog(t)[j].do = "save loaded" =>
                      db'[Prog(t)[j].row] = With(loaded[t], Prog(t)[j].set)
    <2> DEFINE st == Prog(t)[j]
    <2>1. Current(t, st) /\ StatementOK(op[t], st) /\ Done(t, st)
      BY <1>1, <1>4, PastOK DEF Sound, Traced, Reached
    <2>2. DOMAIN pending[t] \subseteq Rows
      BY <1>1 DEF GormInv, Typed
    <2> HIDE DEF st
    <2>3. Puts(st) => db'[st.row] = st.value
      BY <1>1, <2>1, <2>2 DEF Done
    <2>4. st.do = "save loaded" => db'[st.row] = With(loaded[t], st.set)
      BY <1>1, <2>1, <2>2 DEF Done, Current
    <2> QED
      BY <2>1, <2>3, <2>4 DEF st
  <1>6. ASSUME NEW row \in Rows, \A j \in 1..Len(Prog(t)) : ~Reaches(Prog(t)[j], row)
        PROVE  db'[row] = db[row]
    <2>1. row \notin DOMAIN pending[t]
      BY <1>1, <1>4, <1>6 DEF Traced, Reached
    <2> QED
      BY <1>1, <2>1
  <1> QED
    BY <1>2, <1>3, <1>4, <1>5, <1>6 DEF Prog

\* A row that only INSERTs reach was not there, and one that DELETEs reach
\* is gone.
LEMMA EndOfRow ==
    ASSUME NEW t \in Sessions, Stores(t), NEW row \in Rows
    PROVE  /\ /\ \E j \in 1..Len(Prog(t)) : Prog(t)[j].do = "create" /\ Prog(t)[j].row = row
              /\ \A j \in 1..Len(Prog(t)) : Reaches(Prog(t)[j], row) => Prog(t)[j].do = "create"
              => db[row] = None
           /\ /\ ~overlapped[t]
              /\ \E j \in 1..Len(Prog(t)) : Prog(t)[j].do = "delete" /\ row \in Prog(t)[j].rows
              /\ \A j \in 1..Len(Prog(t)) : Reaches(Prog(t)[j], row) => Prog(t)[j].do = "delete"
              => db'[row] = None
  <1>1. /\ GormInv /\ Traced(t) /\ Sound(t)
        /\ db'[row] = IF row \in DOMAIN pending[t] THEN pending[t][row].to ELSE db[row]
    BY DEF Stores, Consistent
  <1>2. Past(t) = 1..Len(Prog(t))
    BY AtTheEnd
  <1>3. ASSUME NEW j \in 1..Len(Prog(t)), Prog(t)[j].do = "create", Prog(t)[j].row = row,
               \A i \in 1..Len(Prog(t)) : Reaches(Prog(t)[i], row) => Prog(t)[i].do = "create"
        PROVE  db[row] = None
    <2>1. row \in DOMAIN pending[t]
      BY <1>1, <1>2, <1>3 DEF Traced, Reached, Done, Puts
    <2>2. OnlyBy(t, row, "create")
      BY <1>2, <1>3 DEF OnlyBy
    <2> QED
      BY <1>1, <2>1, <2>2 DEF Traced, Fresh
  <1>4. ASSUME ~overlapped[t], NEW j \in 1..Len(Prog(t)), Prog(t)[j].do = "delete",
               row \in Prog(t)[j].rows,
               \A i \in 1..Len(Prog(t)) : Reaches(Prog(t)[i], row) => Prog(t)[i].do = "delete"
        PROVE  db'[row] = None
    <2>1. db[row] # None => row \in DOMAIN pending[t]
      BY <1>1, <1>2, <1>4 DEF Sound, Current
    <2>2. OnlyBy(t, row, "delete")
      BY <1>2, <1>4 DEF OnlyBy
    <2> QED
      BY <1>1, <2>1, <2>2 DEF Traced, Fresh
  <1> QED
    BY <1>3, <1>4

\* The last statement of t is b, and those before it read.
LastOf(t, b) ==
    /\ Len(Prog(t)) > 0 /\ b = Prog(t)[Len(Prog(t))]
    /\ \A j \in 1..Len(Prog(t)) : j # Len(Prog(t)) => Reads(Prog(t)[j])

LEMMA OneWrite ==
    ASSUME NEW t \in Sessions, Stores(t), NEW b, LastOf(t, b)
    PROVE  /\ Changes({row \in Rows : Reaches(b, row)})
           /\ Puts(b) => db'[b.row] = b.value
           /\ b.do = "create" => db[b.row] = None
           /\ b.do = "update" /\ ~overlapped[t] /\ db[b.row] # None =>
                  db'[b.row] = With(db[b.row], b.set)
           /\ b.do = "delete" /\ ~overlapped[t] => \A row \in b.rows : db'[row] = None
           /\ b.do = "delete" /\ b.err # "nil" =>
                  \E row \in b.rows : db[row] # None /\ db'[row] = None
  <1> DEFINE n == Len(Prog(t))
  <1>0. n \in Nat /\ n > 0 /\ b = Prog(t)[n]
    BY AtTheEnd DEF LastOf
  <1>9. n \in 1..n
    BY <1>0
  <1>1. /\ n \in Nat /\ n \in 1..n /\ b = Prog(t)[n] /\ Past(t) = 1..n
        /\ \A j \in 1..n : j # n => Reads(Prog(t)[j])
    BY <1>0, <1>9, AtTheEnd DEF LastOf
  <1>2. \A j \in 1..n : \A row : Reaches(Prog(t)[j], row) => Reaches(b, row) /\ Prog(t)[j] = b
    BY <1>1 DEF Reads, Reaches
  <1>3. Current(t, b) /\ StatementOK(op[t], b) /\ (Puts(b) => db'[b.row] = b.value)
    BY <1>1, AtTheEnd
  <1>4. Changes({row \in Rows : Reaches(b, row)})
    BY <1>2, AtTheEnd DEF Changes
  <1>5. ASSUME b.do = "create" PROVE db[b.row] = None
    <2>1. b.row \in Rows
      BY <1>3, <1>5 DEF StatementOK
    <2> QED
      BY <1>1, <1>2, <1>5, <2>1, EndOfRow
  <1>6. ASSUME b.do = "update", ~overlapped[t], db[b.row] # None
        PROVE  db'[b.row] = With(db[b.row], b.set)
    <2>1. b.row \in Rows
      BY <1>3, <1>6 DEF StatementOK
    <2> QED
      BY <1>3, <1>6, <2>1 DEF Current, Stores
  <1>7. ASSUME b.do = "delete", ~overlapped[t], NEW row \in b.rows PROVE db'[row] = None
    <2>1. row \in Rows
      BY <1>3, <1>7 DEF StatementOK
    <2> QED
      BY <1>1, <1>2, <1>7, <2>1, EndOfRow
  <1>8. ASSUME b.do = "delete", b.err # "nil"
        PROVE  \E row \in b.rows : db[row] # None /\ db'[row] = None
    <2>1. Traced(t) /\ Done(t, b) /\ GormInv
      BY <1>1 DEF Stores, Consistent, Traced, Reached
    <2>2. PICK row \in b.rows : row \in DOMAIN pending[t] /\ pending[t][row].to = None
      BY <1>8, <2>1 DEF Done
    <2>3. row \in Rows /\ db[row] # None
      BY <2>1, <2>2 DEF Traced, Fresh, GormInv, Typed
    <2> QED
      BY <2>2, <2>3 DEF Stores
  <1> QED
    BY <1>3, <1>4, <1>5, <1>6, <1>7, <1>8

LEMMA LastOfPair ==
    ASSUME NEW t, NEW a, NEW b, Prog(t) = <<a, b>>, Reads(a)
    PROVE  LastOf(t, b) /\ 1 \in 1..Len(Prog(t)) /\ Prog(t)[1] = a
  BY DEF LastOf

LEMMA LastOfOne ==
    ASSUME NEW t, NEW b, Prog(t) = <<b>>
    PROVE  LastOf(t, b)
  BY DEF LastOf

LEMMA LastOfTriple ==
    ASSUME NEW t, NEW a, NEW b, NEW c, Prog(t) = <<a, b, c>>, Reads(a), Reads(b)
    PROVE  LastOf(t, c) /\ 1 \in 1..Len(Prog(t)) /\ Prog(t)[1] = a
           /\ 2 \in 1..Len(Prog(t)) /\ Prog(t)[2] = b
  BY DEF LastOf

\* What has been read is there.
LEMMA ReadStays ==
    ASSUME NEW t \in Sessions, Sound(t), NEW j \in Past(t), Reads(Prog(t)[j]),
           Lasting(Prog(t)[j].row) \/ ~overlapped[t]
    PROVE  db[Prog(t)[j].row] # None
  BY DEF Sound, Current

\* Why a statement ends a transaction.
LEMMA Refusal ==
    ASSUME NEW t \in Sessions, NEW st, Refused(t, st)
    PROVE  /\ op[t] \in Operations /\ at[t] \in 1..Len(Prog(t)) /\ Len(Prog(t)) \in Nat
           /\ st = Prog(t)[at[t]] /\ StatementOK(op[t], st)
           /\ Past(t) = 1..(at[t] - 1)
           /\ Reads(st) \/ st.do = "create" \/ (st.do = "delete" /\ st.err # "nil")
           /\ \A j \in Past(t) :
                  Reads(Prog(t)[j]) /\ (Lasting(Prog(t)[j].row) \/ ~overlapped[t]) =>
                      db[Prog(t)[j].row] # None
           /\ Reads(st) => db[st.row] = None
           /\ st.do = "create" /\ (\A j \in Past(t) : ~Reaches(Prog(t)[j], st.row)) =>
                  db[st.row] # None
           /\ st.do = "delete" /\ ~overlapped[t] => \A row \in st.rows : View(t, row) = None
  <1>1. /\ GormInv /\ Traced(t) /\ Sound(t) /\ Open(t) /\ ~AtEnd(t) /\ st = Statement(t)
        /\ \/ Reads(st) /\ View(t, st.row) = None
           \/ st.do = "create" /\ View(t, st.row) # None
           \/ st.do = "delete" /\ Targets(t) = {} /\ st.err # "nil"
    BY DEF Refused, Consistent
  <1>2. /\ op[t] \in Operations /\ at[t] \in 1..Len(Prog(t)) /\ Len(Prog(t)) \in Nat
        /\ st = Prog(t)[at[t]] /\ StatementOK(op[t], st)
    BY <1>1, AtStatement DEF Prog, Statement
  <1>3. Reads(st) => db[st.row] = None
    BY <1>1, NothingYet DEF Reads
  <1>4. ASSUME st.do = "create", \A j \in Past(t) : ~Reaches(Prog(t)[j], st.row)
        PROVE  db[st.row] # None
    <2>1. st.row \notin DOMAIN pending[t]
      BY <1>1, <1>4 DEF Traced, Reached
    <2>2. View(t, st.row) # None
      BY <1>1, <1>4 DEF Reads
    <2> QED
      BY <2>1, <2>2 DEF View
  <1>5. ASSUME st.do = "delete", ~overlapped[t], NEW row \in st.rows PROVE View(t, row) = None
    <2>1. Targets(t) = {}
      BY <1>1, <1>5 DEF Reads
    <2> QED
      BY <1>1, <1>5, <2>1 DEF Targets, Sound
  <1> QED
    BY <1>1, <1>2, <1>3, <1>4, <1>5, ReadStays DEF Past

\* The same of a program that writes with its last statement.
LEMMA LastRefusal ==
    ASSUME NEW t \in Sessions, NEW st, Refused(t, st), NEW b, LastOf(t, b)
    PROVE  /\ at[t] \in 1..Len(Prog(t)) /\ st = Prog(t)[at[t]] /\ (st = b \/ Reads(st))
           /\ \A j \in 1..Len(Prog(t)) :
                  j < at[t] /\ (Lasting(Prog(t)[j].row) \/ ~overlapped[t]) =>
                      db[Prog(t)[j].row] # None
           /\ Reads(st) => db[st.row] = None
           /\ ~Reads(st) => st.do = "create" \/ (st.do = "delete" /\ st.err # "nil")
           /\ st.do = "create" => db[st.row] # None
           /\ st.do = "delete" /\ ~overlapped[t] => \A row \in st.rows : db[row] = None
  <1>1. /\ Len(Prog(t)) \in Nat /\ at[t] \in 1..Len(Prog(t)) /\ st = Prog(t)[at[t]]
        /\ Past(t) = 1..(at[t] - 1)
    BY Refusal
  <1>2. \A j \in 1..Len(Prog(t)) : j < at[t] => j \in Past(t) /\ j # Len(Prog(t))
    BY <1>1
  <1>3. \A j \in Past(t) : j \in 1..Len(Prog(t)) /\ j # Len(Prog(t))
    BY <1>1
  <1>4. \A j \in Past(t) : Reads(Prog(t)[j])
    BY <1>3 DEF LastOf
  <1>5. st = b \/ Reads(st)
    BY <1>1 DEF LastOf
  <1>6. \A j \in Past(t) : \A row : ~Reaches(Prog(t)[j], row)
    BY <1>4 DEF Reads, Reaches
  <1>7. \A row : View(t, row) = db[row]
    <2>1. DOMAIN pending[t] = {}
      BY <1>6 DEF Refused, Consistent, Traced, Reached
    <2> QED
      BY <2>1 DEF View
  <1>8. \A j \in 1..Len(Prog(t)) :
            j < at[t] /\ (Lasting(Prog(t)[j].row) \/ ~overlapped[t]) =>
                db[Prog(t)[j].row] # None
    BY <1>2, <1>4, Refusal
  <1>9. /\ Reads(st) => db[st.row] = None
        /\ ~Reads(st) => st.do = "create" \/ (st.do = "delete" /\ st.err # "nil")
    BY Refusal
  <1>10. st.do = "create" => db[st.row] # None
    BY <1>6, Refusal
  <1>11. st.do = "delete" /\ ~overlapped[t] => \A row \in st.rows : db[row] = None
    BY <1>7, Refusal
  <1> QED
    BY <1>1, <1>5, <1>8, <1>9, <1>10, <1>11

-----------------------------------------------------------------------------
(* Steps of the contract *)

\* Which part of the contract an operation belongs to.
LEMMA StepsOfOps ==
    ASSUME NEW o \in Operations, NEW code
    PROVE  /\ o.kind \in AccountKinds =>
                  o \in AccountOps /\ (ContractStep(o, code) <=> AccountStep(o, code))
           /\ o.kind \in NamespaceKinds =>
                  o \in NamespaceOps /\ (ContractStep(o, code) <=> PlaceStep(o, code))
           /\ o.kind \in ResourceKinds =>
                  o \in ResourceOps /\ (ContractStep(o, code) <=> ResourceStep(o, code))
           /\ o.kind \in AccountKinds \cup NamespaceKinds \cup ResourceKinds
  <1>1. /\ o \in AccountOps => o.kind \in AccountKinds
        /\ o \in NamespaceOps => o.kind \in NamespaceKinds
        /\ o \in ResourceOps => o.kind \in ResourceKinds
    BY AccountFields, NamespaceFields, ResourceFields
  <1>2. o \in AccountOps \/ o \in NamespaceOps \/ o \in ResourceOps
    BY DEF Operations
  <1>3. ASSUME o.kind \in AccountKinds
        PROVE  o \in AccountOps /\ o \notin NamespaceOps /\ o \notin ResourceOps
    BY <1>1, <1>2, <1>3, KindsDiffer
  <1>4. ASSUME o.kind \in NamespaceKinds
        PROVE  o \in NamespaceOps /\ o \notin AccountOps /\ o \notin ResourceOps
    BY <1>1, <1>2, <1>4, KindsDiffer
  <1>5. ASSUME o.kind \in ResourceKinds
        PROVE  o \in ResourceOps /\ o \notin AccountOps /\ o \notin NamespaceOps
    BY <1>1, <1>2, <1>5, KindsDiffer
  <1> QED
    BY <1>1, <1>2, <1>3, <1>4, <1>5 DEF ContractStep

\* The other tables stay.
LEMMA MountMoves ==
    ASSUME NEW b \in BaseURIs, Changes({MountRow(b)})
    PROVE  /\ StoredMounts' = [StoredMounts EXCEPT ![b] = db'[MountRow(b)]]
           /\ UNCHANGED <<StoredUsers, StoredNamespaces, StoredResources,
                          StoredRoles, StoredGrants>>
  <1> DEFINE D == {MountRow(b)}
  <1>1. \A row \in D : row[1] = "mounts"
    BY RowTables
  <1>2. Changes(D)
    OBVIOUS
  <1>3. \A c \in BaseURIs : c # b => MountRow(c) \in Rows /\ MountRow(c) \notin D
    BY RowNames DEF MountRow
  <1>4. \A c \in BaseURIs : c # b => db'[MountRow(c)] = db[MountRow(c)]
    BY <1>2, <1>3 DEF Changes
  <1> HIDE DEF D
  <1>5. StoredMounts' = [StoredMounts EXCEPT ![b] = db'[MountRow(b)]]
    BY <1>4 DEF StoredMounts
  <1> QED
    BY <1>1, <1>2, <1>5, Unmoved

\* What the end of a transaction must show.
KeepsAtEnd(t) ==
    /\ Stores(t) /\ (Atomic(op[t], "nil") \/ ~overlapped[t]) => ContractStep(op[t], "nil")
    /\ \A st : Refused(t, st) /\ (Atomic(op[t], st.err) \/ ~overlapped[t]) =>
           ContractStep(op[t], st.err) \/ st.err = "DatabaseError"

-----------------------------------------------------------------------------
(* Programs that write with their last statement *)

\* What is read of this row holds at the end.
Stays(t, row) == Lasting(row) \/ ~overlapped[t]

\* What the last statement has written, and what it met when it was refused.
Wrote(t, b) ==
    /\ Changes({row \in Rows : Reaches(b, row)})
    /\ Puts(b) => db'[b.row] = b.value
    /\ b.do = "create" => db[b.row] = None
    /\ b.do = "update" /\ ~overlapped[t] /\ db[b.row] # None =>
           db'[b.row] = With(db[b.row], b.set)
    /\ b.do = "delete" /\ ~overlapped[t] => \A row \in b.rows : db'[row] = None
    /\ b.do = "delete" /\ b.err # "nil" => \E row \in b.rows : db[row] # None /\ db'[row] = None

Met(t, b) ==
    \/ b.do = "create" /\ db[b.row] # None
    \/ b.do = "delete" /\ b.err # "nil" /\ (~overlapped[t] => \A row \in b.rows : db[row] = None)

LEMMA OneEnds ==
    ASSUME NEW t \in Sessions, NEW b, Prog(t) = <<b>>, ~Reads(b)
    PROVE  /\ Stores(t) => GormInv /\ Wrote(t, b)
           /\ \A st : Refused(t, st) => GormInv /\ db' = db /\ st = b /\ Met(t, b)
  <1>1. LastOf(t, b)
    BY LastOfOne
  <1>2. ASSUME Stores(t) PROVE GormInv /\ Wrote(t, b)
    BY <1>1, <1>2, OneWrite DEF Wrote, Stores, Consistent
  <1>3. ASSUME NEW st, Refused(t, st) PROVE GormInv /\ db' = db /\ st = b /\ Met(t, b)
    <2>1. GormInv /\ db' = db
      BY <1>3 DEF Refused, Consistent
    <2>2. at[t] \in 1..Len(Prog(t)) /\ st = Prog(t)[at[t]]
      BY <1>1, <1>3, LastRefusal
    <2>3. st = b
      BY <2>2
    <2> QED
      BY <1>1, <1>3, <2>1, <2>3, LastRefusal DEF Met
  <1> QED
    BY <1>2, <1>3

LEMMA PairEnds ==
    ASSUME NEW t \in Sessions, NEW a, NEW b, Prog(t) = <<a, b>>, Reads(a), ~Reads(b)
    PROVE  /\ Stores(t) => GormInv /\ Wrote(t, b) /\ (Stays(t, a.row) => db[a.row] # None)
           /\ \A st : Refused(t, st) =>
                  /\ GormInv /\ db' = db
                  /\ \/ st = a /\ db[a.row] = None
                     \/ st = b /\ Met(t, b) /\ (Stays(t, a.row) => db[a.row] # None)
  <1>1. /\ LastOf(t, b) /\ 1 \in 1..Len(Prog(t))
        /\ Prog(t)[1] = a /\ Prog(t)[2] = b /\ Len(Prog(t)) = 2
    BY LastOfPair
  <1>2. ASSUME Stores(t)
        PROVE  GormInv /\ Wrote(t, b) /\ (Stays(t, a.row) => db[a.row] # None)
    <2>1. GormInv /\ Sound(t) /\ 1 \in Past(t)
      BY <1>1, <1>2, AtTheEnd DEF Stores, Consistent
    <2>2. Stays(t, a.row) => db[a.row] # None
      BY <1>1, <2>1, ReadStays DEF Stays
    <2> QED
      BY <1>1, <1>2, <2>1, <2>2, OneWrite DEF Wrote
  <1>3. ASSUME NEW st, Refused(t, st)
        PROVE  /\ GormInv /\ db' = db
               /\ \/ st = a /\ db[a.row] = None
                  \/ st = b /\ Met(t, b) /\ (Stays(t, a.row) => db[a.row] # None)
    <2>1. GormInv /\ db' = db
      BY <1>3 DEF Refused, Consistent
    <2>2. at[t] \in 1..Len(Prog(t)) /\ st = Prog(t)[at[t]]
      BY <1>1, <1>3, LastRefusal
    <2>3. CASE at[t] = 1
      BY <1>1, <1>3, <2>1, <2>2, <2>3, LastRefusal
    <2>4. CASE at[t] = 2
      <3>1. st = b /\ 1 < at[t]
        BY <1>1, <2>2, <2>4
      <3>2. Stays(t, a.row) => db[a.row] # None
        BY <1>1, <1>3, <3>1, LastRefusal DEF Stays
      <3>3. Met(t, b)
        BY <1>1, <1>3, <3>1, LastRefusal DEF Met
      <3> QED
        BY <2>1, <3>1, <3>2, <3>3
    <2> QED
      BY <1>1, <2>2, <2>3, <2>4
  <1> QED
    BY <1>2, <1>3

\* The statements that write one row.
LEMMA SaveEnds ==
    ASSUME NEW t, NEW row \in Rows, NEW v
    PROVE  /\ Wrote(t, SaveSt(row, v)) => Changes({row}) /\ db'[row] = v
           /\ ~Met(t, SaveSt(row, v))
  <1>1. {r \in Rows : Reaches(SaveSt(row, v), r)} = {row}
    BY DEF Reaches, SaveSt
  <1> QED
    BY <1>1 DEF Wrote, Met, Puts, SaveSt

LEMMA CreateEnds ==
    ASSUME NEW t, NEW row \in Rows, NEW v, NEW err
    PROVE  /\ Wrote(t, CreateSt(row, v, err)) => Changes({row}) /\ db[row] = None /\ db'[row] = v
           /\ Met(t, CreateSt(row, v, err)) => db[row] # None
  <1>1. {r \in Rows : Reaches(CreateSt(row, v, err), r)} = {row}
    BY DEF Reaches, CreateSt
  <1> QED
    BY <1>1 DEF Wrote, Met, Puts, CreateSt

LEMMA UpdateEnds ==
    ASSUME NEW t, NEW row \in Rows, NEW set
    PROVE  /\ Wrote(t, UpdateSt(row, set)) /\ ~overlapped[t] /\ db[row] # None =>
                  Changes({row}) /\ db'[row] = With(db[row], set)
           /\ ~Met(t, UpdateSt(row, set))
  <1>1. {r \in Rows : Reaches(UpdateSt(row, set), r)} = {row}
    BY DEF Reaches, UpdateSt
  <1> QED
    BY <1>1 DEF Wrote, Met, Puts, UpdateSt

LEMMA DeleteEnds ==
    ASSUME NEW t, NEW row \in Rows, row[1] # "users", NEW err
    PROVE  /\ Wrote(t, DeleteSt({row}, err)) =>
                  /\ Changes({row})
                  /\ ~overlapped[t] => db'[row] = None
                  /\ err # "nil" => db[row] # None /\ db'[row] = None
           /\ Met(t, DeleteSt({row}, err)) => err # "nil" /\ (~overlapped[t] => db[row] = None)
  <1>1. {r \in Rows : Reaches(DeleteSt({row}, err), r)} = {row}
    BY RowTables DEF Reaches, DeleteSt
  <1> QED
    BY <1>1 DEF Wrote, Met, Puts, DeleteSt

-----------------------------------------------------------------------------
(* Mounts, roles and grants *)

LEMMA RoleMoves ==
    ASSUME NEW n \in NamespaceIDs, NEW u \in Usernames, Changes({RoleRow(n, u)})
    PROVE  /\ StoredRoles' = [StoredRoles EXCEPT ![n][u] =
                  IF db'[RoleRow(n, u)] = None THEN "none" ELSE db'[RoleRow(n, u)]]
           /\ UNCHANGED <<StoredUsers, StoredNamespaces, StoredResources,
                          StoredMounts, StoredGrants>>
  <1> DEFINE D == {RoleRow(n, u)}
  <1>1. \A row \in D : row[1] = "namespace_roles"
    BY RowTables
  <1>2. Changes(D)
    OBVIOUS
  <1>3. \A m \in NamespaceIDs, w \in Usernames :
            m # n \/ w # u => RoleRow(m, w) \in Rows /\ RoleRow(m, w) \notin D
    BY RowNames DEF RoleRow
  <1>4. \A m \in NamespaceIDs, w \in Usernames :
            m # n \/ w # u => db'[RoleRow(m, w)] = db[RoleRow(m, w)]
    BY <1>2, <1>3 DEF Changes
  <1> HIDE DEF D
  <1> DEFINE new == IF db'[RoleRow(n, u)] = None THEN "none" ELSE db'[RoleRow(n, u)]
  <1>5. \A m \in NamespaceIDs : StoredRoles'[m] =
            IF m # n THEN StoredRoles[m] ELSE [StoredRoles[n] EXCEPT ![u] = new]
    BY <1>4 DEF StoredRoles
  <1>6. StoredRoles' = [StoredRoles EXCEPT ![n][u] = new]
    BY <1>5 DEF StoredRoles
  <1> QED
    BY <1>1, <1>2, <1>6, Unmoved

LEMMA GrantMoves ==
    ASSUME NEW u \in Usernames, NEW g \in Patterns, Changes({GrantRow(u, g)})
    PROVE  /\ StoredGrants' = [StoredGrants EXCEPT ![u] =
                  IF db'[GrantRow(u, g)] = None THEN @ \ {g} ELSE @ \cup {g}]
           /\ UNCHANGED <<StoredUsers, StoredNamespaces, StoredResources,
                          StoredRoles, StoredMounts>>
  <1> DEFINE D == {GrantRow(u, g)}
  <1>1. \A row \in D : row[1] = "user_mount_grants"
    BY RowTables
  <1>2. Changes(D)
    OBVIOUS
  <1>3. \A w \in Usernames, h \in Patterns :
            w # u \/ h # g => GrantRow(w, h) \in Rows /\ GrantRow(w, h) \notin D
    BY RowNames DEF GrantRow
  <1>4. \A w \in Usernames, h \in Patterns :
            w # u \/ h # g => db'[GrantRow(w, h)] = db[GrantRow(w, h)]
    BY <1>2, <1>3 DEF Changes
  <1> HIDE DEF D
  <1>5. \A w \in Usernames : StoredGrants'[w] =
            IF w # u THEN StoredGrants[w]
            ELSE IF db'[GrantRow(u, g)] = None THEN StoredGrants[u] \ {g}
            ELSE StoredGrants[u] \cup {g}
    BY <1>4 DEF StoredGrants
  <1>6. StoredGrants' = [StoredGrants EXCEPT ![u] =
            IF db'[GrantRow(u, g)] = None THEN @ \ {g} ELSE @ \cup {g}]
    BY <1>5 DEF StoredGrants
  <1> QED
    BY <1>1, <1>2, <1>6, Unmoved

LEMMA SetMountEnds ==
    ASSUME NEW t \in Sessions, op[t] \in Operations, op[t].kind = "SetMount"
    PROVE  KeepsAtEnd(t)
  <1> DEFINE o == op[t]
             a == NamespaceFound(o)
             b == SaveSt(MountRow(o.base), o.ns)
  <1>1. o \in NamespaceOps /\ o.ns \in NamespaceIDs /\ o.base \in BaseURIs
    BY StepsOfOps, NamespaceFields DEF NamespaceKinds
  <1>2. Prog(t) = <<a, b>>
    BY NamespaceSpelled DEF Prog
  <1>3. \A code : ContractStep(o, code) <=>
            Returns(code, Contract!NamespaceErr(o.ns), Contract!SetMount(o.base, o.ns))
    BY StepsOfOps DEF NamespaceKinds, PlaceStep
  <1>4. /\ Reads(a) /\ ~Reads(b) /\ a.row = NamespaceRow(o.ns) /\ a.err = "ErrNamespaceNotFound"
        /\ Stays(t, a.row)
    BY Tables DEF NamespaceFound, EnsureSt, SaveSt, Reads, Stays
  <1>5. MountRow(o.base) \in Rows
    BY <1>1, RowNames
  <1> HIDE DEF a
  <1>6. ASSUME Stores(t) PROVE ContractStep(o, "nil")
    <2>1. GormInv /\ Wrote(t, b) /\ db[NamespaceRow(o.ns)] # None
      BY <1>2, <1>4, <1>6, PairEnds
    <2>2. Changes({MountRow(o.base)}) /\ db'[MountRow(o.base)] = o.ns
      BY <1>5, <2>1, SaveEnds
    <2>3. Contract!NamespaceErr(o.ns) = "nil"
      BY <1>1, <2>1, StoredExists DEF Contract!NamespaceErr
    <2>4. Contract!SetMount(o.base, o.ns)
      BY <1>1, <2>2, <2>3, MountMoves
         DEF Contract!SetMount, StoredMounts, StoredResources, StoredRoles, StoredGrants
    <2> QED
      BY <1>3, <2>3, <2>4 DEF Returns
  <1>7. ASSUME NEW st, Refused(t, st) PROVE ContractStep(o, st.err)
    <2>0. ~Met(t, b)
      BY <1>5, SaveEnds
    <2>1. GormInv /\ db' = db /\ st = a /\ db[NamespaceRow(o.ns)] = None
      BY <1>2, <1>4, <1>7, <2>0, PairEnds
    <2>2. Contract!NamespaceErr(o.ns) = "ErrNamespaceNotFound"
      BY <1>1, <2>1, StoredExists DEF Contract!NamespaceErr
    <2> QED
      BY <1>3, <1>4, <2>1, <2>2 DEF Returns
  <1> QED
    BY <1>6, <1>7 DEF KeepsAtEnd

LEMMA DeleteMountEnds ==
    ASSUME NEW t \in Sessions, op[t] \in Operations, op[t].kind = "DeleteMount"
    PROVE  KeepsAtEnd(t)
  <1> DEFINE o == op[t]
             row == MountRow(o.base)
             b == DeleteSt({row}, "ErrMountNotFound")
  <1>1. o \in NamespaceOps /\ o.base \in BaseURIs
    BY StepsOfOps, NamespaceFields DEF NamespaceKinds
  <1>2. Prog(t) = <<b>>
    BY NamespaceSpelled DEF Prog
  <1>3. \A code : ContractStep(o, code) <=>
            Returns(code, Contract!MountErr(o.base), Contract!DeleteMount(o.base))
    BY StepsOfOps DEF NamespaceKinds, PlaceStep
  <1>4. ~Reads(b) /\ b.err = "ErrMountNotFound" /\ row \in Rows /\ row[1] # "users"
    BY <1>1, RowNames, RowTables DEF DeleteSt, Reads
  <1>5. StoredMounts[o.base] = db[row]
    BY <1>1 DEF StoredMounts
  <1>6. ASSUME Stores(t) PROVE ContractStep(o, "nil")
    <2>1. Wrote(t, b)
      BY <1>2, <1>4, <1>6, OneEnds
    <2> HIDE DEF row
    <2>2. Changes({row}) /\ db[row] # None /\ db'[row] = None
      BY <1>4, <2>1, DeleteEnds
    <2>3. Contract!MountErr(o.base) = "nil"
      BY <1>5, <2>2 DEF Contract!MountErr, StoredMounts
    <2>4. Contract!DeleteMount(o.base)
      BY <1>1, <2>2, <2>3, MountMoves
         DEF Contract!DeleteMount, StoredMounts, StoredResources, StoredRoles, StoredGrants, row
    <2> QED
      BY <1>3, <2>3, <2>4 DEF Returns
  <1>7. ASSUME NEW st, Refused(t, st), Atomic(o, st.err) \/ ~overlapped[t]
        PROVE  ContractStep(o, st.err)
    <2>1. GormInv /\ db' = db /\ st = b /\ Met(t, b)
      BY <1>2, <1>4, <1>7, OneEnds
    <2>2. ~Atomic(o, "ErrMountNotFound")
      BY DEF Atomic
    <2> HIDE DEF row
    <2>3. db[row] = None
      BY <1>4, <1>7, <2>1, <2>2, DeleteEnds
    <2>4. Contract!MountErr(o.base) = "ErrMountNotFound"
      BY <1>5, <2>3 DEF Contract!MountErr, StoredMounts
    <2> QED
      BY <1>3, <1>4, <2>1, <2>4 DEF Returns
  <1> QED
    BY <1>6, <1>7 DEF KeepsAtEnd

LEMMA DeleteRoleEnds ==
    ASSUME NEW t \in Sessions, op[t] \in Operations, op[t].kind = "DeleteNamespaceRole"
    PROVE  KeepsAtEnd(t)
  <1> DEFINE o == op[t]
             row == RoleRow(o.ns, o.user)
             b == DeleteSt({row}, "ErrRoleNotFound")
  <1>1. o \in NamespaceOps /\ o.ns \in NamespaceIDs /\ o.user \in Usernames
    BY StepsOfOps, NamespaceFields DEF NamespaceKinds
  <1>2. Prog(t) = <<b>>
    BY NamespaceSpelled DEF Prog
  <1>3. \A code : ContractStep(o, code) <=>
            Returns(code, Contract!DeleteNamespaceRoleErr(o.ns, o.user),
                    Contract!DeleteNamespaceRole(o.ns, o.user))
    BY StepsOfOps DEF NamespaceKinds, PlaceStep
  <1>4. ~Reads(b) /\ b.err = "ErrRoleNotFound" /\ row \in Rows /\ row[1] = "namespace_roles"
    BY <1>1, RowNames, RowTables DEF DeleteSt, Reads
  <1>5. StoredRoles[o.ns][o.user] = IF db[row] = None THEN "none" ELSE db[row]
    BY <1>1 DEF StoredRoles
  <1>6. ASSUME Stores(t) PROVE ContractStep(o, "nil")
    <2>1. GormInv /\ Wrote(t, b)
      BY <1>2, <1>4, <1>6, OneEnds
    <2> HIDE DEF row
    <2>2. Changes({row}) /\ db[row] # None /\ db'[row] = None
      BY <1>4, <2>1, DeleteEnds
    <2>3. db[row] # "none"
      BY <1>4, <2>1 DEF GormInv, Typed, ValueOK
    <2>4. Contract!DeleteNamespaceRoleErr(o.ns, o.user) = "nil"
      BY <1>5, <2>2, <2>3 DEF Contract!DeleteNamespaceRoleErr, StoredRoles
    <2>5. Contract!DeleteNamespaceRole(o.ns, o.user)
      BY <1>1, <2>2, <2>4, RoleMoves
         DEF Contract!DeleteNamespaceRole, StoredMounts, StoredResources,
             StoredRoles, StoredGrants, row
    <2> QED
      BY <1>3, <2>4, <2>5 DEF Returns
  <1>7. ASSUME NEW st, Refused(t, st), Atomic(o, st.err) \/ ~overlapped[t]
        PROVE  ContractStep(o, st.err)
    <2>1. GormInv /\ db' = db /\ st = b /\ Met(t, b)
      BY <1>2, <1>4, <1>7, OneEnds
    <2>2. ~Atomic(o, "ErrRoleNotFound")
      BY DEF Atomic
    <2> HIDE DEF row
    <2>3. db[row] = None
      BY <1>4, <1>7, <2>1, <2>2, DeleteEnds
    <2>4. Contract!DeleteNamespaceRoleErr(o.ns, o.user) = "ErrRoleNotFound"
      BY <1>5, <2>3 DEF Contract!DeleteNamespaceRoleErr, StoredRoles
    <2> QED
      BY <1>3, <1>4, <2>1, <2>4 DEF Returns
  <1> QED
    BY <1>6, <1>7 DEF KeepsAtEnd

LEMMA SetRoleEnds ==
    ASSUME NEW t \in Sessions, op[t] \in Operations, op[t].kind = "SetNamespaceRole"
    PROVE  KeepsAtEnd(t)
  <1> DEFINE o == op[t]
             row == RoleRow(o.ns, o.user)
             a == NamespaceFound(o)
             b == IF o.role = "none" THEN DeleteSt({row}, "nil") ELSE SaveSt(row, o.role)
  <1>1. o \in NamespaceOps /\ o.ns \in NamespaceIDs /\ o.user \in Usernames /\ o.role \in SomeRoles
    BY StepsOfOps, NamespaceFields DEF NamespaceKinds
  <1>2. Prog(t) = <<a, b>>
    BY NamespaceSpelled DEF Prog
  <1>3. \A code : ContractStep(o, code) <=>
            Returns(code, Contract!NamespaceErr(o.ns),
                    Contract!SetNamespaceRole(o.ns, o.user, o.role))
    BY StepsOfOps DEF NamespaceKinds, PlaceStep
  <1>4. /\ Reads(a) /\ ~Reads(b) /\ a.row = NamespaceRow(o.ns) /\ a.err = "ErrNamespaceNotFound"
        /\ Stays(t, a.row)
    BY Tables DEF NamespaceFound, EnsureSt, SaveSt, DeleteSt, Reads, Stays
  <1>5. row \in Rows /\ row[1] # "users" /\ o.role # None
    BY <1>1, RowNames, RowTables, GormAssumption
  <1> HIDE DEF a
  <1>6. ASSUME Stores(t), Atomic(o, "nil") \/ ~overlapped[t] PROVE ContractStep(o, "nil")
    <2>1. GormInv /\ Wrote(t, b) /\ db[NamespaceRow(o.ns)] # None
      BY <1>2, <1>4, <1>6, PairEnds
    <2>2. o.role = "none" => ~overlapped[t]
      BY <1>6 DEF Atomic
    <2> HIDE DEF row
    <2>3. Changes({row}) /\ db'[row] = IF o.role = "none" THEN None ELSE o.role
      <3>1. CASE o.role = "none"
        <4>1. Wrote(t, DeleteSt({row}, "nil"))
          BY <2>1, <3>1
        <4> QED
          BY <1>5, <2>2, <3>1, <4>1, DeleteEnds
      <3>2. CASE o.role # "none"
        <4>1. Wrote(t, SaveSt(row, o.role))
          BY <2>1, <3>2
        <4> QED
          BY <1>5, <3>2, <4>1, SaveEnds
      <3> QED
        BY <3>1, <3>2
    <2>4. Contract!NamespaceErr(o.ns) = "nil"
      BY <1>1, <2>1, StoredExists DEF Contract!NamespaceErr
    <2>5. (IF db'[row] = None THEN "none" ELSE db'[row]) = o.role
      BY <1>5, <2>3
    <2>7. /\ StoredRoles' = [StoredRoles EXCEPT ![o.ns][o.user] = o.role]
          /\ UNCHANGED <<StoredUsers, StoredNamespaces, StoredResources,
                         StoredMounts, StoredGrants>>
      BY <1>1, <2>3, <2>5, RoleMoves DEF row
    <2>6. Contract!SetNamespaceRole(o.ns, o.user, o.role)
      BY <2>4, <2>7
         DEF Contract!SetNamespaceRole, StoredMounts, StoredResources, StoredRoles, StoredGrants
    <2> QED
      BY <1>3, <2>4, <2>6 DEF Returns
  <1>7. ASSUME NEW st, Refused(t, st) PROVE ContractStep(o, st.err)
    <2>0. ~Met(t, b)
      BY <1>5, SaveEnds, DeleteEnds
    <2>1. GormInv /\ db' = db /\ st = a /\ db[NamespaceRow(o.ns)] = None
      BY <1>2, <1>4, <1>7, <2>0, PairEnds
    <2>2. Contract!NamespaceErr(o.ns) = "ErrNamespaceNotFound"
      BY <1>1, <2>1, StoredExists DEF Contract!NamespaceErr
    <2> QED
      BY <1>3, <1>4, <2>1, <2>2 DEF Returns
  <1> QED
    BY <1>6, <1>7 DEF KeepsAtEnd

LEMMA SetGrantEnds ==
    ASSUME NEW t \in Sessions, op[t] \in Operations, op[t].kind = "SetMountGrant"
    PROVE  KeepsAtEnd(t)
  <1> DEFINE o == op[t]
             row == GrantRow(o.user, o.pattern)
             a == UserFound(o)
             b == SaveSt(row, "granted")
  <1>1. o \in AccountOps /\ o.user \in Usernames /\ o.pattern \in Patterns
    BY StepsOfOps, AccountFields DEF AccountKinds
  <1>2. Prog(t) = <<a, b>>
    BY AccountSpelled DEF Prog
  <1>3. \A code : ContractStep(o, code) <=>
            Returns(code, Contract!UserErr(o.user), Contract!SetMountGrant(o.user, o.pattern))
    BY StepsOfOps DEF AccountKinds, AccountStep
  <1>4. Reads(a) /\ ~Reads(b) /\ a.row = UserRow(o.user) /\ a.err = "ErrUserNotFound"
    BY DEF UserFound, EnsureSt, SaveSt, Reads
  <1>5. row \in Rows /\ None # "granted"
    BY <1>1, RowNames, GormAssumption
  <1> HIDE DEF a
  <1>6. ASSUME Stores(t), ~overlapped[t] PROVE ContractStep(o, "nil")
    <2>1. GormInv /\ Wrote(t, b) /\ db[UserRow(o.user)] # None
      BY <1>2, <1>4, <1>6, PairEnds DEF Stays
    <2> HIDE DEF row
    <2>2. Changes({row}) /\ db'[row] # None
      BY <1>5, <2>1, SaveEnds
    <2>3. Contract!UserErr(o.user) = "nil"
      BY <1>1, <2>1, StoredExists DEF Contract!UserErr
    <2>4. Contract!SetMountGrant(o.user, o.pattern)
      BY <1>1, <2>2, <2>3, GrantMoves
         DEF Contract!SetMountGrant, StoredMounts, StoredResources, StoredRoles, StoredGrants, row
    <2> QED
      BY <1>3, <2>3, <2>4 DEF Returns
  <1>7. ASSUME NEW st, Refused(t, st) PROVE ContractStep(o, st.err)
    <2>0. ~Met(t, b)
      BY <1>5, SaveEnds
    <2>1. GormInv /\ db' = db /\ st = a /\ db[UserRow(o.user)] = None
      BY <1>2, <1>4, <1>7, <2>0, PairEnds
    <2>2. Contract!UserErr(o.user) = "ErrUserNotFound"
      BY <1>1, <2>1, StoredExists DEF Contract!UserErr
    <2> QED
      BY <1>3, <1>4, <2>1, <2>2 DEF Returns
  <1>8. \A code : ~Atomic(o, code)
    BY DEF Atomic
  <1> QED
    BY <1>6, <1>7, <1>8 DEF KeepsAtEnd

LEMMA DeleteGrantEnds ==
    ASSUME NEW t \in Sessions, op[t] \in Operations, op[t].kind = "DeleteMountGrant"
    PROVE  KeepsAtEnd(t)
  <1> DEFINE o == op[t]
             row == GrantRow(o.user, o.pattern)
             a == UserFound(o)
             b == DeleteSt({row}, "ErrMountGrantNotFound")
  <1>1. o \in AccountOps /\ o.user \in Usernames /\ o.pattern \in Patterns
    BY StepsOfOps, AccountFields DEF AccountKinds
  <1>2. Prog(t) = <<a, b>>
    BY AccountSpelled DEF Prog
  <1>3. \A code : ContractStep(o, code) <=>
            Returns(code, Contract!DeleteMountGrantErr(o.user, o.pattern),
                    Contract!DeleteMountGrant(o.user, o.pattern))
    BY StepsOfOps DEF AccountKinds, AccountStep
  <1>4. /\ Reads(a) /\ ~Reads(b) /\ a.row = UserRow(o.user) /\ a.err = "ErrUserNotFound"
        /\ b.err = "ErrMountGrantNotFound"
    BY DEF UserFound, EnsureSt, DeleteSt, Reads
  <1>5. row \in Rows /\ row[1] # "users"
    BY <1>1, RowNames, RowTables
  <1>6. o.pattern \in StoredGrants[o.user] <=> db[row] # None
    BY <1>1 DEF StoredGrants
  <1> HIDE DEF a
  <1>7. ASSUME Stores(t), ~overlapped[t] PROVE ContractStep(o, "nil")
    <2>1. GormInv /\ Wrote(t, b) /\ db[UserRow(o.user)] # None
      BY <1>2, <1>4, <1>7, PairEnds DEF Stays
    <2> HIDE DEF row
    <2>2. Changes({row}) /\ db[row] # None /\ db'[row] = None
      BY <1>5, <2>1, DeleteEnds
    <2>3. Contract!DeleteMountGrantErr(o.user, o.pattern) = "nil"
      BY <1>1, <1>6, <2>1, <2>2, StoredExists DEF Contract!DeleteMountGrantErr, StoredGrants
    <2>4. Contract!DeleteMountGrant(o.user, o.pattern)
      BY <1>1, <2>2, <2>3, GrantMoves
         DEF Contract!DeleteMountGrant, StoredMounts, StoredResources,
             StoredRoles, StoredGrants, row
    <2> QED
      BY <1>3, <2>3, <2>4 DEF Returns
  <1>8. ASSUME NEW st, Refused(t, st), ~overlapped[t] PROVE ContractStep(o, st.err)
    <2>1. /\ GormInv /\ db' = db
          /\ \/ st = a /\ db[UserRow(o.user)] = None
             \/ st = b /\ Met(t, b) /\ db[UserRow(o.user)] # None
      BY <1>2, <1>4, <1>8, PairEnds DEF Stays
    <2> HIDE DEF row
    <2>2. Met(t, b) => db[row] = None
      BY <1>5, <1>8, DeleteEnds
    <2>3. Contract!DeleteMountGrantErr(o.user, o.pattern) = st.err /\ st.err # "nil"
      BY <1>1, <1>4, <1>6, <2>1, <2>2, StoredExists DEF Contract!DeleteMountGrantErr, StoredGrants
    <2> QED
      BY <1>3, <2>1, <2>3 DEF Returns
  <1>9. \A code : ~Atomic(o, code)
    BY DEF Atomic
  <1> QED
    BY <1>7, <1>8, <1>9 DEF KeepsAtEnd

-----------------------------------------------------------------------------
(* Accounts *)

LEMMA TripleEnds ==
    ASSUME NEW t \in Sessions, NEW a, NEW b, NEW c, Prog(t) = <<a, b, c>>,
           Reads(a), Reads(b), ~Reads(c)
    PROVE  /\ Stores(t) =>
                  /\ GormInv /\ Wrote(t, c) /\ (Stays(t, a.row) => db[a.row] # None)
                  /\ Stays(t, b.row) => db[b.row] # None
           /\ \A st : Refused(t, st) =>
                  /\ GormInv /\ db' = db
                  /\ \/ st = a /\ db[a.row] = None
                     \/ st = b /\ db[b.row] = None /\ (Stays(t, a.row) => db[a.row] # None)
                     \/ st = c /\ Met(t, c)
  <1>1. /\ LastOf(t, c) /\ 1 \in 1..Len(Prog(t)) /\ Prog(t)[1] = a
        /\ 2 \in 1..Len(Prog(t)) /\ Prog(t)[2] = b /\ Prog(t)[3] = c /\ Len(Prog(t)) = 3
    BY LastOfTriple
  <1>2. ASSUME Stores(t)
        PROVE  /\ GormInv /\ Wrote(t, c) /\ (Stays(t, a.row) => db[a.row] # None)
               /\ Stays(t, b.row) => db[b.row] # None
    <2>1. GormInv /\ Sound(t) /\ 1 \in Past(t) /\ 2 \in Past(t)
      BY <1>1, <1>2, AtTheEnd DEF Stores, Consistent
    <2>2. Stays(t, a.row) => db[a.row] # None
      BY <1>1, <2>1, ReadStays DEF Stays
    <2>3. Stays(t, b.row) => db[b.row] # None
      BY <1>1, <2>1, ReadStays DEF Stays
    <2>4. Wrote(t, c)
      BY <1>1, <1>2, OneWrite DEF Wrote
    <2> QED
      BY <2>1, <2>2, <2>3, <2>4
  <1>3. ASSUME NEW st, Refused(t, st)
        PROVE  /\ GormInv /\ db' = db
               /\ \/ st = a /\ db[a.row] = None
                  \/ st = b /\ db[b.row] = None /\ (Stays(t, a.row) => db[a.row] # None)
                  \/ st = c /\ Met(t, c)
    <2>1. GormInv /\ db' = db
      BY <1>3 DEF Refused, Consistent
    <2>2. at[t] \in 1..Len(Prog(t)) /\ st = Prog(t)[at[t]]
      BY <1>1, <1>3, LastRefusal
    <2>3. CASE at[t] = 1
      BY <1>1, <1>3, <2>1, <2>2, <2>3, LastRefusal
    <2>4. CASE at[t] = 2
      <3>1. st = b /\ 1 < at[t]
        BY <1>1, <2>2, <2>4
      <3>2. Stays(t, a.row) => db[a.row] # None
        BY <1>1, <1>3, <3>1, LastRefusal DEF Stays
      <3>3. db[b.row] = None
        BY <1>1, <1>3, <3>1, LastRefusal
      <3> QED
        BY <2>1, <3>1, <3>2, <3>3
    <2>5. CASE at[t] = 3
      <3>1. st = c
        BY <1>1, <2>2, <2>5
      <3>2. Met(t, c)
        BY <1>1, <1>3, <3>1, LastRefusal DEF Met
      <3> QED
        BY <2>1, <3>1, <3>2
    <2> QED
      BY <1>1, <2>2, <2>3, <2>4, <2>5
  <1> QED
    BY <1>2, <1>3

\* Only what is stored of u changes.
LEMMA UserMoves ==
    ASSUME NEW u \in Usernames, NEW D, Changes(D),
           \A row \in D : row[1] \in {"users", "user_passwords", "user_api_keys"} /\ row[2] = u
    PROVE  /\ \A v : StoredUsers'[u] = v => StoredUsers' = [StoredUsers EXCEPT ![u] = v]
           /\ UNCHANGED <<StoredNamespaces, StoredResources, StoredRoles,
                          StoredMounts, StoredGrants>>
  <1>1. \A w \in Usernames : w # u =>
            /\ UserRow(w) \notin D /\ PasswordRow(w) \notin D
            /\ \A k \in KeyIDs : KeyRow(w, k) \notin D
    BY RowTables
  <1>2. \A w \in Usernames : w # u =>
            /\ db'[UserRow(w)] = db[UserRow(w)] /\ db'[PasswordRow(w)] = db[PasswordRow(w)]
            /\ \A k \in KeyIDs : db'[KeyRow(w, k)] = db[KeyRow(w, k)]
    BY <1>1, RowNames DEF Changes
  <1>3. \A w \in Usernames : w # u => StoredUsers'[w] = StoredUsers[w]
    BY <1>2 DEF StoredUsers
  <1>4. ASSUME NEW v, StoredUsers'[u] = v PROVE StoredUsers' = [StoredUsers EXCEPT ![u] = v]
    <2>1. StoredUsers' = [w \in Usernames |-> StoredUsers'[w]]
      BY DEF StoredUsers
    <2>2. StoredUsers = [w \in Usernames |-> StoredUsers[w]]
      BY DEF StoredUsers
    <2> QED
      BY <1>3, <1>4, <2>1, <2>2
  <1>5. \A row \in D : row[1] \notin {"namespaces", "namespace_tags", "resources",
                                      "namespace_roles", "mounts", "user_mount_grants"}
    OBVIOUS
  <1> QED
    BY <1>4, <1>5, Unmoved

LEMMA CreateUserEnds ==
    ASSUME NEW t \in Sessions, op[t] \in Operations, op[t].kind = "CreateUser"
    PROVE  KeepsAtEnd(t)
  <1> DEFINE o == op[t]
             u == o.user
             v == [superuser |-> o.superuser]
             b == CreateSt(UserRow(u), v, "ErrDuplicateUsername")
  <1>1. o \in AccountOps /\ u \in Usernames /\ o.superuser \in BOOLEAN
    BY StepsOfOps, AccountFields DEF AccountKinds
  <1>2. Prog(t) = <<b>>
    BY AccountSpelled DEF Prog
  <1>3. \A code : ContractStep(o, code) <=>
            Returns(code, Contract!CreateUserErr(u), Contract!CreateUser(u, o.superuser))
    BY StepsOfOps DEF AccountKinds, AccountStep
  <1>4. /\ ~Reads(b) /\ b.err = "ErrDuplicateUsername"
    BY DEF CreateSt, Reads
  <1>5. UserRow(u) \in Rows /\ v # None /\ v.superuser = o.superuser
    <2>1. v \in UserValue
      BY <1>1 DEF UserValue
    <2> QED
      BY <1>1, <2>1, RowNames, NoneIsNoValue
  <1> HIDE DEF u, v
  <1>6. ASSUME Stores(t) PROVE ContractStep(o, "nil")
    <2>1. GormInv /\ Wrote(t, b)
      BY <1>2, <1>4, <1>6, OneEnds
    <2>2. Changes({UserRow(u)}) /\ db[UserRow(u)] = None /\ db'[UserRow(u)] = v
      BY <1>5, <2>1, CreateEnds
    <2>3. db[PasswordRow(u)] = None /\ \A k \in KeyIDs : db[KeyRow(u, k)] = None
      BY <1>1, <2>1, <2>2, Owners DEF RowsHaveOwners, KeysOf
    <2>4. db'[PasswordRow(u)] = None /\ \A k \in KeyIDs : db'[KeyRow(u, k)] = None
      BY <1>1, <2>2, <2>3, RowNames, RowTables DEF Changes
    <2>5. StoredUsers'[u] = [superuser |-> o.superuser, passwordHash |-> None,
                             keys |-> [k \in KeyIDs |-> None]]
      BY <1>1, <1>5, <2>2, <2>4 DEF StoredUsers
    <2>6. \A row \in {UserRow(u)} : row[1] = "users" /\ row[2] = u
      BY RowTables
    <2>7. /\ StoredUsers' = [StoredUsers EXCEPT ![u] =
                 [superuser |-> o.superuser, passwordHash |-> None,
                  keys |-> [k \in KeyIDs |-> None]]]
          /\ UNCHANGED <<StoredNamespaces, StoredResources, StoredRoles,
                         StoredMounts, StoredGrants>>
      BY <1>1, <2>2, <2>5, <2>6, UserMoves
    <2>8. Contract!CreateUserErr(u) = "nil"
      BY <1>1, <2>1, <2>2, StoredExists DEF Contract!CreateUserErr
    <2>9. Contract!CreateUser(u, o.superuser)
      BY <2>7, <2>8 DEF Contract!CreateUser, Contract!NoKeys, StoredMounts, StoredResources,
                        StoredRoles, StoredGrants
    <2> QED
      BY <1>3, <2>8, <2>9 DEF Returns
  <1>7. ASSUME NEW st, Refused(t, st) PROVE ContractStep(o, st.err)
    <2>1. GormInv /\ db' = db /\ st = b /\ Met(t, b)
      BY <1>2, <1>4, <1>7, OneEnds
    <2>2. db[UserRow(u)] # None
      BY <1>5, <2>1, CreateEnds
    <2>3. Contract!CreateUserErr(u) = "ErrDuplicateUsername"
      BY <1>1, <2>1, <2>2, StoredExists DEF Contract!CreateUserErr
    <2> QED
      BY <1>3, <1>4, <2>1, <2>3 DEF Returns
  <1> QED
    BY <1>6, <1>7 DEF KeepsAtEnd

\* What is stored of a user who stays.
LEMMA StoredUser ==
    ASSUME NEW u \in Usernames, db[UserRow(u)] # None
    PROVE  StoredUsers[u] = [superuser    |-> db[UserRow(u)].superuser,
                             passwordHash |-> db[PasswordRow(u)],
                             keys         |-> [k \in KeyIDs |-> db[KeyRow(u, k)]]]
  BY DEF StoredUsers

LEMMA SetPasswordEnds ==
    ASSUME NEW t \in Sessions, op[t] \in Operations, op[t].kind = "SetPassword"
    PROVE  KeepsAtEnd(t)
  <1> DEFINE o == op[t]
             u == o.user
             row == PasswordRow(u)
             a == UserFound(o)
             new == IF o.password = None THEN None ELSE PasswordHash(o.password)
             b == IF o.password = None THEN DeleteSt({row}, "nil")
                  ELSE SaveSt(row, PasswordHash(o.password))
  <1>1. o \in AccountOps /\ u \in Usernames
    BY StepsOfOps, AccountFields DEF AccountKinds
  <1>2. Prog(t) = <<a, b>>
    BY AccountSpelled DEF Prog
  <1>3. \A code : ContractStep(o, code) <=>
            Returns(code, Contract!UserErr(u), Contract!SetPassword(u, o.password))
    BY StepsOfOps DEF AccountKinds, AccountStep
  <1>4. Reads(a) /\ ~Reads(b) /\ a.row = UserRow(u) /\ a.err = "ErrUserNotFound"
    BY DEF UserFound, EnsureSt, SaveSt, DeleteSt, Reads
  <1>5. row \in Rows /\ row[1] = "user_passwords" /\ row[2] = u
    BY <1>1, RowNames, RowTables
  <1> HIDE DEF a, u
  <1>6. ASSUME Stores(t), ~overlapped[t] PROVE ContractStep(o, "nil")
    <2>1. GormInv /\ Wrote(t, b) /\ db[UserRow(u)] # None
      BY <1>2, <1>4, <1>6, PairEnds DEF Stays
    <2> HIDE DEF row
    <2>2. Changes({row}) /\ db'[row] = new
      <3>1. CASE o.password = None
        <4>1. Wrote(t, DeleteSt({row}, "nil"))
          BY <2>1, <3>1
        <4> QED
          BY <1>5, <1>6, <3>1, <4>1, DeleteEnds
      <3>2. CASE o.password # None
        <4>1. Wrote(t, SaveSt(row, PasswordHash(o.password)))
          BY <2>1, <3>2
        <4> QED
          BY <1>5, <3>2, <4>1, SaveEnds
      <3> QED
        BY <3>1, <3>2
    <2>3. /\ db'[UserRow(u)] = db[UserRow(u)]
          /\ \A k \in KeyIDs : db'[KeyRow(u, k)] = db[KeyRow(u, k)]
      BY <1>1, <1>5, <2>2, RowNames, RowTables DEF Changes
    <2>4. StoredUsers'[u] = [superuser |-> db[UserRow(u)].superuser, passwordHash |-> new,
                             keys |-> [k \in KeyIDs |-> db[KeyRow(u, k)]]]
      <3>1. db'[PasswordRow(u)] = new /\ db'[UserRow(u)] # None
        BY <2>1, <2>2, <2>3 DEF row
      <3> HIDE DEF new
      <3> QED
        BY <1>1, <2>3, <3>1 DEF StoredUsers
    <2>5. StoredUsers'[u] = [StoredUsers[u] EXCEPT !.passwordHash = new]
      <3>1. StoredUsers[u] = [superuser |-> db[UserRow(u)].superuser,
                              passwordHash |-> db[PasswordRow(u)],
                              keys |-> [k \in KeyIDs |-> db[KeyRow(u, k)]]]
        BY <1>1, <2>1, StoredUser
      <3> HIDE DEF new
      <3> QED
        BY <2>4, <3>1
    <2>6. \A r \in {row} : r[1] = "user_passwords" /\ r[2] = u
      BY <1>5
    <2>7. /\ StoredUsers' = [StoredUsers EXCEPT ![u] = [StoredUsers[u] EXCEPT !.passwordHash = new]]
          /\ UNCHANGED <<StoredNamespaces, StoredResources, StoredRoles,
                         StoredMounts, StoredGrants>>
      BY <1>1, <2>2, <2>5, <2>6, UserMoves
    <2>8. Contract!UserErr(u) = "nil"
      BY <1>1, <2>1, StoredExists DEF Contract!UserErr
    <2>9. Contract!SetPassword(u, o.password)
      BY <2>7, <2>8 DEF Contract!SetPassword, Contract!PasswordHash, PasswordHash, StoredMounts,
                        StoredResources, StoredRoles, StoredGrants
    <2> QED
      BY <1>3, <2>8, <2>9 DEF Returns
  <1>7. ASSUME NEW st, Refused(t, st) PROVE ContractStep(o, st.err)
    <2>0. ~Met(t, b)
      BY <1>5, SaveEnds, DeleteEnds
    <2>1. GormInv /\ db' = db /\ st = a /\ db[UserRow(u)] = None
      BY <1>2, <1>4, <1>7, <2>0, PairEnds
    <2>2. Contract!UserErr(u) = "ErrUserNotFound"
      BY <1>1, <2>1, StoredExists DEF Contract!UserErr
    <2> QED
      BY <1>3, <1>4, <2>1, <2>2 DEF Returns
  <1>8. \A code : ~Atomic(o, code)
    BY DEF Atomic
  <1> QED
    BY <1>6, <1>7, <1>8 DEF KeepsAtEnd

\* A key is added to a user, or taken away.
LEMMA KeyMoves ==
    ASSUME NEW u \in Usernames, NEW k \in KeyIDs, Changes({KeyRow(u, k)}), db[UserRow(u)] # None
    PROVE  /\ StoredUsers' = [StoredUsers EXCEPT ![u].keys[k] = db'[KeyRow(u, k)]]
           /\ UNCHANGED <<StoredNamespaces, StoredResources, StoredRoles,
                          StoredMounts, StoredGrants>>
  <1> DEFINE row == KeyRow(u, k)
             new == db'[KeyRow(u, k)]
             keys == [j \in KeyIDs |-> db[KeyRow(u, j)]]
  <1>1. \A r \in {row} : r[1] = "user_api_keys" /\ r[2] = u
    BY RowTables
  <1>2. /\ db'[UserRow(u)] = db[UserRow(u)] /\ db'[PasswordRow(u)] = db[PasswordRow(u)]
        /\ \A j \in KeyIDs : j # k => db'[KeyRow(u, j)] = db[KeyRow(u, j)]
    <2>1. \A j \in KeyIDs : j # k => KeyRow(u, j) \notin {row}
      BY DEF KeyRow
    <2> QED
      BY <1>1, <2>1, RowNames, RowTables DEF Changes
  <1>3. [j \in KeyIDs |-> db'[KeyRow(u, j)]] = [keys EXCEPT ![k] = new]
    BY <1>2
  <1>4. StoredUsers'[u] = [superuser    |-> db[UserRow(u)].superuser,
                           passwordHash |-> db[PasswordRow(u)],
                           keys         |-> [j \in KeyIDs |-> db'[KeyRow(u, j)]]]
    BY <1>2 DEF StoredUsers
  <1>5. StoredUsers[u] = [superuser    |-> db[UserRow(u)].superuser,
                          passwordHash |-> db[PasswordRow(u)],
                          keys         |-> keys]
    BY StoredUser
  <1> HIDE DEF keys, new, row
  <1>6. StoredUsers'[u] = [StoredUsers[u] EXCEPT !.keys = [@ EXCEPT ![k] = new]]
    BY <1>3, <1>4, <1>5
  <1>7. /\ StoredUsers' = [StoredUsers EXCEPT ![u] =
               [StoredUsers[u] EXCEPT !.keys = [@ EXCEPT ![k] = new]]]
        /\ UNCHANGED <<StoredNamespaces, StoredResources, StoredRoles, StoredMounts, StoredGrants>>
    BY <1>1, <1>6, UserMoves DEF row
  <1> QED
    BY <1>7 DEF new

LEMMA CreateKeyEnds ==
    ASSUME NEW t \in Sessions, op[t] \in Operations, op[t].kind = "CreateKey"
    PROVE  KeepsAtEnd(t)
  <1> DEFINE o == op[t]
             u == o.user
             row == KeyRow(u, o.key)
             a == UserFound(o)
             v == NewKey(o)
             b == CreateSt(row, v, "ErrKeyCollision")
  <1>1. o \in AccountOps /\ u \in Usernames /\ o.key \in KeyIDs
    BY StepsOfOps, AccountFields DEF AccountKinds
  <1>2. Prog(t) = <<a, b>>
    BY AccountSpelled DEF Prog
  <1>3. \A code : ContractStep(o, code) <=>
            \/ OnlySecretTaken(o) /\ code = "nil"
            \/ Returns(code, Contract!CreateKeyErr(u, o.key, o.raw),
                       Contract!CreateKey(u, o.key, o.raw, o.expiresAt, o.scopes))
    BY StepsOfOps DEF AccountKinds, AccountStep
  <1>4. /\ Reads(a) /\ ~Reads(b) /\ a.row = UserRow(u) /\ a.err = "ErrUserNotFound"
        /\ b.err = "ErrKeyCollision" /\ b.do = "create" /\ b.row = row /\ b.value = v
    BY DEF UserFound, EnsureSt, CreateSt, Reads
  <1>5. /\ row \in Rows /\ UserRow(u) \in Rows /\ row # UserRow(u)
        /\ row[1] = "user_api_keys" /\ row[2] = u
    BY <1>1, RowNames, RowTables
  <1> HIDE DEF a, u, row, v
  <1>6. ASSUME Stores(t) PROVE ContractStep(o, "nil")
    <2>1. GormInv /\ Wrote(t, b)
      BY <1>2, <1>4, <1>6, PairEnds
    <2>2. Changes({row}) /\ db[row] = None /\ db'[row] = v
      BY <1>5, <2>1, CreateEnds
    <2>3. db[UserRow(u)] # None
      <3>1. Traced(t) /\ Past(t) = 1..Len(Prog(t)) /\ op[t] \in Operations
        BY <1>6, AtTheEnd DEF Stores, Consistent
      <3>2. Len(Prog(t)) = 2 /\ Prog(t)[2] = b /\ 2 \in Past(t) /\ Prog(t)[1] = a
        BY <1>2, <3>1
      <3>3. View(t, row) = v
        <4>1. Done(t, b)
          BY <3>1, <3>2 DEF Traced, Reached
        <4> HIDE DEF b
        <4> QED
          BY <1>4, <4>1 DEF Done, Puts, View
      <3>4. v # None
        <4>1. StatementOK(op[t], b)
          BY <1>6, <3>1, <3>2, AtTheEnd
        <4> QED
          BY <1>4, <4>1 DEF StatementOK
      <3>5. View(t, UserRow(u)) # None
        BY <1>5, <2>1, <3>3, <3>4, ParentsOf DEF GormInv, Owned, OfUser
      <3>6. \A j \in Past(t) : ~Reaches(Prog(t)[j], UserRow(u))
        <4>1. ~Reaches(a, UserRow(u)) /\ ~Reaches(b, UserRow(u))
          BY <1>4, <1>5 DEF Reaches, Reads
        <4>2. \A j \in Past(t) : j = 1 \/ j = 2
          BY <3>1, <3>2
        <4> QED
          BY <3>2, <4>1, <4>2
      <3>7. UserRow(u) \notin DOMAIN pending[t]
        BY <3>1, <3>6 DEF Traced, Reached
      <3> QED
        BY <3>5, <3>7 DEF View
    <2>4. Contract!UserExists(u) /\ Contract!KeyAt(u, o.key) = None
      BY <1>1, <2>1, <2>2, <2>3, StoredExists, StoredKeys DEF row
    <2>5. CASE Contract!SecretTaken(u, Contract!Hash(o.raw))
      <3>1. db' = [db EXCEPT ![row] = v]
        <4>1. \A r \in Rows : db'[r] = IF r = row THEN v ELSE db[r]
          BY <2>2 DEF Changes
        <4>2. db' = [r \in Rows |-> IF r = row THEN v ELSE db[r]]
          BY <1>6, <4>1 DEF Stores
        <4>3. DOMAIN db = Rows
          BY <2>1 DEF GormInv, Typed
        <4> QED
          BY <4>2, <4>3
      <3>2. OnlySecretTaken(o)
        BY <2>4, <2>5, <3>1 DEF OnlySecretTaken, u, row, v
      <3> QED
        BY <1>3, <3>2
    <2>6. CASE ~Contract!SecretTaken(u, Contract!Hash(o.raw))
      <3>1. Contract!CreateKeyErr(u, o.key, o.raw) = "nil"
        BY <2>4, <2>6 DEF Contract!CreateKeyErr
      <3>2. v = [prefix |-> Contract!Hash(o.raw).prefix, digest |-> Contract!Hash(o.raw).digest,
                 expiresAt |-> o.expiresAt, scopes |-> o.scopes]
        BY DEF v, NewKey, Digest, Contract!Hash, Contract!Digest
      <3>3. /\ StoredUsers' = [StoredUsers EXCEPT ![u].keys[o.key] = v]
            /\ UNCHANGED <<StoredNamespaces, StoredResources, StoredRoles,
                           StoredMounts, StoredGrants>>
        BY <1>1, <2>2, <2>3, KeyMoves DEF row
      <3>4. Contract!CreateKey(u, o.key, o.raw, o.expiresAt, o.scopes)
        BY <3>1, <3>2, <3>3
           DEF Contract!CreateKey, StoredMounts, StoredResources, StoredRoles, StoredGrants
      <3> QED
        BY <1>3, <3>1, <3>4 DEF Returns
    <2> QED
      BY <2>5, <2>6
  <1>7. ASSUME NEW st, Refused(t, st) PROVE ContractStep(o, st.err)
    <2>1. /\ GormInv /\ db' = db
          /\ (st = a /\ db[UserRow(u)] = None) \/ (st = b /\ Met(t, b))
      BY <1>2, <1>4, <1>7, PairEnds
    <2>2. Met(t, b) => db[row] # None
      BY <1>5, CreateEnds
    <2>3. db[row] # None => db[UserRow(u)] # None
      BY <1>1, <2>1, Owners DEF RowsHaveOwners, KeysOf, row
    <2>4. Contract!KeyAt(u, o.key) = db[row]
      BY <1>1, <2>1, StoredKeys DEF row
    <2>5. Contract!CreateKeyErr(u, o.key, o.raw) = st.err /\ st.err # "nil"
      BY <1>1, <1>4, <2>1, <2>2, <2>3, <2>4, StoredExists DEF Contract!CreateKeyErr
    <2> QED
      BY <1>3, <2>1, <2>5 DEF Returns
  <1> QED
    BY <1>6, <1>7 DEF KeepsAtEnd

LEMMA RevokeKeyEnds ==
    ASSUME NEW t \in Sessions, op[t] \in Operations, op[t].kind = "RevokeKey"
    PROVE  KeepsAtEnd(t)
  <1> DEFINE o == op[t]
             u == o.user
             row == KeyRow(u, o.key)
             a == UserFound(o)
             b == EnsureSt(row, "ErrKeyNotFound")
             c == DeleteSt({row}, "nil")
  <1>1. o \in AccountOps /\ u \in Usernames /\ o.key \in KeyIDs
    BY StepsOfOps, AccountFields DEF AccountKinds
  <1>2. Prog(t) = <<a, b, c>>
    BY AccountSpelled DEF Prog
  <1>3. \A code : ContractStep(o, code) <=>
            Returns(code, Contract!RevokeKeyErr(u, o.key), Contract!RevokeKey(u, o.key))
    BY StepsOfOps DEF AccountKinds, AccountStep
  <1>4. /\ Reads(a) /\ Reads(b) /\ ~Reads(c)
        /\ a.row = UserRow(u) /\ a.err = "ErrUserNotFound"
        /\ b.row = row /\ b.err = "ErrKeyNotFound"
    BY DEF UserFound, EnsureSt, DeleteSt, Reads
  <1>5. row \in Rows /\ row[1] # "users"
    BY <1>1, RowNames, RowTables
  <1> HIDE DEF a, b, u, row
  <1>6. ASSUME Stores(t), ~overlapped[t] PROVE ContractStep(o, "nil")
    <2>1. GormInv /\ Wrote(t, c) /\ db[UserRow(u)] # None /\ db[row] # None
      BY <1>2, <1>4, <1>6, TripleEnds DEF Stays
    <2>2. Changes({row}) /\ db'[row] = None
      BY <1>5, <1>6, <2>1, DeleteEnds
    <2>3. Contract!RevokeKeyErr(u, o.key) = "nil"
      BY <1>1, <2>1, StoredExists, StoredKeys DEF Contract!RevokeKeyErr, row
    <2>4. /\ StoredUsers' = [StoredUsers EXCEPT ![u].keys[o.key] = None]
          /\ UNCHANGED <<StoredNamespaces, StoredResources, StoredRoles,
                         StoredMounts, StoredGrants>>
      BY <1>1, <2>1, <2>2, KeyMoves DEF row
    <2>5. Contract!RevokeKey(u, o.key)
      BY <2>3, <2>4
         DEF Contract!RevokeKey, StoredMounts, StoredResources, StoredRoles, StoredGrants
    <2> QED
      BY <1>3, <2>3, <2>5 DEF Returns
  <1>7. ASSUME NEW st, Refused(t, st), ~overlapped[t] PROVE ContractStep(o, st.err)
    <2>0. ~Met(t, c)
      BY <1>5, DeleteEnds
    <2>1. /\ GormInv /\ db' = db
          /\ \/ st = a /\ db[UserRow(u)] = None
             \/ st = b /\ db[row] = None /\ db[UserRow(u)] # None
      BY <1>2, <1>4, <1>7, <2>0, TripleEnds DEF Stays
    <2>2. Contract!KeyAt(u, o.key) = db[row]
      BY <1>1, <2>1, StoredKeys DEF row
    <2>3. Contract!RevokeKeyErr(u, o.key) = st.err /\ st.err # "nil"
      BY <1>1, <1>4, <2>1, <2>2, StoredExists DEF Contract!RevokeKeyErr
    <2> QED
      BY <1>3, <2>1, <2>3 DEF Returns
  <1>8. \A code : ~Atomic(o, code)
    BY DEF Atomic
  <1> QED
    BY <1>6, <1>7, <1>8 DEF KeepsAtEnd

LEMMA UpdateUserEnds ==
    ASSUME NEW t \in Sessions, op[t] \in Operations, op[t].kind = "UpdateUser"
    PROVE  KeepsAtEnd(t)
  <1> DEFINE o == op[t]
             u == o.user
             row == UserRow(u)
             set == [superuser |-> o.superuser]
             a == FirstSt(row, "ErrUserNotFound")
             b == UpdateSt(row, set)
  <1>1. o \in AccountOps /\ u \in Usernames /\ o.superuser \in Optional(BOOLEAN)
    BY StepsOfOps, AccountFields DEF AccountKinds
  <1>2. IF o.superuser = None THEN Prog(t) = <<a>> ELSE Prog(t) = <<a, b>>
    BY AccountSpelled DEF Prog
  <1>3. \A code : ContractStep(o, code) <=>
            Returns(code, Contract!UserErr(u), Contract!UpdateUser(u, o.superuser))
    BY StepsOfOps DEF AccountKinds, AccountStep
  <1>4. Reads(a) /\ ~Reads(b) /\ a.row = row /\ a.err = "ErrUserNotFound"
    BY DEF FirstSt, UpdateSt, Reads
  <1>5. row \in Rows /\ row[1] = "users" /\ row[2] = u
    BY <1>1, RowNames, RowTables
  <1> HIDE DEF a, u
  <1>6. ASSUME Stores(t), ~overlapped[t] PROVE ContractStep(o, "nil")
    <2>1. /\ GormInv /\ db[row] # None
          /\ IF o.superuser = None THEN Changes({}) ELSE Wrote(t, b)
      <3>1. CASE o.superuser = None
        <4>1. Prog(t) = <<a>>
          BY <1>2, <3>1
        <4>2. LastOf(t, a)
          BY <4>1, LastOfOne
        <4>3. {r \in Rows : Reaches(a, r)} = {}
          BY <1>4 DEF Reaches, Reads
        <4>4. Changes({})
          BY <1>6, <4>2, <4>3, OneWrite
        <4>5. GormInv /\ Sound(t) /\ Past(t) = 1..1
          BY <1>6, <4>1, AtTheEnd DEF Stores, Consistent
        <4>6. 1 \in Past(t) /\ Prog(t)[1] = a
          BY <4>1, <4>5
        <4>7. db[row] # None
          BY <1>4, <1>6, <4>5, <4>6, ReadStays
        <4> QED
          BY <3>1, <4>4, <4>5, <4>7
      <3>2. CASE o.superuser # None
        <4>1. Prog(t) = <<a, b>>
          BY <1>2, <3>2
        <4> QED
          BY <1>4, <1>6, <3>2, <4>1, PairEnds DEF Stays
      <3> QED
        BY <3>1, <3>2
    <2>2. db[row] \in UserValue
      BY <1>5, <2>1 DEF GormInv, Typed, ValueOK, Optional
    <2>3. /\ db'[row] # None
          /\ db'[row].superuser = Contract!UpdatedSuperuser(db[row].superuser, o.superuser)
      <3>1. CASE o.superuser = None
        BY <1>5, <2>1, <3>1 DEF Changes, Contract!UpdatedSuperuser
      <3>2. CASE o.superuser # None
        <4>1. db'[row] = With(db[row], set)
          BY <1>5, <1>6, <2>1, <3>2, UpdateEnds
        <4>2. With(db[row], set) \in UserValue /\ With(db[row], set).superuser = o.superuser
          BY <1>1, <2>2, <3>2 DEF With, UserValue, Optional
        <4> QED
          BY <3>2, <4>1, <4>2, NoneIsNoValue DEF Contract!UpdatedSuperuser
      <3> QED
        BY <3>1, <3>2
    <2>4. Changes({row})
      <3>1. CASE o.superuser = None
        BY <2>1, <3>1 DEF Changes
      <3>2. CASE o.superuser # None
        BY <1>5, <1>6, <2>1, <3>2, UpdateEnds
      <3> QED
        BY <3>1, <3>2
    <2>5. /\ db'[PasswordRow(u)] = db[PasswordRow(u)]
          /\ \A k \in KeyIDs : db'[KeyRow(u, k)] = db[KeyRow(u, k)]
      BY <1>1, <1>5, <2>4, RowNames, RowTables DEF Changes
    <2> DEFINE new == Contract!UpdatedSuperuser(db[row].superuser, o.superuser)
    <2>6. StoredUsers'[u] = [superuser |-> db'[row].superuser, passwordHash |-> db[PasswordRow(u)],
                             keys |-> [k \in KeyIDs |-> db[KeyRow(u, k)]]]
      BY <1>1, <2>3, <2>5 DEF StoredUsers
    <2>7. StoredUsers[u] = [superuser |-> db[row].superuser, passwordHash |-> db[PasswordRow(u)],
                            keys |-> [k \in KeyIDs |-> db[KeyRow(u, k)]]]
      BY <1>1, <2>1, StoredUser
    <2>8. StoredUsers'[u] = [StoredUsers[u] EXCEPT !.superuser =
                                Contract!UpdatedSuperuser(@, o.superuser)]
      <3>1. StoredUsers[u].superuser = db[row].superuser
        BY <2>7
      <3> HIDE DEF row
      <3> QED
        BY <2>3, <2>6, <2>7, <3>1
    <2>9. /\ StoredUsers' = [StoredUsers EXCEPT ![u] =
                 [StoredUsers[u] EXCEPT !.superuser =
                                Contract!UpdatedSuperuser(@, o.superuser)]]
          /\ UNCHANGED <<StoredNamespaces, StoredResources, StoredRoles,
                         StoredMounts, StoredGrants>>
      <3>1. \A r \in {row} : r[1] = "users" /\ r[2] = u
        BY <1>5
      <3> QED
        BY <1>1, <2>4, <2>8, <3>1, UserMoves
    <2>10. Contract!UserErr(u) = "nil"
      BY <1>1, <2>1, StoredExists DEF Contract!UserErr
    <2>11. Contract!UpdateUser(u, o.superuser)
      BY <2>9, <2>10
         DEF Contract!UpdateUser, StoredMounts, StoredResources, StoredRoles, StoredGrants
    <2> QED
      BY <1>3, <2>10, <2>11 DEF Returns
  <1>7. ASSUME NEW st, Refused(t, st) PROVE ContractStep(o, st.err)
    <2>1. GormInv /\ db' = db
      BY <1>7 DEF Refused, Consistent
    <2>2. st = a /\ db[row] = None
      <3>1. CASE o.superuser = None
        <4>1. Prog(t) = <<a>>
          BY <1>2, <3>1
        <4>2. LastOf(t, a)
          BY <4>1, LastOfOne
        <4>3. at[t] \in 1..Len(Prog(t)) /\ st = Prog(t)[at[t]]
          BY <1>7, <4>2, LastRefusal
        <4>4. st = a
          BY <4>1, <4>3
        <4> QED
          BY <1>4, <1>7, <4>2, <4>4, LastRefusal
      <3>2. CASE o.superuser # None
        <4>1. Prog(t) = <<a, b>>
          BY <1>2, <3>2
        <4>2. ~Met(t, b)
          BY <1>5, UpdateEnds
        <4> QED
          BY <1>4, <1>7, <4>1, <4>2, PairEnds
      <3> QED
        BY <3>1, <3>2
    <2>3. Contract!UserErr(u) = "ErrUserNotFound"
      BY <1>1, <2>1, <2>2, StoredExists DEF Contract!UserErr
    <2> QED
      BY <1>3, <1>4, <2>1, <2>2, <2>3 DEF Returns
  <1>8. \A code : ~Atomic(o, code)
    BY DEF Atomic
  <1> QED
    BY <1>6, <1>7, <1>8 DEF KeepsAtEnd

\* Everything of u goes, and nothing else.
LEMMA UserGoes ==
    ASSUME NEW u \in Usernames, Changes(RowsOfUser(u)), \A row \in RowsOfUser(u) : db'[row] = None
    PROVE  /\ StoredUsers' = [StoredUsers EXCEPT ![u] = None]
           /\ StoredRoles' = [n \in NamespaceIDs |-> [StoredRoles[n] EXCEPT ![u] = "none"]]
           /\ StoredGrants' = [StoredGrants EXCEPT ![u] = {}]
           /\ UNCHANGED <<StoredNamespaces, StoredResources, StoredMounts>>
  <1> DEFINE D == RowsOfUser(u)
  <1>1. /\ UserRow(u) \in D /\ \A k \in KeyIDs : KeyRow(u, k) \in D
        /\ \A g \in Patterns : GrantRow(u, g) \in D
        /\ \A n \in NamespaceIDs : RoleRow(n, u) \in D
    BY DEF RowsOfUser, KeysOf, GrantsOf, RolesOf
  <1>2. \A row \in D :
            \/ /\ row[1] \in {"users", "user_passwords", "user_api_keys", "user_mount_grants"}
               /\ row[2] = u
            \/ row[1] = "namespace_roles" /\ row[3] = u
    BY DEF RowsOfUser, KeysOf, GrantsOf, RolesOf, UserRow, PasswordRow, KeyRow, GrantRow, RoleRow
  <1>3. Changes(D) /\ \A row \in D : db'[row] = None
    OBVIOUS
  <1> HIDE DEF D
  <1>4. \A w \in Usernames : w # u =>
            /\ db'[UserRow(w)] = db[UserRow(w)] /\ db'[PasswordRow(w)] = db[PasswordRow(w)]
            /\ \A k \in KeyIDs : db'[KeyRow(w, k)] = db[KeyRow(w, k)]
    BY <1>2, <1>3, RowNames, RowTables DEF Changes
  <1>5. \A w \in Usernames, g \in Patterns : w # u => db'[GrantRow(w, g)] = db[GrantRow(w, g)]
    <2>1. \A w, g : GrantRow(w, g)[1] = "user_mount_grants" /\ GrantRow(w, g)[2] = w
      BY DEF GrantRow
    <2> QED
      BY <1>2, <1>3, <2>1, RowNames DEF Changes
  <1>6. \A w \in Usernames, n \in NamespaceIDs : w # u => db'[RoleRow(n, w)] = db[RoleRow(n, w)]
    <2>1. \A w, n : RoleRow(n, w)[1] = "namespace_roles" /\ RoleRow(n, w)[3] = w
      BY DEF RoleRow
    <2> QED
      BY <1>2, <1>3, <2>1, RowNames DEF Changes
  <1>7. StoredUsers' = [StoredUsers EXCEPT ![u] = None]
    <2>1. \A w \in Usernames : StoredUsers'[w] = IF w = u THEN None ELSE StoredUsers[w]
      BY <1>1, <1>3, <1>4 DEF StoredUsers
    <2>2. /\ StoredUsers' = [w \in Usernames |-> StoredUsers'[w]]
          /\ StoredUsers = [w \in Usernames |-> StoredUsers[w]]
      BY DEF StoredUsers
    <2> QED
      BY <2>1, <2>2
  <1>8. StoredRoles' = [n \in NamespaceIDs |-> [StoredRoles[n] EXCEPT ![u] = "none"]]
    <2>1. \A n \in NamespaceIDs : StoredRoles'[n] = [StoredRoles[n] EXCEPT ![u] = "none"]
      BY <1>1, <1>3, <1>6 DEF StoredRoles
    <2>2. StoredRoles' = [n \in NamespaceIDs |-> StoredRoles'[n]]
      BY DEF StoredRoles
    <2> QED
      BY <2>1, <2>2
  <1>9. StoredGrants' = [StoredGrants EXCEPT ![u] = {}]
    <2>1. \A w \in Usernames : StoredGrants'[w] = IF w = u THEN {} ELSE StoredGrants[w]
      BY <1>1, <1>3, <1>5 DEF StoredGrants
    <2>2. /\ StoredGrants' = [w \in Usernames |-> StoredGrants'[w]]
          /\ StoredGrants = [w \in Usernames |-> StoredGrants[w]]
      BY DEF StoredGrants
    <2> QED
      BY <2>1, <2>2
  <1> QED
    BY <1>2, <1>3, <1>7, <1>8, <1>9, Unmoved

\* All that DeleteUser reaches is of the user.
LEMMA RowsBelong ==
    ASSUME NEW row \in Rows, NEW u \in Usernames, Belongs(row, u)
    PROVE  row \in RowsOfUser(u)
  <1>1. \/ row = UserRow(u) \/ row = PasswordRow(u) \/ \E k \in KeyIDs : row = KeyRow(u, k)
        \/ \E g \in Patterns : row = GrantRow(u, g)
        \/ \E n \in NamespaceIDs : row = RoleRow(n, u)
    BY RowCases DEF Belongs, UserRow, PasswordRow, KeyRow, GrantRow, RoleRow, NamespaceRow,
                    NamespaceTagRow, ResourceRow, ResourceTagRow, MountRow
  <1> QED
    BY <1>1 DEF RowsOfUser, KeysOf, GrantsOf, RolesOf

LEMMA DeleteUserEnds ==
    ASSUME NEW t \in Sessions, op[t] \in Operations, op[t].kind = "DeleteUser"
    PROVE  KeepsAtEnd(t)
  <1> DEFINE o == op[t]
             u == o.user
             a == UserFound(o)
             b == DeleteSt(RolesOf(u), "nil")
             c == DeleteSt(GrantsOf(u), "nil")
             d == DeleteSt({PasswordRow(u)}, "nil")
             e == DeleteSt(KeysOf(u), "nil")
             f == DeleteSt({UserRow(u)}, "nil")
  <1>1. o \in AccountOps /\ u \in Usernames
    BY StepsOfOps, AccountFields DEF AccountKinds
  <1>2. Prog(t) = <<a, b, c, d, e, f>>
    BY AccountSpelled DEF Prog
  <1>3. \A code : ContractStep(o, code) <=>
            Returns(code, Contract!UserErr(u), Contract!DeleteUser(u))
    BY StepsOfOps DEF AccountKinds, AccountStep
  <1>4. /\ Reads(a) /\ a.row = UserRow(u) /\ a.err = "ErrUserNotFound"
        /\ \A x \in {b, c, d, e, f} : x.do = "delete" /\ x.err = "nil"
        /\ b.rows = RolesOf(u) /\ c.rows = GrantsOf(u) /\ d.rows = {PasswordRow(u)}
        /\ e.rows = KeysOf(u) /\ f.rows = {UserRow(u)}
    BY DEF UserFound, EnsureSt, DeleteSt, Reads
  <1>5. \A j \in 1..Len(Prog(t)) :
            \/ Reads(Prog(t)[j])
            \/ /\ Prog(t)[j].do = "delete"
               /\ \A row : Reaches(Prog(t)[j], row) => Belongs(row, u)
    BY DeleteUserStatements DEF Prog
  <1> HIDE DEF a, b, c, d, e, f, u
  <1>6. /\ Len(Prog(t)) = 6 /\ Prog(t)[1] = a /\ Prog(t)[2] = b /\ Prog(t)[3] = c
        /\ Prog(t)[4] = d /\ Prog(t)[5] = e /\ Prog(t)[6] = f
    BY <1>2
  <1>7. ASSUME Stores(t), ~overlapped[t] PROVE ContractStep(o, "nil")
    <2>1. GormInv /\ Sound(t) /\ Past(t) = 1..6
      BY <1>6, <1>7, AtTheEnd DEF Stores, Consistent
    <2>2. db[UserRow(u)] # None
      <3>1. 1 \in Past(t)
        BY <2>1
      <3> QED
        BY <1>4, <1>6, <1>7, <2>1, <3>1, ReadStays
    <2>3. Changes(RowsOfUser(u))
      <3>1. ASSUME NEW row \in Rows, row \notin RowsOfUser(u) PROVE db'[row] = db[row]
        <4>1. ~Belongs(row, u)
          BY <1>1, <3>1, RowsBelong
        <4>2. \A j \in 1..Len(Prog(t)) : ~Reaches(Prog(t)[j], row)
          BY <1>5, <4>1 DEF Reaches, Reads
        <4> QED
          BY <1>7, <4>2, AtTheEnd
      <3> QED
        BY <3>1 DEF Changes
    <2>4. ASSUME NEW row \in RowsOfUser(u) PROVE db'[row] = None
      <3>1. row \in Rows
        BY <1>1 DEF Rows
      <3>2. \E j \in 2..6 : row \in Prog(t)[j].rows
        BY <1>4, <1>6 DEF RowsOfUser
      <3>3. \A j \in 2..6 : j \in 1..Len(Prog(t)) /\ Prog(t)[j].do = "delete"
        BY <1>4, <1>6
      <3>4. \A j \in 1..Len(Prog(t)) : Reaches(Prog(t)[j], row) => Prog(t)[j].do = "delete"
        BY <1>5 DEF Reaches, Reads
      <3> QED
        BY <1>7, <3>1, <3>2, <3>3, <3>4, EndOfRow
    <2>5. Contract!UserErr(u) = "nil"
      BY <1>1, <2>1, <2>2, StoredExists DEF Contract!UserErr
    <2>6. Contract!DeleteUser(u)
      BY <1>1, <2>3, <2>4, <2>5, UserGoes
         DEF Contract!DeleteUser, Contract!GrantsWithout, StoredMounts,
             StoredResources, StoredRoles,
             StoredGrants
    <2> QED
      BY <1>3, <2>5, <2>6 DEF Returns
  <1>8. ASSUME NEW st, Refused(t, st) PROVE ContractStep(o, st.err)
    <2>1. GormInv /\ db' = db
      BY <1>8 DEF Refused, Consistent
    <2>2. /\ at[t] \in 1..6 /\ st = Prog(t)[at[t]]
          /\ Reads(st) \/ st.do = "create" \/ (st.do = "delete" /\ st.err # "nil")
      BY <1>6, <1>8, Refusal
    <2>3. st = a
      BY <1>4, <1>6, <2>2 DEF Reads
    <2>4. db[UserRow(u)] = None
      BY <1>4, <1>8, <2>3, Refusal
    <2>5. Contract!UserErr(u) = "ErrUserNotFound"
      BY <1>1, <2>1, <2>4, StoredExists DEF Contract!UserErr
    <2> QED
      BY <1>3, <1>4, <2>1, <2>3, <2>5 DEF Returns
  <1>9. \A code : ~Atomic(o, code)
    BY DEF Atomic
  <1> QED
    BY <1>7, <1>8, <1>9 DEF KeepsAtEnd

-----------------------------------------------------------------------------
(* Namespaces *)

\* Only namespace n changes.
LEMMA NamespaceMoves ==
    ASSUME NEW n \in NamespaceIDs, NEW D, Changes(D),
           \A row \in D : /\ row[1] \in {"namespaces", "namespace_tags", "namespace_roles"}
                          /\ row[2] = n
    PROVE  /\ \A v : StoredNamespaces'[n] = v =>
                  StoredNamespaces' = [StoredNamespaces EXCEPT ![n] = v]
           /\ UNCHANGED <<StoredUsers, StoredResources, StoredMounts, StoredGrants>>
  <1>1. \A m \in NamespaceIDs : m # n => NamespaceRow(m) \notin D /\ NamespaceTagRow(m) \notin D
    BY RowTables
  <1>2. \A m \in NamespaceIDs : m # n =>
            /\ db'[NamespaceRow(m)] = db[NamespaceRow(m)]
            /\ db'[NamespaceTagRow(m)] = db[NamespaceTagRow(m)]
    BY <1>1, RowNames DEF Changes
  <1>3. \A m \in NamespaceIDs : m # n => StoredNamespaces'[m] = StoredNamespaces[m]
    BY <1>2 DEF StoredNamespaces
  <1>4. ASSUME NEW v, StoredNamespaces'[n] = v
        PROVE  StoredNamespaces' = [StoredNamespaces EXCEPT ![n] = v]
    <2>1. /\ StoredNamespaces' = [m \in NamespaceIDs |-> StoredNamespaces'[m]]
          /\ StoredNamespaces = [m \in NamespaceIDs |-> StoredNamespaces[m]]
      BY DEF StoredNamespaces
    <2> QED
      BY <1>3, <1>4, <2>1
  <1> QED
    BY <1>4, Unmoved

\* What a row that is not there yet is inserted for: an INSERT of tags meets
\* none when the transaction has created what they belong to.
LEMMA TagsAreNew ==
    ASSUME NEW t \in Sessions, NEW st, Refused(t, st), st.do = "create",
           st.row[1] \in {"namespace_tags", "resource_tags"}, NEW j \in Past(t),
           Prog(t)[j].do = "create", Prog(t)[j].row \in Parents(st.row, st.value),
           \A i \in Past(t) : Reads(Prog(t)[i]) \/ Prog(t)[i].do = "create",
           \A i \in Past(t) : ~Reaches(Prog(t)[i], st.row)
    PROVE  FALSE
  <1> DEFINE parent == Prog(t)[j].row
  <1>1. GormInv /\ Traced(t)
    BY DEF Refused, Consistent
  <1>2. st.row \in Rows /\ db[st.row] # None
    BY Refusal DEF StatementOK, Reads
  <1>3. parent \in Parents(st.row, db[st.row])
    BY <1>2, ParentFacts
  <1>4. db[parent] # None
    BY <1>1, <1>2, <1>3 DEF GormInv, Owned
  <1>5. parent \in DOMAIN pending[t]
    BY <1>1 DEF Traced, Reached, Done, Puts
  <1>6. OnlyBy(t, parent, "create")
    BY DEF OnlyBy, Reads, Reaches
  <1> HIDE DEF parent
  <1> QED
    BY <1>1, <1>4, <1>5, <1>6 DEF Traced, Fresh

\* The statements of CreateNamespace, and which come before which.
LEMMA CreateNamespaceStatements ==
    ASSUME NEW o, o.kind = "CreateNamespace"
    PROVE  LET p == Program(o)
               found == EnsureSt(UserRow(o.owner), "ErrUserNotFound")
               made == CreateSt(NamespaceRow(o.ns),
                                [pidFormat |-> o.format, dateCreated |-> o.now,
                                 dateUpdated |-> o.now], "ErrDuplicateNamespaceID")
               tagged == CreateSt(NamespaceTagRow(o.ns), o.tags, "ErrDuplicateNamespaceID")
               owned == CreateSt(RoleRow(o.ns, o.owner), "manager", "DatabaseError")
           IN  /\ \A i \in 1..Len(p) :
                      \/ p[i] = found /\ o.owner # None
                      \/ /\ p[i] = made /\ (\A j \in 1..(i - 1) : p[j] = found)
                         /\ o.owner # None => \E j \in 1..(i - 1) : p[j] = found
                      \/ /\ p[i] = tagged /\ o.tags # Plain
                         /\ \A j \in 1..(i - 1) : p[j] = found \/ p[j] = made
                         /\ \E j \in 1..(i - 1) : p[j] = made
                      \/ p[i] = owned /\ o.owner # None
               /\ \E i \in 1..Len(p) : p[i] = made
               /\ o.tags # Plain => \E i \in 1..Len(p) : p[i] = tagged
               /\ o.owner # None => \E i \in 1..Len(p) : p[i] = found
               /\ o.owner # None => \E i \in 1..Len(p) : p[i] = owned
  <1> DEFINE p == Program(o)
             found == EnsureSt(UserRow(o.owner), "ErrUserNotFound")
             made == CreateSt(NamespaceRow(o.ns),
                              [pidFormat |-> o.format, dateCreated |-> o.now,
                               dateUpdated |-> o.now], "ErrDuplicateNamespaceID")
             tagged == CreateSt(NamespaceTagRow(o.ns), o.tags, "ErrDuplicateNamespaceID")
             owned == CreateSt(RoleRow(o.ns, o.owner), "manager", "DatabaseError")
             Q == /\ \A i \in 1..Len(p) :
                         \/ p[i] = found /\ o.owner # None
                         \/ /\ p[i] = made /\ (\A j \in 1..(i - 1) : p[j] = found)
                            /\ o.owner # None => \E j \in 1..(i - 1) : p[j] = found
                         \/ /\ p[i] = tagged /\ o.tags # Plain
                            /\ \A j \in 1..(i - 1) : p[j] = found \/ p[j] = made
                            /\ \E j \in 1..(i - 1) : p[j] = made
                         \/ p[i] = owned /\ o.owner # None
                  /\ \E i \in 1..Len(p) : p[i] = made
                  /\ o.tags # Plain => \E i \in 1..Len(p) : p[i] = tagged
                  /\ o.owner # None => \E i \in 1..Len(p) : p[i] = found
                  /\ o.owner # None => \E i \in 1..Len(p) : p[i] = owned
  <1>1. /\ o.owner = None /\ o.tags = Plain => p = <<made>>
        /\ o.owner = None /\ o.tags # Plain => p = <<made, tagged>>
        /\ o.owner # None /\ o.tags = Plain => p = <<found, made, owned>>
        /\ o.owner # None /\ o.tags # Plain => p = <<found, made, tagged, owned>>
    BY NamespaceSpelled
  <1> SUFFICES Q
    OBVIOUS
  <1> HIDE DEF p, found, made, tagged, owned
  <1>2. CASE o.owner = None /\ o.tags = Plain
    <2>1. p = <<made>>
      BY <1>1, <1>2
    <2> QED
      BY <1>2, <2>1
  <1>3. CASE o.owner = None /\ o.tags # Plain
    <2>1. Len(p) = 2 /\ p[1] = made /\ p[2] = tagged
      BY <1>1, <1>3
    <2>2. 1..Len(p) = {1, 2} /\ 1..(1 - 1) = {} /\ 1..(2 - 1) = {1}
      BY <2>1
    <2> QED
      BY <1>3, <2>1, <2>2
  <1>4. CASE o.owner # None /\ o.tags = Plain
    <2>1. Len(p) = 3 /\ p[1] = found /\ p[2] = made /\ p[3] = owned
      BY <1>1, <1>4
    <2>2. 1..Len(p) = {1, 2, 3} /\ 1..(2 - 1) = {1}
      BY <2>1
    <2> QED
      BY <1>4, <2>1, <2>2
  <1>5. CASE o.owner # None /\ o.tags # Plain
    <2>1. Len(p) = 4 /\ p[1] = found /\ p[2] = made /\ p[3] = tagged /\ p[4] = owned
      BY <1>1, <1>5
    <2>2. 1..Len(p) = {1, 2, 3, 4} /\ 1..(2 - 1) = {1} /\ 1..(3 - 1) = {1, 2}
      BY <2>1
    <2> QED
      BY <1>5, <2>1, <2>2
  <1> QED
    BY <1>2, <1>3, <1>4, <1>5

LEMMA CreateNamespaceEnds ==
    ASSUME NEW t \in Sessions, op[t] \in Operations, op[t].kind = "CreateNamespace"
    PROVE  KeepsAtEnd(t)
  <1> DEFINE o == op[t]
             n == o.ns
             ns == NamespaceRow(n)
             tag == NamespaceTagRow(n)
             role == RoleRow(n, o.owner)
             p == Prog(t)
             v == [pidFormat |-> o.format, dateCreated |-> o.now, dateUpdated |-> o.now]
             found == EnsureSt(UserRow(o.owner), "ErrUserNotFound")
             made == CreateSt(ns, v, "ErrDuplicateNamespaceID")
             tagged == CreateSt(tag, o.tags, "ErrDuplicateNamespaceID")
             owned == CreateSt(role, "manager", "DatabaseError")
  <1>1. /\ o \in NamespaceOps /\ n \in NamespaceIDs /\ o.owner \in Optional(Usernames)
        /\ o.format \in Formats /\ o.tags \in Contents /\ o.now \in Times
    BY StepsOfOps, NamespaceFields DEF NamespaceKinds
  <1>2. /\ \A i \in 1..Len(p) :
               \/ p[i] = found /\ o.owner # None
               \/ /\ p[i] = made /\ (\A j \in 1..(i - 1) : p[j] = found)
                  /\ o.owner # None => \E j \in 1..(i - 1) : p[j] = found
               \/ /\ p[i] = tagged /\ o.tags # Plain
                  /\ \A j \in 1..(i - 1) : p[j] = found \/ p[j] = made
                  /\ \E j \in 1..(i - 1) : p[j] = made
               \/ p[i] = owned /\ o.owner # None
        /\ \E i \in 1..Len(p) : p[i] = made
        /\ o.tags # Plain => \E i \in 1..Len(p) : p[i] = tagged
        /\ o.owner # None => \E i \in 1..Len(p) : p[i] = found
        /\ o.owner # None => \E i \in 1..Len(p) : p[i] = owned
    BY CreateNamespaceStatements DEF Prog
  <1>3. \A code : ContractStep(o, code) <=>
            Returns(code, Contract!CreateNamespaceErr(n, o.owner),
                    Contract!CreateNamespace(n, o.owner, o.format, o.tags, o.now))
    BY StepsOfOps DEF NamespaceKinds, PlaceStep
  <1>4. /\ Reads(found) /\ found.row = UserRow(o.owner) /\ found.err = "ErrUserNotFound"
        /\ made.do = "create" /\ made.row = ns /\ made.value = v
        /\ made.err = "ErrDuplicateNamespaceID"
        /\ tagged.do = "create" /\ tagged.row = tag /\ tagged.value = o.tags
        /\ tagged.err = "ErrDuplicateNamespaceID"
        /\ owned.do = "create" /\ owned.row = role /\ owned.value = "manager"
        /\ owned.err = "DatabaseError"
    BY DEF EnsureSt, CreateSt, Reads
  <1>5. /\ ns \in Rows /\ tag \in Rows /\ ns[1] = "namespaces" /\ ns[2] = n
        /\ tag[1] = "namespace_tags" /\ tag[2] = n /\ role[1] = "namespace_roles" /\ role[2] = n
        /\ o.owner # None => o.owner \in Usernames /\ role \in Rows /\ UserRow(o.owner) \in Rows
    BY <1>1, RowNames, RowTables DEF Optional
  <1>6. v # None /\ v.pidFormat = o.format /\ v.dateCreated = o.now /\ v.dateUpdated = o.now
    <2>1. v \in NamespaceValue
      BY <1>1 DEF NamespaceValue
    <2> QED
      BY <2>1, NoneIsNoValue
  <1>7. o.tags # None
    BY <1>1, GormAssumption
  <1> HIDE DEF n, ns, tag, role, p, v, found, made, tagged, owned
  <1>8. \A i \in 1..Len(p) : \A row : Reaches(p[i], row) =>
            /\ p[i].do = "create" /\ row = p[i].row
            /\ \/ row = ns \/ (row = tag /\ o.tags # Plain)
               \/ (row = role /\ o.owner # None)
    BY <1>2, <1>4 DEF Reaches, Reads
  <1>9. ASSUME Stores(t), ~overlapped[t] PROVE ContractStep(o, "nil")
    <2>1. GormInv /\ Sound(t) /\ Past(t) = 1..Len(p)
      BY <1>9, AtTheEnd DEF Stores, Consistent, p
    <2>2. o.owner # None => db[UserRow(o.owner)] # None
      BY <1>2, <1>4, <1>9, <2>1, ReadStays DEF p
    <2>3. db[ns] = None
      BY <1>2, <1>4, <1>5, <1>8, <1>9, EndOfRow DEF p
    <2>4. /\ db'[ns] = v
          /\ o.tags # Plain => db'[tag] = o.tags
          /\ o.owner # None => db'[role] = "manager"
      BY <1>2, <1>4, <1>9, AtTheEnd DEF Puts, p
    <2>5. /\ db[tag] = None /\ \A q \in PIDs : db[ResourceRow(n, q)] = None
      BY <1>1, <2>1, <2>3, Owners DEF RowsHaveOwners, ns, tag
    <2> DEFINE D == {ns, tag} \cup (IF o.owner = None THEN {} ELSE {role})
    <2>6. Changes(D)
      <3>1. ASSUME NEW row \in Rows, row \notin D PROVE db'[row] = db[row]
        <4>1. row # ns /\ row # tag /\ (o.owner # None => row # role)
          BY <3>1
        <4>2. \A i \in 1..Len(p) : ~Reaches(p[i], row)
          BY <1>8, <4>1
        <4> QED
          BY <1>9, <4>2, AtTheEnd DEF p
      <3> QED
        BY <3>1 DEF Changes
    <2>7. o.tags = Plain => db'[tag] = None
      <3>1. ASSUME o.tags = Plain PROVE \A i \in 1..Len(p) : ~Reaches(p[i], tag)
        BY <1>5, <1>8, <3>1
      <3>2. o.tags = Plain => db'[tag] = db[tag]
        BY <1>5, <1>9, <3>1, AtTheEnd DEF p
      <3> QED
        BY <2>5, <3>2
    <2>8. \A row \in D : /\ row[1] \in {"namespaces", "namespace_tags", "namespace_roles"}
                         /\ row[2] = n
      BY <1>5
    <2> DEFINE new == [pidFormat |-> o.format, tags |-> o.tags, dateCreated |-> o.now,
                       dateUpdated |-> o.now]
    <2>9. StoredNamespaces'[n] = new
      BY <1>1, <1>6, <1>7, <2>4, <2>7 DEF StoredNamespaces, ns, tag
    <2>10. StoredResources = [StoredResources EXCEPT ![n] = [q \in PIDs |-> None]]
      <3>1. StoredResources[n] = [q \in PIDs |-> None]
        BY <1>1, <2>5 DEF StoredResources
      <3>2. StoredResources = [m \in NamespaceIDs |-> StoredResources[m]]
        BY DEF StoredResources
      <3> QED
        BY <3>1, <3>2
    <2>11. StoredRoles' = IF o.owner = None THEN StoredRoles
                          ELSE [StoredRoles EXCEPT ![n][o.owner] = "manager"]
      <3>1. CASE o.owner = None
        <4>1. D = {ns, tag}
          BY <3>1
        <4>2. \A row \in D : row[1] # "namespace_roles"
          BY <1>5, <4>1
        <4> QED
          BY <2>6, <3>1, <4>2, Unmoved
      <3>2. CASE o.owner # None
        <4>1. \A m \in NamespaceIDs, w \in Usernames :
                  m # n \/ w # o.owner => RoleRow(m, w) \in Rows /\ RoleRow(m, w) \notin D
          <5>1. \A m, w : RoleRow(m, w)[1] = "namespace_roles"
            BY RowTables
          <5>2. \A m \in NamespaceIDs, w \in Usernames :
                    m # n \/ w # o.owner => RoleRow(m, w) # role
            BY DEF RoleRow, role
          <5>3. D = {ns, tag, role}
            BY <3>2
          <5> HIDE DEF D
          <5> QED
            BY <1>5, <5>1, <5>2, <5>3, RowNames
        <4>2. \A m \in NamespaceIDs, w \in Usernames :
                  m # n \/ w # o.owner => db'[RoleRow(m, w)] = db[RoleRow(m, w)]
          BY <2>6, <4>1 DEF Changes
        <4>3. db'[RoleRow(n, o.owner)] = "manager" /\ "manager" # None
          BY <2>4, <3>2, GormAssumption DEF role
        <4>4. \A m \in NamespaceIDs : StoredRoles'[m] =
                  IF m # n THEN StoredRoles[m] ELSE [StoredRoles[n] EXCEPT ![o.owner] = "manager"]
          BY <4>2, <4>3 DEF StoredRoles
        <4>5. StoredRoles' = [m \in NamespaceIDs |-> StoredRoles'[m]]
          BY DEF StoredRoles
        <4>6. StoredRoles = [m \in NamespaceIDs |-> StoredRoles[m]]
          BY DEF StoredRoles
        <4> QED
          BY <1>1, <3>2, <4>4, <4>5, <4>6
      <3> QED
        BY <3>1, <3>2
    <2> HIDE DEF D, new
    <2>12. /\ StoredNamespaces' = [StoredNamespaces EXCEPT ![n] = new]
           /\ UNCHANGED <<StoredUsers, StoredResources, StoredMounts, StoredGrants>>
      BY <1>1, <2>6, <2>8, <2>9, NamespaceMoves
    <2>13. Contract!CreateNamespaceErr(n, o.owner) = "nil"
      BY <1>1, <1>5, <2>1, <2>2, <2>3, StoredExists DEF Contract!CreateNamespaceErr, ns
    <2>14. Contract!CreateNamespace(n, o.owner, o.format, o.tags, o.now)
      BY <2>10, <2>11, <2>12, <2>13
         DEF Contract!CreateNamespace, Contract!NoResources, StoredMounts, StoredResources,
             StoredRoles, StoredGrants, new
    <2> QED
      BY <1>3, <2>13, <2>14 DEF Returns
  <1>10. ASSUME NEW st, Refused(t, st), ~overlapped[t]
         PROVE  ContractStep(o, st.err) \/ st.err = "DatabaseError"
    <2>1. GormInv /\ db' = db
      BY <1>10 DEF Refused, Consistent
    <2> DEFINE i == at[t]
    <2>2. i \in 1..Len(p) /\ st = p[i] /\ Past(t) = 1..(i - 1) /\ \A j \in Past(t) : j \in 1..Len(p)
      <3>1. Len(p) \in Nat /\ i \in 1..Len(p) /\ st = p[i] /\ Past(t) = 1..(i - 1)
        BY <1>10, Refusal DEF p
      <3> QED
        BY <3>1
    <2> HIDE DEF i
    <2>3. CASE st = found /\ o.owner # None
      <3>1. db[UserRow(o.owner)] = None
        BY <1>4, <1>10, <2>3, Refusal
      <3>2. Contract!CreateNamespaceErr(n, o.owner) = "ErrUserNotFound"
        BY <1>5, <2>1, <2>3, <3>1, StoredExists DEF Contract!CreateNamespaceErr
      <3> QED
        BY <1>3, <1>4, <2>1, <2>3, <3>2 DEF Returns
    <2>4. CASE /\ st = made /\ (\A j \in Past(t) : p[j] = found)
               /\ o.owner # None => \E j \in Past(t) : p[j] = found
      <3>1. \A j \in Past(t) : ~Reaches(p[j], st.row)
        BY <1>4, <2>4 DEF Reaches, Reads
      <3>2. db[ns] # None
        BY <1>4, <1>10, <2>4, <3>1, Refusal DEF p
      <3>3. o.owner # None => db[UserRow(o.owner)] # None
        BY <1>4, <1>10, <2>4, Refusal DEF p
      <3>4. Contract!CreateNamespaceErr(n, o.owner) = "ErrDuplicateNamespaceID"
        BY <1>1, <1>5, <2>1, <3>2, <3>3, StoredExists DEF Contract!CreateNamespaceErr, ns
      <3> QED
        BY <1>3, <1>4, <2>1, <2>4, <3>4 DEF Returns
    <2>5. CASE /\ st = tagged /\ \A j \in Past(t) : p[j] = found \/ p[j] = made
               /\ \E j \in Past(t) : p[j] = made
      <3>1. \A j \in Past(t) : Reads(p[j]) \/ p[j].do = "create"
        BY <1>4, <2>5
      <3>2. \A j \in Past(t) : ~Reaches(p[j], st.row)
        BY <1>4, <1>5, <2>5 DEF Reaches, Reads
      <3>3. Parents(st.row, st.value) = {ns}
        BY <1>4, <1>5, <2>5, ParentsOf DEF ns
      <3>4. PICK j \in Past(t) : p[j] = made
        BY <2>5
      <3>5. p[j].do = "create" /\ p[j].row \in Parents(st.row, st.value)
        BY <1>4, <3>3, <3>4
      <3>6. st.do = "create" /\ st.row[1] = "namespace_tags"
        BY <1>4, <1>5, <2>5
      <3> QED
        BY <1>10, <3>1, <3>2, <3>5, <3>6, TagsAreNew DEF p
    <2>6. CASE st = owned
      BY <1>4, <2>6
    <2> QED
      BY <1>2, <2>2, <2>3, <2>4, <2>5, <2>6
  <1>11. \A code : ~Atomic(o, code)
    BY DEF Atomic
  <1> QED
    BY <1>9, <1>10, <1>11 DEF KeepsAtEnd

\* The statements of UpdateNamespace.
LEMMA UpdateNamespaceStatements ==
    ASSUME NEW o, o.kind = "UpdateNamespace"
    PROVE  LET p == Program(o)
               first == FirstSt(NamespaceRow(o.ns), "ErrNamespaceNotFound")
               untagged == DeleteSt({NamespaceTagRow(o.ns)}, "nil")
               retagged == CreateSt(NamespaceTagRow(o.ns), o.tags, "DatabaseError")
               saved == SaveLoadedSt(NamespaceRow(o.ns), [dateUpdated |-> o.now])
           IN  /\ \A i \in 1..Len(p) :
                      \/ p[i] = first \/ p[i] = saved \/ (p[i] = untagged /\ o.tags # None)
                      \/ p[i] = retagged /\ o.tags # None /\ o.tags # Plain
               /\ \E i \in 1..Len(p) : p[i] = first
               /\ \E i \in 1..Len(p) : p[i] = saved
               /\ o.tags # None => \E i \in 1..Len(p) : p[i] = untagged
               /\ o.tags # None /\ o.tags # Plain => \E i \in 1..Len(p) : p[i] = retagged
  <1> DEFINE p == Program(o)
             first == FirstSt(NamespaceRow(o.ns), "ErrNamespaceNotFound")
             untagged == DeleteSt({NamespaceTagRow(o.ns)}, "nil")
             retagged == CreateSt(NamespaceTagRow(o.ns), o.tags, "DatabaseError")
             saved == SaveLoadedSt(NamespaceRow(o.ns), [dateUpdated |-> o.now])
             Q == /\ \A i \in 1..Len(p) :
                         \/ p[i] = first \/ p[i] = saved \/ (p[i] = untagged /\ o.tags # None)
                         \/ p[i] = retagged /\ o.tags # None /\ o.tags # Plain
                  /\ \E i \in 1..Len(p) : p[i] = first
                  /\ \E i \in 1..Len(p) : p[i] = saved
                  /\ o.tags # None => \E i \in 1..Len(p) : p[i] = untagged
                  /\ o.tags # None /\ o.tags # Plain => \E i \in 1..Len(p) : p[i] = retagged
  <1>1. /\ o.tags = None => p = <<first, saved>>
        /\ o.tags # None /\ o.tags = Plain => p = <<first, untagged, saved>>
        /\ o.tags # None /\ o.tags # Plain => p = <<first, untagged, retagged, saved>>
    BY NamespaceSpelled
  <1> SUFFICES Q
    OBVIOUS
  <1> HIDE DEF p, first, untagged, retagged, saved
  <1>2. CASE o.tags = None
    <2>1. Len(p) = 2 /\ p[1] = first /\ p[2] = saved
      BY <1>1, <1>2
    <2>2. 1..Len(p) = {1, 2}
      BY <2>1
    <2> QED
      BY <1>2, <2>1, <2>2
  <1>3. CASE o.tags # None /\ o.tags = Plain
    <2>1. Len(p) = 3 /\ p[1] = first /\ p[2] = untagged /\ p[3] = saved
      BY <1>1, <1>3
    <2>2. 1..Len(p) = {1, 2, 3}
      BY <2>1
    <2> QED
      BY <1>3, <2>1, <2>2
  <1>4. CASE o.tags # None /\ o.tags # Plain
    <2>1. Len(p) = 4 /\ p[1] = first /\ p[2] = untagged /\ p[3] = retagged /\ p[4] = saved
      BY <1>1, <1>4
    <2>2. 1..Len(p) = {1, 2, 3, 4}
      BY <2>1
    <2> QED
      BY <1>4, <2>1, <2>2
  <1> QED
    BY <1>2, <1>3, <1>4

LEMMA UpdateNamespaceEnds ==
    ASSUME NEW t \in Sessions, op[t] \in Operations, op[t].kind = "UpdateNamespace"
    PROVE  KeepsAtEnd(t)
  <1> DEFINE o == op[t]
             n == o.ns
             ns == NamespaceRow(n)
             tag == NamespaceTagRow(n)
             p == Prog(t)
             set == [dateUpdated |-> o.now]
             first == FirstSt(ns, "ErrNamespaceNotFound")
             untagged == DeleteSt({tag}, "nil")
             retagged == CreateSt(tag, o.tags, "DatabaseError")
             saved == SaveLoadedSt(ns, set)
  <1>1. /\ o \in NamespaceOps /\ n \in NamespaceIDs
        /\ o.tags \in Optional(Contents) /\ o.now \in Times
    BY StepsOfOps, NamespaceFields DEF NamespaceKinds
  <1>2. /\ \A i \in 1..Len(p) :
               \/ p[i] = first \/ p[i] = saved \/ (p[i] = untagged /\ o.tags # None)
               \/ p[i] = retagged /\ o.tags # None /\ o.tags # Plain
        /\ \E i \in 1..Len(p) : p[i] = first
        /\ \E i \in 1..Len(p) : p[i] = saved
        /\ o.tags # None => \E i \in 1..Len(p) : p[i] = untagged
        /\ o.tags # None /\ o.tags # Plain => \E i \in 1..Len(p) : p[i] = retagged
    BY UpdateNamespaceStatements DEF Prog
  <1>3. \A code : ContractStep(o, code) <=>
            Returns(code, Contract!NamespaceErr(n), Contract!UpdateNamespace(n, o.tags, o.now))
    BY StepsOfOps DEF NamespaceKinds, PlaceStep
  <1>4. /\ Reads(first) /\ first.do = "first" /\ first.row = ns
        /\ first.err = "ErrNamespaceNotFound"
        /\ saved.do = "save loaded" /\ saved.row = ns /\ saved.set = set
        /\ untagged.do = "delete" /\ untagged.rows = {tag} /\ untagged.err = "nil"
        /\ retagged.do = "create" /\ retagged.row = tag /\ retagged.value = o.tags
        /\ retagged.err = "DatabaseError"
    BY DEF FirstSt, SaveLoadedSt, DeleteSt, CreateSt, Reads
  <1>5. /\ ns \in Rows /\ tag \in Rows /\ ns[1] = "namespaces" /\ ns[2] = n
        /\ tag[1] = "namespace_tags" /\ tag[2] = n
        /\ Anchored(o) /\ Anchor(o) = ns
    BY <1>1, RowNames, RowTables DEF Anchored, Anchor
  <1> HIDE DEF n, ns, tag, p, set, first, untagged, retagged, saved
  <1>6. \A i \in 1..Len(p) : \A row : Reaches(p[i], row) =>
            \/ p[i] = saved /\ row = ns
            \/ p[i] = untagged /\ row = tag /\ o.tags # None
            \/ p[i] = retagged /\ row = tag /\ o.tags # None /\ o.tags # Plain
    <2>1. \A row : ~Reaches(first, row) /\ (Reaches(saved, row) => row = ns)
      BY <1>4 DEF Reaches, Reads
    <2>2. \A row : (Reaches(untagged, row) => row = tag) /\ (Reaches(retagged, row) => row = tag)
      BY <1>4, <1>5, RowTables DEF Reaches
    <2>3. ASSUME NEW i \in 1..Len(p), NEW row, Reaches(p[i], row)
          PROVE  \/ p[i] = saved /\ row = ns
                 \/ p[i] = untagged /\ row = tag /\ o.tags # None
                 \/ p[i] = retagged /\ row = tag /\ o.tags # None /\ o.tags # Plain
      BY <1>2, <2>1, <2>2, <2>3
    <2> QED
      BY <2>3
  <1>7. ASSUME NEW row, row # ns, row # tag PROVE \A i \in 1..Len(p) : ~Reaches(p[i], row)
    <2>1. ~Reaches(first, row) /\ ~Reaches(saved, row)
      BY <1>4, <1>7 DEF Reaches, Reads
    <2>2. ~Reaches(untagged, row) /\ ~Reaches(retagged, row)
      BY <1>4, <1>5, <1>7, RowTables DEF Reaches
    <2>3. ASSUME NEW i \in 1..Len(p) PROVE ~Reaches(p[i], row)
      BY <1>2, <2>1, <2>2
    <2> QED
      BY <2>3
  <1>8. ASSUME Stores(t), ~overlapped[t] PROVE ContractStep(o, "nil")
    <2>1. GormInv /\ Sound(t) /\ Past(t) = 1..Len(p)
      BY <1>8, AtTheEnd DEF Stores, Consistent, p
    <2>2. db[ns] # None
      <3>1. PICK i \in Past(t) : Prog(t)[i] = first
        BY <1>2, <2>1 DEF p
      <3> QED
        BY <1>4, <1>8, <2>1, <3>1, ReadStays
    <2>3. Current(t, first)
      BY <1>2, <1>8, AtTheEnd DEF p
    <2>4. loaded[t] = db[ns]
      BY <1>4, <1>5, <1>8, <2>3 DEF Current
    <2>5. db'[ns] = With(db[ns], set)
      <3>1. PICK i \in 1..Len(Prog(t)) : Prog(t)[i] = saved
        BY <1>2 DEF p
      <3>2. db'[Prog(t)[i].row] = With(loaded[t], Prog(t)[i].set)
        BY <1>4, <1>8, <3>1, AtTheEnd
      <3> QED
        BY <1>4, <2>4, <3>1, <3>2
    <2>6. db[ns] \in NamespaceValue
      BY <1>5, <2>1, <2>2 DEF GormInv, Typed, ValueOK, Optional
    <2>7. /\ db'[ns] \in NamespaceValue /\ db'[ns] # None
          /\ db'[ns].pidFormat = db[ns].pidFormat /\ db'[ns].dateCreated = db[ns].dateCreated
          /\ db'[ns].dateUpdated = o.now
      <3>1. With(db[ns], set) \in NamespaceValue
        BY <1>1, <2>6 DEF With, NamespaceValue, set
      <3>2. /\ With(db[ns], set).pidFormat = db[ns].pidFormat
            /\ With(db[ns], set).dateCreated = db[ns].dateCreated
            /\ With(db[ns], set).dateUpdated = o.now
        BY <2>6 DEF With, NamespaceValue, set
      <3> QED
        BY <2>5, <3>1, <3>2, NoneIsNoValue
    <2>8. Changes({ns, tag})
      <3>1. ASSUME NEW row \in Rows, row \notin {ns, tag} PROVE db'[row] = db[row]
        <4>0. row # ns /\ row # tag
          BY <3>1
        <4>1. \A i \in 1..Len(p) : ~Reaches(p[i], row)
          BY <1>7, <4>0
        <4> QED
          BY <1>8, <4>1, AtTheEnd DEF p
      <3> QED
        BY <3>1 DEF Changes
    <2> DEFINE new == IF o.tags = None THEN StoredNamespaces[n].tags ELSE o.tags
    <2>9. (IF db'[tag] = None THEN Plain ELSE db'[tag]) = new
      <3>1. CASE o.tags = None
        <4>1. \A i \in 1..Len(p) : ~Reaches(p[i], tag)
          BY <1>5, <1>6, <3>1
        <4>2. db'[tag] = db[tag]
          BY <1>5, <1>8, <4>1, AtTheEnd DEF p
        <4>3. StoredNamespaces[n].tags = IF db[tag] = None THEN Plain ELSE db[tag]
          BY <1>1, <2>2 DEF StoredNamespaces, ns, tag
        <4> QED
          BY <3>1, <4>2, <4>3
      <3>2. CASE o.tags # None /\ o.tags = Plain
        <4>1. \A i \in 1..Len(p) : Reaches(p[i], tag) => p[i].do = "delete"
          BY <1>4, <1>5, <1>6, <3>2
        <4>2. \E i \in 1..Len(p) : p[i].do = "delete" /\ tag \in p[i].rows
          BY <1>2, <1>4, <3>2
        <4>3. db'[tag] = None
          BY <1>5, <1>8, <4>1, <4>2, EndOfRow DEF p
        <4> QED
          BY <3>2, <4>3
      <3>3. CASE o.tags # None /\ o.tags # Plain
        <4>1. db'[tag] = o.tags
          BY <1>2, <1>4, <1>8, <3>3, AtTheEnd DEF Puts, p
        <4> QED
          BY <3>3, <4>1
      <3> QED
        BY <3>1, <3>2, <3>3
    <2> HIDE DEF new
    <2>10. StoredNamespaces'[n] = [pidFormat |-> db[ns].pidFormat, tags |-> new,
                                   dateCreated |-> db[ns].dateCreated, dateUpdated |-> o.now]
      BY <1>1, <2>7, <2>9 DEF StoredNamespaces, ns, tag
    <2>11. /\ StoredNamespaces[n].pidFormat = db[ns].pidFormat
           /\ StoredNamespaces[n].dateCreated = db[ns].dateCreated
      BY <1>1, <2>2 DEF StoredNamespaces, ns
    <2>12. StoredNamespaces'[n] = Contract!UpdatedNamespace(StoredNamespaces[n], o.tags, o.now)
      BY <2>10, <2>11 DEF Contract!UpdatedNamespace, new
    <2>13. /\ StoredNamespaces' = [StoredNamespaces EXCEPT ![n] =
                  Contract!UpdatedNamespace(StoredNamespaces[n], o.tags, o.now)]
           /\ UNCHANGED <<StoredUsers, StoredResources, StoredMounts, StoredGrants>>
      <3>1. \A row \in {ns, tag} : row[1] \in {"namespaces", "namespace_tags"} /\ row[2] = n
        BY <1>5
      <3> QED
        BY <1>1, <2>8, <2>12, <3>1, NamespaceMoves
    <2>14. StoredRoles' = StoredRoles
      <3>1. \A row \in {ns, tag} : row[1] # "namespace_roles"
        BY <1>5
      <3> QED
        BY <2>8, <3>1, Unmoved
    <2>15. Contract!NamespaceErr(n) = "nil"
      BY <1>1, <2>1, <2>2, StoredExists DEF Contract!NamespaceErr, ns
    <2>16. Contract!UpdateNamespace(n, o.tags, o.now)
      BY <2>13, <2>14, <2>15
         DEF Contract!UpdateNamespace, StoredMounts, StoredResources, StoredRoles, StoredGrants
    <2> QED
      BY <1>3, <2>15, <2>16 DEF Returns
  <1>9. ASSUME NEW st, Refused(t, st) PROVE ContractStep(o, st.err) \/ st.err = "DatabaseError"
    <2>1. GormInv /\ db' = db
      BY <1>9 DEF Refused, Consistent
    <2>2. /\ at[t] \in 1..Len(p) /\ st = p[at[t]]
          /\ Reads(st) \/ st.do = "create" \/ (st.do = "delete" /\ st.err # "nil")
      BY <1>9, Refusal DEF p
    <2>3. st = first \/ st = retagged
      BY <1>2, <1>4, <2>2 DEF Reads
    <2>4. CASE st = first
      <3>1. db[ns] = None
        BY <1>4, <1>9, <2>4, Refusal
      <3>2. Contract!NamespaceErr(n) = "ErrNamespaceNotFound"
        BY <1>1, <2>1, <3>1, StoredExists DEF Contract!NamespaceErr, ns
      <3> QED
        BY <1>3, <1>4, <2>1, <2>4, <3>2 DEF Returns
    <2> QED
      BY <1>4, <2>3, <2>4
  <1>10. \A code : ~Atomic(o, code)
    BY DEF Atomic
  <1> QED
    BY <1>8, <1>9, <1>10 DEF KeepsAtEnd

-----------------------------------------------------------------------------
(* Resources *)

\* Only resources of namespace n change.
LEMMA ResourceMoves ==
    ASSUME NEW n \in NamespaceIDs, NEW D, Changes(D),
           \A row \in D : row[1] \in {"resources", "resource_tags"} /\ row[2] = n
    PROVE  /\ StoredResources' = [StoredResources EXCEPT ![n] =
                                     [q \in PIDs |-> db'[ResourceRow(n, q)]]]
           /\ \A p \in PIDs : (\A row \in D : row[3] = p) =>
                  StoredResources' = [StoredResources EXCEPT ![n][p] = db'[ResourceRow(n, p)]]
           /\ UNCHANGED <<StoredUsers, StoredNamespaces, StoredRoles, StoredMounts, StoredGrants>>
  <1>1. \A m, q : ResourceRow(m, q)[2] = m /\ ResourceRow(m, q)[3] = q
    BY DEF ResourceRow
  <1>2. \A m \in NamespaceIDs, q \in PIDs :
            m # n => db'[ResourceRow(m, q)] = db[ResourceRow(m, q)]
    BY <1>1, RowNames DEF Changes
  <1>3. \A m \in NamespaceIDs : m # n => StoredResources'[m] = StoredResources[m]
    BY <1>2 DEF StoredResources
  <1>4. /\ StoredResources' = [m \in NamespaceIDs |-> StoredResources'[m]]
        /\ StoredResources = [m \in NamespaceIDs |-> StoredResources[m]]
    BY DEF StoredResources
  <1>5. /\ StoredResources'[n] = [q \in PIDs |-> db'[ResourceRow(n, q)]]
        /\ StoredResources[n] = [q \in PIDs |-> db[ResourceRow(n, q)]]
    BY DEF StoredResources
  <1>6. StoredResources' = [StoredResources EXCEPT ![n] =
                               [q \in PIDs |-> db'[ResourceRow(n, q)]]]
    BY <1>3, <1>4, <1>5
  <1>7. ASSUME NEW p \in PIDs, \A row \in D : row[3] = p
        PROVE  StoredResources' = [StoredResources EXCEPT ![n][p] = db'[ResourceRow(n, p)]]
    <2>1. \A q \in PIDs : q # p => db'[ResourceRow(n, q)] = db[ResourceRow(n, q)]
      BY <1>1, <1>7, RowNames DEF Changes
    <2>2. [q \in PIDs |-> db'[ResourceRow(n, q)]] =
              [StoredResources[n] EXCEPT ![p] = db'[ResourceRow(n, p)]]
      BY <1>5, <2>1
    <2>3. [StoredResources EXCEPT ![n][p] = db'[ResourceRow(n, p)]] =
              [StoredResources EXCEPT ![n] =
                  [StoredResources[n] EXCEPT ![p] = db'[ResourceRow(n, p)]]]
      BY <1>4
    <2> QED
      BY <1>6, <2>2, <2>3
  <1> QED
    BY <1>6, <1>7, Unmoved

\* A resource of the contract is a row.
LEMMA StoredResource ==
    ASSUME NEW n \in NamespaceIDs, NEW p \in PIDs
    PROVE  StoredResources[n][p] = db[ResourceRow(n, p)]
  BY DEF StoredResources

\* The statements of CreateResource, and which come before which.
LEMMA CreateResourceStatements ==
    ASSUME NEW o \in ResourceOps, o.kind = "CreateResource"
    PROVE  LET p == Program(o)
               found == NamespaceFound(o)
               made == CreateSt(ResourceRow(o.ns, o.pid), NewRow(o.content, o.now),
                                "ErrPIDAllocationFailed")
               tagged == CreateSt(ResourceTagRow(o.ns, o.pid), o.content, "ErrPIDAllocationFailed")
           IN  /\ \A i \in 1..Len(p) :
                      \/ p[i] = found
                      \/ /\ p[i] = made /\ (\A j \in 1..(i - 1) : p[j] = found)
                         /\ \E j \in 1..(i - 1) : p[j] = found
                      \/ /\ p[i] = tagged
                         /\ \A j \in 1..(i - 1) : p[j] = found \/ p[j] = made
                         /\ \E j \in 1..(i - 1) : p[j] = made
               /\ \E i \in 1..Len(p) : p[i] = found
               /\ \E i \in 1..Len(p) : p[i] = made
  <1> DEFINE p == Program(o)
             found == NamespaceFound(o)
             made == CreateSt(ResourceRow(o.ns, o.pid), NewRow(o.content, o.now),
                              "ErrPIDAllocationFailed")
             tagged == CreateSt(ResourceTagRow(o.ns, o.pid), o.content, "ErrPIDAllocationFailed")
             Q == /\ \A i \in 1..Len(p) :
                         \/ p[i] = found
                         \/ /\ p[i] = made /\ (\A j \in 1..(i - 1) : p[j] = found)
                            /\ \E j \in 1..(i - 1) : p[j] = found
                         \/ /\ p[i] = tagged
                            /\ \A j \in 1..(i - 1) : p[j] = found \/ p[j] = made
                            /\ \E j \in 1..(i - 1) : p[j] = made
                  /\ \E i \in 1..Len(p) : p[i] = found
                  /\ \E i \in 1..Len(p) : p[i] = made
  <1>1. p = <<found, made>> \/ p = <<found, made, tagged>>
    BY ResourceSpelled
  <1> SUFFICES Q
    OBVIOUS
  <1> HIDE DEF p, found, made, tagged
  <1>2. CASE p = <<found, made>>
    <2>1. Len(p) = 2 /\ p[1] = found /\ p[2] = made
      BY <1>2
    <2>2. 1..Len(p) = {1, 2} /\ 1..(2 - 1) = {1}
      BY <2>1
    <2> QED
      BY <2>1, <2>2
  <1>3. CASE p = <<found, made, tagged>>
    <2>1. Len(p) = 3 /\ p[1] = found /\ p[2] = made /\ p[3] = tagged
      BY <1>3
    <2>2. 1..Len(p) = {1, 2, 3} /\ 1..(2 - 1) = {1} /\ 1..(3 - 1) = {1, 2}
      BY <2>1
    <2> QED
      BY <2>1, <2>2
  <1> QED
    BY <1>1, <1>2, <1>3

LEMMA CreateResourceEnds ==
    ASSUME NEW t \in Sessions, op[t] \in Operations, op[t].kind = "CreateResource"
    PROVE  KeepsAtEnd(t)
  <1> DEFINE o == op[t]
             n == o.ns
             id == o.pid
             ns == NamespaceRow(n)
             res == ResourceRow(n, id)
             tag == ResourceTagRow(n, id)
             p == Prog(t)
             v == NewRow(o.content, o.now)
             found == NamespaceFound(o)
             made == CreateSt(res, v, "ErrPIDAllocationFailed")
             tagged == CreateSt(tag, o.content, "ErrPIDAllocationFailed")
  <1>1. o \in ResourceOps /\ n \in NamespaceIDs /\ id \in PIDs /\ o.content \in Contents
    BY StepsOfOps, ResourceFields DEF ResourceKinds
  <1>2. /\ \A i \in 1..Len(p) :
               \/ p[i] = found
               \/ /\ p[i] = made /\ (\A j \in 1..(i - 1) : p[j] = found)
                  /\ \E j \in 1..(i - 1) : p[j] = found
               \/ /\ p[i] = tagged
                  /\ \A j \in 1..(i - 1) : p[j] = found \/ p[j] = made
                  /\ \E j \in 1..(i - 1) : p[j] = made
        /\ \E i \in 1..Len(p) : p[i] = found
        /\ \E i \in 1..Len(p) : p[i] = made
    BY <1>1, CreateResourceStatements DEF Prog
  <1>3. \A code : ContractStep(o, code) <=>
            Returns(code, Contract!CreateResourceErr(n, id),
                    Contract!CreateResource(n, id, o.content, o.now))
    BY StepsOfOps DEF ResourceKinds, ResourceStep
  <1>4. /\ Reads(found) /\ found.row = ns /\ found.err = "ErrNamespaceNotFound"
        /\ made.do = "create" /\ made.row = res /\ made.value = v
        /\ made.err = "ErrPIDAllocationFailed"
        /\ tagged.do = "create" /\ tagged.row = tag /\ tagged.value = o.content
    BY DEF NamespaceFound, EnsureSt, CreateSt, Reads
  <1>5. /\ ns \in Rows /\ res \in Rows /\ tag \in Rows /\ ns[1] = "namespaces"
        /\ res[1] = "resources" /\ res[2] = n /\ res[3] = id
        /\ tag[1] = "resource_tags" /\ tag[2] = n /\ tag[3] = id
    BY <1>1, RowNames, RowTables DEF ResourceRow, ResourceTagRow
  <1>6. Lasting(ns)
    BY <1>5 DEF Lasting
  <1>7. v = Contract!NewResource(o.content, o.now)
    BY DEF NewRow, Contract!NewResource
  <1>8. StoredResources[n][id] = db[res]
    BY <1>1, StoredResource
  <1> HIDE DEF n, id, ns, res, tag, p, v, found, made, tagged
  <1>9. \A i \in 1..Len(p) : \A row : Reaches(p[i], row) =>
            p[i].do = "create" /\ (row = res \/ row = tag)
    BY <1>2, <1>4 DEF Reaches, Reads
  <1>10. ASSUME Stores(t) PROVE ContractStep(o, "nil")
    <2>1. GormInv /\ Sound(t) /\ Past(t) = 1..Len(p)
      BY <1>10, AtTheEnd DEF Stores, Consistent, p
    <2>2. db[ns] # None
      <3>1. PICK i \in Past(t) : Prog(t)[i] = found
        BY <1>2, <2>1 DEF p
      <3> QED
        BY <1>4, <1>6, <2>1, <3>1, ReadStays
    <2>3. db[res] = None
      BY <1>2, <1>4, <1>5, <1>9, <1>10, EndOfRow DEF p
    <2>4. db'[res] = v
      BY <1>2, <1>4, <1>10, AtTheEnd DEF Puts, p
    <2> DEFINE D == {res, tag}
    <2>5. Changes(D)
      <3>1. ASSUME NEW row \in Rows, row \notin D PROVE db'[row] = db[row]
        <4>1. row # res /\ row # tag
          BY <3>1
        <4>2. ~Reaches(found, row) /\ ~Reaches(made, row) /\ ~Reaches(tagged, row)
          BY <1>4, <4>1 DEF Reaches, Reads
        <4>3. ASSUME NEW i \in 1..Len(p) PROVE ~Reaches(p[i], row)
          BY <1>2, <4>2
        <4> QED
          BY <1>10, <4>3, AtTheEnd DEF p
      <3> QED
        BY <3>1 DEF Changes
    <2>6. \A row \in D : row[1] \in {"resources", "resource_tags"} /\ row[2] = n /\ row[3] = id
      BY <1>5
    <2> HIDE DEF D
    <2>7. /\ StoredResources' = [StoredResources EXCEPT ![n][id] = db'[res]]
          /\ UNCHANGED <<StoredUsers, StoredNamespaces, StoredRoles, StoredMounts, StoredGrants>>
      BY <1>1, <2>5, <2>6, ResourceMoves DEF res
    <2>8. Contract!CreateResourceErr(n, id) = "nil"
      BY <1>1, <1>8, <2>1, <2>2, <2>3, StoredExists
         DEF Contract!CreateResourceErr, StoredResources, ns
    <2>9. Contract!CreateResource(n, id, o.content, o.now)
      BY <1>7, <2>4, <2>7, <2>8
         DEF Contract!CreateResource, StoredMounts, StoredResources, StoredRoles, StoredGrants
    <2> QED
      BY <1>3, <2>8, <2>9 DEF Returns
  <1>11. ASSUME NEW st, Refused(t, st) PROVE ContractStep(o, st.err)
    <2>1. GormInv /\ db' = db
      BY <1>11 DEF Refused, Consistent
    <2> DEFINE i == at[t]
    <2>2. i \in 1..Len(p) /\ st = p[i] /\ Past(t) = 1..(i - 1)
      BY <1>11, Refusal DEF p
    <2> HIDE DEF i
    <2>3. CASE st = found
      <3>1. db[ns] = None
        BY <1>4, <1>11, <2>3, Refusal
      <3>2. Contract!CreateResourceErr(n, id) = "ErrNamespaceNotFound"
        BY <1>1, <2>1, <3>1, StoredExists DEF Contract!CreateResourceErr, ns
      <3> QED
        BY <1>3, <1>4, <2>1, <2>3, <3>2 DEF Returns
    <2>4. CASE /\ st = made /\ (\A j \in Past(t) : p[j] = found)
               /\ \E j \in Past(t) : p[j] = found
      <3>1. \A j \in Past(t) : ~Reaches(p[j], st.row)
        BY <1>4, <2>4 DEF Reaches, Reads
      <3>2. db[res] # None
        BY <1>4, <1>11, <2>4, <3>1, Refusal DEF p
      <3>3. db[ns] # None
        BY <1>4, <1>6, <1>11, <2>4, Refusal DEF p
      <3>4. Contract!CreateResourceErr(n, id) = "ErrPIDAllocationFailed"
        BY <1>1, <1>8, <2>1, <3>2, <3>3, StoredExists
           DEF Contract!CreateResourceErr, StoredResources, ns
      <3> QED
        BY <1>3, <1>4, <2>1, <2>4, <3>4 DEF Returns
    <2>5. CASE /\ st = tagged /\ \A j \in Past(t) : p[j] = found \/ p[j] = made
               /\ \E j \in Past(t) : p[j] = made
      <3>1. \A j \in Past(t) : Reads(p[j]) \/ p[j].do = "create"
        BY <1>4, <2>5
      <3>2. \A j \in Past(t) : ~Reaches(p[j], st.row)
        BY <1>4, <1>5, <2>5 DEF Reaches, Reads
      <3>3. Parents(st.row, st.value) = {res}
        BY <1>4, <1>5, <2>5, ParentsOf DEF res
      <3>4. PICK j \in Past(t) : p[j] = made
        BY <2>5
      <3>5. p[j].do = "create" /\ p[j].row \in Parents(st.row, st.value)
        BY <1>4, <3>3, <3>4
      <3>6. st.do = "create" /\ st.row[1] = "resource_tags"
        BY <1>4, <1>5, <2>5
      <3> QED
        BY <1>11, <3>1, <3>2, <3>5, <3>6, TagsAreNew DEF p
    <2> QED
      BY <1>2, <2>2, <2>3, <2>4, <2>5
  <1> QED
    BY <1>10, <1>11 DEF KeepsAtEnd

\* The statements of UpdateResource; the namespace is looked up first.
LEMMA UpdateResourceStatements ==
    ASSUME NEW o \in ResourceOps, o.kind = "UpdateResource"
    PROVE  LET p == Program(o)
               found == NamespaceFound(o)
               first == FirstSt(ResourceRow(o.ns, o.pid), "ErrResourceNotFound")
               saved == SaveLoadedSt(ResourceRow(o.ns, o.pid),
                            Given([content |-> o.content, deleted |-> o.deleted,
                                   dateUpdated |-> o.now]))
               untagged == DeleteSt({ResourceTagRow(o.ns, o.pid)}, "nil")
               retagged == CreateSt(ResourceTagRow(o.ns, o.pid), o.content, "DatabaseError")
           IN  /\ \A i \in 1..Len(p) :
                      \/ p[i] = found \/ (p[i] = first /\ \E j \in 1..(i - 1) : p[j] = found)
                      \/ p[i] = saved \/ p[i] = untagged \/ p[i] = retagged
               /\ \E i \in 1..Len(p) : p[i] = found
               /\ \E i \in 1..Len(p) : p[i] = first
               /\ \E i \in 1..Len(p) : p[i] = saved
  <1> DEFINE p == Program(o)
             found == NamespaceFound(o)
             first == FirstSt(ResourceRow(o.ns, o.pid), "ErrResourceNotFound")
             saved == SaveLoadedSt(ResourceRow(o.ns, o.pid),
                          Given([content |-> o.content, deleted |-> o.deleted,
                                 dateUpdated |-> o.now]))
             untagged == DeleteSt({ResourceTagRow(o.ns, o.pid)}, "nil")
             retagged == CreateSt(ResourceTagRow(o.ns, o.pid), o.content, "DatabaseError")
             Q == /\ \A i \in 1..Len(p) :
                         \/ p[i] = found \/ (p[i] = first /\ \E j \in 1..(i - 1) : p[j] = found)
                         \/ p[i] = saved \/ p[i] = untagged \/ p[i] = retagged
                  /\ \E i \in 1..Len(p) : p[i] = found
                  /\ \E i \in 1..Len(p) : p[i] = first
                  /\ \E i \in 1..Len(p) : p[i] = saved
  <1>1. \/ p = <<found, first, saved>> \/ p = <<found, first, saved, untagged>>
        \/ p = <<found, first, saved, untagged, retagged>>
    BY ResourceSpelled
  <1> SUFFICES Q
    OBVIOUS
  <1> HIDE DEF p, found, first, saved, untagged, retagged
  <1>2. /\ Len(p) \in {3, 4, 5} /\ p[1] = found /\ p[2] = first /\ p[3] = saved
        /\ (Len(p) \in {4, 5} => p[4] = untagged) /\ (Len(p) = 5 => p[5] = retagged)
    <2>1. CASE p = <<found, first, saved>>
      BY <2>1
    <2>2. CASE p = <<found, first, saved, untagged>>
      BY <2>2
    <2>3. CASE p = <<found, first, saved, untagged, retagged>>
      BY <2>3
    <2> QED
      BY <1>1, <2>1, <2>2, <2>3
  <1>3. \A k \in {3, 4, 5} : \A i \in 1..k :
            i = 1 \/ i = 2 \/ i = 3 \/ (i = 4 /\ k \in {4, 5}) \/ (i = 5 /\ k = 5)
    OBVIOUS
  <1>4. 1 \in 1..Len(p) /\ 2 \in 1..Len(p) /\ 3 \in 1..Len(p) /\ 1 \in 1..(2 - 1)
    BY <1>2
  <1>5. ASSUME NEW i \in 1..Len(p)
        PROVE  \/ p[i] = found \/ (p[i] = first /\ \E j \in 1..(i - 1) : p[j] = found)
               \/ p[i] = saved \/ p[i] = untagged \/ p[i] = retagged
    <2>1. i = 1 \/ i = 2 \/ i = 3 \/ (i = 4 /\ Len(p) \in {4, 5}) \/ (i = 5 /\ Len(p) = 5)
      BY <1>2, <1>3
    <2> QED
      BY <1>2, <1>4, <2>1
  <1> QED
    BY <1>2, <1>4, <1>5

\* Saving the row that was read changes the fields that are given.
LEMMA SavedIsUpdated ==
    ASSUME NEW v \in ResourceValue, NEW content, NEW deleted, NEW now \in Times
    PROVE  With(v, Given([content |-> content, deleted |-> deleted, dateUpdated |-> now]))
               = Contract!UpdatedResource(v, content, deleted, now)
  <1> DEFINE set == Given([content |-> content, deleted |-> deleted, dateUpdated |-> now])
  <1>1. DOMAIN v = {"content", "deleted", "dateCreated", "dateUpdated"}
    BY DEF ResourceValue
  <1>2. /\ "content" \in DOMAIN set <=> content # None
        /\ "deleted" \in DOMAIN set <=> deleted # None
        /\ "dateUpdated" \in DOMAIN set /\ "dateCreated" \notin DOMAIN set
        /\ content # None => set["content"] = content
        /\ deleted # None => set["deleted"] = deleted
        /\ set["dateUpdated"] = now
    BY TimesAssumption DEF Given
  <1> HIDE DEF set
  <1> DEFINE w == Contract!UpdatedResource(v, content, deleted, now)
  <1>3. /\ w = [f \in {"content", "deleted", "dateCreated", "dateUpdated"} |-> w[f]]
        /\ w["content"] = IF content = None THEN v["content"] ELSE content
        /\ w["deleted"] = IF deleted = None THEN v["deleted"] ELSE deleted
        /\ w["dateCreated"] = v["dateCreated"] /\ w["dateUpdated"] = now
    BY DEF Contract!UpdatedResource
  <1> HIDE DEF w
  <1>4. \A f \in DOMAIN v : (IF f \in DOMAIN set THEN set[f] ELSE v[f]) = w[f]
    BY <1>1, <1>2, <1>3
  <1>5. With(v, set) = w
    BY <1>1, <1>3, <1>4 DEF With
  <1> QED
    BY <1>5 DEF set, w

\* What First read is what is stored, as nobody else has committed.
LEMMA UpdateResourceEnds ==
    ASSUME NEW t \in Sessions, op[t] \in Operations, op[t].kind = "UpdateResource"
    PROVE  KeepsAtEnd(t)
  <1> DEFINE o == op[t]
             n == o.ns
             id == o.pid
             ns == NamespaceRow(n)
             res == ResourceRow(n, id)
             tag == ResourceTagRow(n, id)
             p == Prog(t)
             set == Given([content |-> o.content, deleted |-> o.deleted, dateUpdated |-> o.now])
             found == NamespaceFound(o)
             first == FirstSt(res, "ErrResourceNotFound")
             saved == SaveLoadedSt(res, set)
             untagged == DeleteSt({tag}, "nil")
             retagged == CreateSt(tag, o.content, "DatabaseError")
  <1>1. o \in ResourceOps /\ n \in NamespaceIDs /\ id \in PIDs /\ o.now \in Times
    BY StepsOfOps, ResourceFields DEF ResourceKinds
  <1>2. /\ \A i \in 1..Len(p) :
               \/ p[i] = found \/ (p[i] = first /\ \E j \in 1..(i - 1) : p[j] = found)
               \/ p[i] = saved \/ p[i] = untagged \/ p[i] = retagged
        /\ \E i \in 1..Len(p) : p[i] = found
        /\ \E i \in 1..Len(p) : p[i] = first
        /\ \E i \in 1..Len(p) : p[i] = saved
    BY <1>1, UpdateResourceStatements DEF Prog
  <1>3. \A code : ContractStep(o, code) <=>
            Returns(code, Contract!ResourceErr(n, id),
                    Contract!UpdateResource(n, id, o.content, o.deleted, o.now))
    BY StepsOfOps DEF ResourceKinds, ResourceStep
  <1>4. /\ Reads(found) /\ found.row = ns /\ found.err = "ErrNamespaceNotFound"
        /\ Reads(first) /\ first.do = "first" /\ first.row = res
        /\ first.err = "ErrResourceNotFound"
        /\ saved.do = "save loaded" /\ saved.row = res /\ saved.set = set
        /\ untagged.do = "delete" /\ untagged.rows = {tag} /\ untagged.err = "nil"
        /\ retagged.do = "create" /\ retagged.row = tag /\ retagged.err = "DatabaseError"
    BY DEF NamespaceFound, EnsureSt, FirstSt, SaveLoadedSt, DeleteSt, CreateSt, Reads
  <1>5. /\ ns \in Rows /\ res \in Rows /\ tag \in Rows /\ ns[1] = "namespaces"
        /\ res[1] = "resources" /\ res[2] = n /\ res[3] = id
        /\ tag[1] = "resource_tags" /\ tag[2] = n /\ tag[3] = id
        /\ Anchored(o) /\ Anchor(o) = res
    BY <1>1, RowNames, RowTables DEF ResourceRow, ResourceTagRow, Anchored, Anchor
  <1>6. StoredResources[n][id] = db[res]
    BY <1>1, StoredResource
  <1> HIDE DEF n, id, ns, res, tag, p, set, found, first, saved, untagged, retagged
  <1>7. ASSUME Stores(t), ~overlapped[t] PROVE ContractStep(o, "nil")
    <2>1. GormInv /\ Sound(t) /\ Past(t) = 1..Len(p)
      BY <1>7, AtTheEnd DEF Stores, Consistent, p
    <2>2. db[ns] # None
      <3>1. PICK i \in Past(t) : Prog(t)[i] = found
        BY <1>2, <2>1 DEF p
      <3> QED
        BY <1>4, <1>7, <2>1, <3>1, ReadStays
    <2>3. db[res] # None
      <3>1. PICK i \in Past(t) : Prog(t)[i] = first
        BY <1>2, <2>1 DEF p
      <3> QED
        BY <1>4, <1>7, <2>1, <3>1, ReadStays
    <2>4. Current(t, first)
      BY <1>2, <1>7, AtTheEnd DEF p
    <2>5. loaded[t] = db[res]
      BY <1>4, <1>5, <1>7, <2>4 DEF Current
    <2>6. db'[res] = With(db[res], set)
      <3>1. PICK i \in 1..Len(Prog(t)) : Prog(t)[i] = saved
        BY <1>2 DEF p
      <3>2. db'[Prog(t)[i].row] = With(loaded[t], Prog(t)[i].set)
        BY <1>4, <1>7, <3>1, AtTheEnd
      <3> QED
        BY <1>4, <2>5, <3>1, <3>2
    <2>7. db[res] \in ResourceValue
      BY <1>5, <2>1, <2>3 DEF GormInv, Typed, ValueOK, Optional
    <2>8. db'[res] = Contract!UpdatedResource(db[res], o.content, o.deleted, o.now)
      BY <1>1, <2>6, <2>7, SavedIsUpdated DEF set
    <2> DEFINE D == {res, tag}
    <2>9. Changes(D)
      <3>1. ASSUME NEW row \in Rows, row \notin D PROVE db'[row] = db[row]
        <4>1. row # res /\ row # tag
          BY <3>1
        <4>2. ~Reaches(found, row) /\ ~Reaches(first, row) /\ ~Reaches(saved, row)
          BY <1>4, <4>1 DEF Reaches, Reads
        <4>3. ~Reaches(untagged, row) /\ ~Reaches(retagged, row)
          <5>1. UserRow(row[2]) # tag
            BY <1>5, RowTables
          <5> QED
            BY <1>4, <4>1, <5>1 DEF Reaches
        <4>4. ASSUME NEW i \in 1..Len(p) PROVE ~Reaches(p[i], row)
          BY <1>2, <4>2, <4>3
        <4> QED
          BY <1>7, <4>4, AtTheEnd DEF p
      <3> QED
        BY <3>1 DEF Changes
    <2>10. \A row \in D : row[1] \in {"resources", "resource_tags"} /\ row[2] = n /\ row[3] = id
      BY <1>5
    <2> HIDE DEF D
    <2>11. /\ StoredResources' = [StoredResources EXCEPT ![n][id] = db'[res]]
           /\ UNCHANGED <<StoredUsers, StoredNamespaces, StoredRoles, StoredMounts, StoredGrants>>
      BY <1>1, <2>9, <2>10, ResourceMoves DEF res
    <2>12. Contract!ResourceErr(n, id) = "nil"
      BY <1>1, <1>6, <2>1, <2>2, <2>3, StoredExists
         DEF Contract!ResourceErr, StoredResources, ns
    <2>13. Contract!UpdateResource(n, id, o.content, o.deleted, o.now)
      BY <1>6, <2>8, <2>11, <2>12
         DEF Contract!UpdateResource, StoredMounts, StoredResources, StoredRoles, StoredGrants
    <2> QED
      BY <1>3, <2>12, <2>13 DEF Returns
  <1>8. ASSUME NEW st, Refused(t, st), ~overlapped[t]
        PROVE  ContractStep(o, st.err) \/ st.err = "DatabaseError"
    <2>1. GormInv /\ db' = db
      BY <1>8 DEF Refused, Consistent
    <2> DEFINE i == at[t]
    <2>2. i \in 1..Len(p) /\ st = p[i] /\ Past(t) = 1..(i - 1)
      BY <1>8, Refusal DEF p
    <2> HIDE DEF i
    <2>3. CASE st = found
      <3>1. db[ns] = None
        BY <1>4, <1>8, <2>3, Refusal
      <3>2. Contract!ResourceErr(n, id) = "ErrNamespaceNotFound"
        BY <1>1, <2>1, <3>1, StoredExists DEF Contract!ResourceErr, ns
      <3> QED
        BY <1>3, <1>4, <2>1, <2>3, <3>2 DEF Returns
    <2>4. CASE st = first /\ \E j \in Past(t) : p[j] = found
      <3>0. Reads(st) /\ st.row = res
        BY <1>4, <2>4
      <3>1. db[res] = None
        BY <1>8, <3>0, Refusal
      <3>2. db[ns] # None
        BY <1>4, <1>8, <2>4, Refusal DEF p
      <3>3. Contract!ResourceErr(n, id) = "ErrResourceNotFound"
        BY <1>1, <1>6, <2>1, <3>1, <3>2, StoredExists
           DEF Contract!ResourceErr, StoredResources, ns
      <3> QED
        BY <1>3, <1>4, <2>1, <2>4, <3>3 DEF Returns
    <2>5. st # saved /\ st # untagged
      BY <1>4, <1>8, Refusal DEF Reads
    <2>6. CASE st = retagged
      BY <1>4, <2>6
    <2> QED
      BY <1>2, <2>2, <2>3, <2>4, <2>5, <2>6
  <1>9. \A code : ~Atomic(o, code)
    BY DEF Atomic
  <1> QED
    BY <1>7, <1>8, <1>9 DEF KeepsAtEnd

\* What the contract makes of a batch whose items are alike.
LEMMA BatchContents ==
    ASSUME NEW pids, NEW c, NEW q, \E i \in DOMAIN pids : pids[i] = q
    PROVE  [i \in DOMAIN pids |-> c][CHOOSE i \in DOMAIN pids : pids[i] = q] = c
  <1>1. (CHOOSE i \in DOMAIN pids : pids[i] = q) \in DOMAIN pids
    OBVIOUS
  <1> QED
    BY <1>1

\* A PID that occurs twice in a batch, or is in use, refuses it before any
\* tags are inserted.
LEMMA BatchEnds ==
    ASSUME NEW t \in Sessions, op[t] \in Operations, op[t].kind = "BatchCreateResources"
    PROVE  KeepsAtEnd(t)
  <1> DEFINE o == op[t]
             n == o.ns
             m == Len(o.pids)
             ns == NamespaceRow(n)
             res(k) == ResourceRow(n, o.pids[k])
             tag(k) == ResourceTagRow(n, o.pids[k])
             p == Prog(t)
             v == NewRow(o.content, o.now)
             found == NamespaceFound(o)
             made(k) == CreateSt(res(k), v, "ErrPIDAllocationFailed")
             tagged(k) == CreateSt(tag(k), o.content, "ErrPIDAllocationFailed")
             contents == [i \in DOMAIN o.pids |-> o.content]
             Err == Contract!BatchCreateResourcesErr(n, o.pids)
  <1>1. o \in ResourceOps /\ n \in NamespaceIDs /\ o.content \in Contents
    BY StepsOfOps, ResourceFields DEF ResourceKinds
  <1>2. /\ m \in Nat /\ m >= 1 /\ DOMAIN o.pids = 1..m /\ \A k \in 1..m : o.pids[k] \in PIDs
        /\ Len(p) \in Nat /\ Len(p) >= m + 1
        /\ p[1] = found /\ \A k \in 1..m : p[k + 1] = made(k)
    <2>1. /\ m \in Nat /\ m >= 1 /\ DOMAIN o.pids = 1..m /\ \A k \in 1..m : o.pids[k] \in PIDs
          /\ p[1] = found /\ \A k \in 1..m : p[k + 1] = made(k)
      BY <1>1, BatchSpelled DEF Prog
    <2>2. Len(p) = IF o.content = Plain THEN m + 1 ELSE m + m + 1
      BY <1>1, BatchSpelled DEF Prog
    <2> HIDE DEF m, p
    <2>3. Len(p) \in Nat /\ Len(p) >= m + 1
      BY <2>1, <2>2
    <2> QED
      BY <2>1, <2>3
  <1>3. \A i \in 1..Len(p) :
            \/ i = 1 /\ p[i] = found
            \/ i - 1 \in 1..m /\ p[i] = made(i - 1)
            \/ i - 1 - m \in 1..m /\ p[i] = tagged(i - 1 - m)
    BY <1>1, BatchStatements DEF Prog
  <1>4. \A code : ContractStep(o, code) <=>
            Returns(code, Err, Contract!BatchCreateResources(n, o.pids, contents, o.now))
    BY StepsOfOps DEF ResourceKinds, ResourceStep
  <1>5. /\ Reads(found) /\ found.row = ns /\ found.err = "ErrNamespaceNotFound"
        /\ \A k : /\ made(k).do = "create" /\ made(k).row = res(k) /\ made(k).value = v
                  /\ made(k).err = "ErrPIDAllocationFailed"
                  /\ tagged(k).do = "create" /\ tagged(k).row = tag(k)
                  /\ tagged(k).value = o.content
    BY DEF NamespaceFound, EnsureSt, CreateSt, Reads
  <1>6. /\ ns \in Rows /\ Lasting(ns)
        /\ \A k \in 1..m :
               /\ res(k) \in Rows /\ res(k)[1] = "resources" /\ res(k)[2] = n
               /\ tag(k) \in Rows /\ tag(k)[1] = "resource_tags" /\ tag(k)[2] = n
               /\ Parents(tag(k), o.content) = {res(k)}
    BY <1>1, <1>2, RowNames, RowTables, ParentsOf DEF Lasting, ResourceTagRow
  <1>7. v = Contract!NewResource(o.content, o.now)
    BY DEF NewRow, Contract!NewResource
  <1>8. \A k \in 1..m : StoredResources[n][o.pids[k]] = db[res(k)]
    BY <1>1, <1>2, StoredResource
  <1>9. /\ \A k, l \in 1..m : res(k) = res(l) <=> o.pids[k] = o.pids[l]
        /\ \A k, l \in 1..m : tag(k) = tag(l) <=> o.pids[k] = o.pids[l]
        /\ \A k \in 1..m, q \in PIDs : res(k) = ResourceRow(n, q) <=> o.pids[k] = q
    BY DEF ResourceRow, ResourceTagRow
  <1>10. /\ \A k \in 1..m : k + 1 \in 1..Len(p)
         /\ 1 \in 1..Len(p)
    BY <1>2
  <1> HIDE DEF n, m, ns, res, tag, p, v, found, made, tagged
  <1>11. \A row : /\ ~Reaches(found, row)
                  /\ \A k : Reaches(made(k), row) => row = res(k)
                  /\ \A k : Reaches(tagged(k), row) => row = tag(k)
    BY <1>5 DEF Reaches, Reads
  <1>12. \A i \in 1..Len(p) : Reads(p[i]) \/ p[i].do = "create"
    BY <1>3, <1>5
  <1>13. \A i \in 1..Len(p) : \A row : Reaches(p[i], row) => p[i].do = "create"
    BY <1>3, <1>5, <1>11
  <1>14. ASSUME Stores(t) PROVE ContractStep(o, "nil")
    <2>1. GormInv /\ Sound(t) /\ Traced(t) /\ Past(t) = 1..Len(p)
      BY <1>14, AtTheEnd DEF Stores, Consistent, p
    <2>2. db[ns] # None
      <3>1. 1 \in Past(t) /\ Prog(t)[1] = found
        BY <1>2, <1>10, <2>1 DEF p
      <3> QED
        BY <1>5, <1>6, <2>1, <3>1, ReadStays
    <2>3. ASSUME NEW k \in 1..m PROVE db[res(k)] = None /\ db'[res(k)] = v
      <3>1. k + 1 \in 1..Len(p) /\ p[k + 1].do = "create" /\ p[k + 1].row = res(k)
            /\ p[k + 1].value = v
        BY <1>2, <1>5, <1>10
      <3>2. db[res(k)] = None
        BY <1>6, <1>13, <1>14, <3>1, EndOfRow DEF p
      <3>3. db'[res(k)] = v
        BY <1>14, <3>1, AtTheEnd DEF Puts, p
      <3> QED
        BY <3>2, <3>3
    <2>4. ASSUME NEW k \in 1..m, NEW l \in 1..m, k < l PROVE o.pids[k] # o.pids[l]
      <3>1. k + 1 \in Past(t) /\ l + 1 \in Past(t) /\ k + 1 < l + 1
        BY <1>2, <1>10, <2>1, <2>4
      <3>2. /\ p[k + 1].do = "create" /\ p[l + 1].do = "create"
            /\ p[k + 1].row = res(k) /\ p[l + 1].row = res(l)
        BY <1>2, <1>5
      <3>3. res(l) # res(k)
        BY <2>1, <3>1, <3>2 DEF Traced, Fresh, Puts, p
      <3> QED
        BY <1>9, <3>3
    <2> DEFINE D == {row \in Rows : row[1] \in {"resources", "resource_tags"} /\ row[2] = n}
    <2>5. Changes(D)
      <3>1. ASSUME NEW row \in Rows, row \notin D PROVE db'[row] = db[row]
        <4>1. ~(row[1] \in {"resources", "resource_tags"} /\ row[2] = n)
          BY <3>1
        <4>2. \A k \in 1..m : row # res(k) /\ row # tag(k)
          BY <1>6, <4>1
        <4>3. ASSUME NEW i \in 1..Len(p) PROVE ~Reaches(p[i], row)
          BY <1>3, <1>11, <4>2
        <4> QED
          BY <1>14, <4>3, AtTheEnd DEF p
      <3> QED
        BY <3>1 DEF Changes
    <2>6. \A row \in D : row[1] \in {"resources", "resource_tags"} /\ row[2] = n
      OBVIOUS
    <2> HIDE DEF D
    <2>7. /\ StoredResources' = [StoredResources EXCEPT ![n] =
                                    [q \in PIDs |-> db'[ResourceRow(n, q)]]]
          /\ UNCHANGED <<StoredUsers, StoredNamespaces, StoredRoles, StoredMounts, StoredGrants>>
      BY <1>1, <2>5, <2>6, ResourceMoves
    <2>8. ASSUME NEW q \in PIDs
          PROVE  db'[ResourceRow(n, q)] =
                     IF \E i \in DOMAIN o.pids : o.pids[i] = q
                     THEN Contract!NewResource(
                              contents[CHOOSE i \in DOMAIN o.pids : o.pids[i] = q], o.now)
                     ELSE StoredResources[n][q]
      <3>1. CASE \E i \in DOMAIN o.pids : o.pids[i] = q
        <4>1. PICK k \in 1..m : o.pids[k] = q
          BY <1>2, <3>1
        <4>2. db'[ResourceRow(n, q)] = v
          BY <1>9, <2>3, <4>1
        <4>3. contents[CHOOSE i \in DOMAIN o.pids : o.pids[i] = q] = o.content
          BY <3>1, BatchContents
        <4> HIDE DEF contents
        <4> QED
          BY <1>7, <3>1, <4>2, <4>3
      <3>2. CASE ~\E i \in DOMAIN o.pids : o.pids[i] = q
        <4>1. \A k \in 1..m : o.pids[k] # q
          BY <1>2, <3>2
        <4>2. ResourceRow(n, q) \in Rows /\ ResourceRow(n, q)[1] = "resources"
          BY <1>1, RowNames, RowTables
        <4>3. \A k \in 1..m : ResourceRow(n, q) # res(k) /\ ResourceRow(n, q) # tag(k)
          BY <1>6, <1>9, <4>1, <4>2
        <4>4. ASSUME NEW i \in 1..Len(p) PROVE ~Reaches(p[i], ResourceRow(n, q))
          BY <1>3, <1>11, <4>3
        <4>5. db'[ResourceRow(n, q)] = db[ResourceRow(n, q)]
          BY <1>14, <4>2, <4>4, AtTheEnd DEF p
        <4>6. StoredResources[n][q] = db[ResourceRow(n, q)]
          BY <1>1, StoredResource
        <4> HIDE DEF contents
        <4> QED
          BY <3>2, <4>5, <4>6
      <3> QED
        BY <3>1, <3>2
    <2> HIDE DEF contents
    <2>9. [q \in PIDs |-> db'[ResourceRow(n, q)]] =
              [q \in PIDs |->
                  IF \E i \in DOMAIN o.pids : o.pids[i] = q
                  THEN Contract!NewResource(
                           contents[CHOOSE i \in DOMAIN o.pids : o.pids[i] = q], o.now)
                  ELSE StoredResources[n][q]]
      BY <2>8
    <2>10. Err = "nil"
      <3>1. Contract!NamespaceExists(n)
        BY <1>1, <2>1, <2>2, StoredExists DEF ns
      <3>2. \A k, l \in 1..m : k # l => o.pids[k] # o.pids[l]
        <4>1. \A k, l \in 1..m : k # l => k < l \/ l < k
          BY <1>2
        <4> QED
          BY <2>4, <4>1
      <3>3. \A k \in DOMAIN o.pids : StoredResources[n][o.pids[k]] = None
        BY <1>2, <1>8, <2>3
      <3> QED
        BY <1>2, <3>1, <3>2, <3>3 DEF Contract!BatchCreateResourcesErr, StoredResources
    <2>11. Contract!BatchCreateResources(n, o.pids, contents, o.now)
      <3>1. StoredResources' = [StoredResources EXCEPT ![n] =
              [q \in PIDs |->
                  IF \E i \in DOMAIN o.pids : o.pids[i] = q
                  THEN Contract!NewResource(
                           contents[CHOOSE i \in DOMAIN o.pids : o.pids[i] = q], o.now)
                  ELSE StoredResources[n][q]]]
        BY <2>7, <2>9
      <3> QED
        BY <2>7, <2>10, <3>1
           DEF Contract!BatchCreateResources, StoredMounts, StoredResources, StoredRoles,
               StoredGrants
    <2> QED
      BY <1>4, <2>10, <2>11 DEF Returns
  <1>15. ASSUME NEW st, Refused(t, st) PROVE ContractStep(o, st.err)
    <2>1. GormInv /\ Traced(t) /\ db' = db
      BY <1>15 DEF Refused, Consistent
    <2> DEFINE i == at[t]
    <2>2. i \in 1..Len(p) /\ st = p[i] /\ Past(t) = 1..(i - 1)
      BY <1>15, Refusal DEF p
    <2> HIDE DEF i
    <2>3. \A j \in Past(t) : j \in 1..Len(p) /\ j < i
      BY <1>2, <2>2
    <2>4. CASE i = 1 /\ st = found
      <3>1. db[ns] = None
        BY <1>5, <1>15, <2>4, Refusal
      <3>2. Err = "ErrNamespaceNotFound"
        BY <1>1, <2>1, <3>1, StoredExists DEF Contract!BatchCreateResourcesErr, ns
      <3> QED
        BY <1>4, <1>5, <2>1, <2>4, <3>2 DEF Returns
    <2>5. CASE i - 1 \in 1..m /\ st = made(i - 1)
      <3> DEFINE k == i - 1
      <3>1. k \in 1..m /\ st.do = "create" /\ st.row = res(k) /\ st.err = "ErrPIDAllocationFailed"
        BY <1>5, <2>5
      <3>2. 1 \in Past(t) /\ p[1] = found
        BY <1>2, <2>2, <2>5
      <3>3. db[ns] # None
        BY <1>5, <1>6, <1>15, <3>2, Refusal DEF p
      <3>6. \/ \E x, y \in DOMAIN o.pids : x # y /\ o.pids[x] = o.pids[y]
            \/ \E x \in DOMAIN o.pids : StoredResources[n][o.pids[x]] # None
            => Err = "ErrPIDAllocationFailed"
        <4>1. Contract!NamespaceExists(n)
          BY <1>1, <2>1, <3>3, StoredExists DEF ns
        <4> QED
          BY <4>1 DEF Contract!BatchCreateResourcesErr, StoredResources
      <3>7. Err = "ErrPIDAllocationFailed"
        <4>1. CASE \E j \in Past(t) : Reaches(p[j], st.row)
          <5>1. PICK j \in Past(t) : Reaches(p[j], res(k))
            BY <3>1, <4>1
          <5>2. j \in 1..Len(p) /\ j < i /\ i - 1 \in 1..m
            BY <2>3, <2>5
          <5>3. j - 1 - m \notin 1..m
            BY <1>2, <2>2, <5>2
          <5>4. j - 1 \in 1..m /\ res(k) = res(j - 1)
            BY <1>3, <1>11, <5>1, <5>2, <5>3
          <5>5. j - 1 # k
            BY <1>2, <2>2, <5>2
          <5> HIDE DEF k
          <5>6. o.pids[k] = o.pids[j - 1]
            BY <1>9, <3>1, <5>4
          <5>7. \E x, y \in DOMAIN o.pids : x # y /\ o.pids[x] = o.pids[y]
            BY <1>2, <3>1, <5>4, <5>5, <5>6
          <5> QED
            BY <3>6, <5>7
        <4>2. CASE \A j \in Past(t) : ~Reaches(p[j], st.row)
          <5>1. db[res(k)] # None
            BY <1>15, <3>1, <4>2, Refusal DEF p
          <5> HIDE DEF k
          <5>2. \E x \in DOMAIN o.pids : StoredResources[n][o.pids[x]] # None
            BY <1>2, <1>8, <3>1, <5>1
          <5> QED
            BY <3>6, <5>2
        <4> QED
          BY <4>1, <4>2
      <3> QED
        BY <1>4, <2>1, <3>1, <3>7 DEF Returns
    <2>6. CASE i - 1 - m \in 1..m /\ st = tagged(i - 1 - m)
      <3> DEFINE k == i - 1 - m
      <3>1. /\ k \in 1..m /\ st.do = "create" /\ st.row = tag(k) /\ st.value = o.content
        BY <1>5, <2>6
      <3>2. \A l \in 1..m : l + 1 \in Past(t)
        BY <1>2, <2>2, <2>6
      <3>3. ASSUME NEW j \in Past(t), Reaches(p[j], tag(k)) PROVE FALSE
        <4>1. j \in 1..Len(p) /\ j < i
          BY <2>3
        <4>2. j - 1 - m \in 1..m /\ tag(k) = tag(j - 1 - m)
          BY <1>3, <1>6, <1>11, <3>1, <3>3, <4>1
        <4> DEFINE l == j - 1 - m
        <4>3. l \in 1..m /\ l < k /\ tag(k) = tag(l)
          BY <1>2, <2>2, <4>1, <4>2
        <4> HIDE DEF k, l
        <4>4. res(l) = res(k)
          BY <1>9, <3>1, <4>3
        <4>5. /\ l + 1 \in Past(t) /\ k + 1 \in Past(t) /\ l + 1 < k + 1
              /\ p[l + 1].do = "create" /\ p[k + 1].do = "create"
              /\ p[l + 1].row = res(l) /\ p[k + 1].row = res(k)
          BY <1>2, <1>5, <3>1, <3>2, <4>3
        <4> QED
          BY <2>1, <4>4, <4>5 DEF Traced, Fresh, Puts, p
      <3> HIDE DEF k
      <3>4. /\ k + 1 \in Past(t) /\ p[k + 1].do = "create"
            /\ p[k + 1].row \in Parents(st.row, st.value)
        BY <1>2, <1>5, <1>6, <3>1, <3>2
      <3>5. \A j \in Past(t) : Reads(p[j]) \/ p[j].do = "create"
        BY <1>12, <2>3
      <3>6. \A j \in Past(t) : ~Reaches(p[j], st.row)
        BY <3>1, <3>3
      <3>7. st.row[1] = "resource_tags"
        BY <1>6, <3>1
      <3> QED
        BY <1>15, <3>1, <3>4, <3>5, <3>6, <3>7, TagsAreNew DEF p
    <2> QED
      BY <1>3, <2>2, <2>4, <2>5, <2>6
  <1> QED
    BY <1>14, <1>15 DEF KeepsAtEnd

-----------------------------------------------------------------------------
(* Every transaction is one step of the contract *)

\* Every operation ends like the contract.
LEMMA EveryKindKeeps ==
    ASSUME NEW t \in Sessions, op[t] \in Operations
    PROVE  KeepsAtEnd(t)
  <1>1. op[t].kind \in AccountKinds \cup NamespaceKinds \cup ResourceKinds
    BY StepsOfOps
  <1>2. CASE op[t].kind \in AccountKinds
    BY <1>2, CreateUserEnds, DeleteUserEnds, UpdateUserEnds, SetGrantEnds, DeleteGrantEnds,
       SetPasswordEnds, CreateKeyEnds, RevokeKeyEnds DEF AccountKinds
  <1>3. CASE op[t].kind \in NamespaceKinds
    BY <1>3, CreateNamespaceEnds, UpdateNamespaceEnds, SetRoleEnds, DeleteRoleEnds, SetMountEnds,
       DeleteMountEnds DEF NamespaceKinds
  <1>4. CASE op[t].kind \in ResourceKinds
    BY <1>4, CreateResourceEnds, BatchEnds, UpdateResourceEnds DEF ResourceKinds
  <1> QED
    BY <1>1, <1>2, <1>3, <1>4

\* Every connection has an answer.
Answers == DOMAIN result = Sessions

LEMMA AnswersInvariant == GormSpec => []Answers
  <1>1. GormInit => Answers
    BY DEF GormInit, SessionsInit, IdleSessions, Answers
  <1>2. ASSUME Answers, [GormNext]_gormVars PROVE Answers'
    <2>1. result' = result \/ \E t, x : result' = [result EXCEPT ![t] = x]
      <3>1. CASE UNCHANGED gormVars
        BY <3>1 DEF gormVars, sessionVars
      <3>2. CASE GormNext
        BY <3>2 DEF GormNext, Begin, Fails, Execute, ExecEnsure, ExecFirst, ExecCreate, Insert,
               ExecSave, ExecSaveLoaded, ExecUpdate, ScanDelete, ExecDelete, Commit, Rollback,
               Read, Write, Advance
      <3> QED
        BY <1>2, <3>1, <3>2
    <2> QED
      BY <1>2, <2>1 DEF Answers
  <1> QED
    BY <1>1, <1>2, PTL DEF GormSpec

\* Committing is judged alike whether or not the answer is lost.
LEMMA AnswerLost ==
    ASSUME NEW o
    PROVE  Atomic(o, "DatabaseError") <=> Atomic(o, "nil")
  BY DEF Atomic

\* What a session does ends no other transaction.
LEMMA EndsOwn ==
    ASSUME GormInv, NEW s \in Sessions, NEW t \in Sessions, s # t,
           (\E o \in Operations : Begin(s, o)) \/ Execute(s) \/ Fails(s)
    PROVE  op'[t] = op[t]
  <1>1. DOMAIN op = Sessions
    BY DEF GormInv, Placed, PerSession
  <1>2. op' = op \/ \E x : op' = [op EXCEPT ![s] = x]
    BY DEF Begin, Fails, Execute, ExecEnsure, ExecFirst, ExecCreate, Insert, ExecSave,
           ExecSaveLoaded, ExecUpdate, ScanDelete, ExecDelete, Commit, Rollback, Forget, Read,
           Write, Advance
  <1> QED
    BY <1>1, <1>2

\* Execution that ends a transaction refuses it.
LEMMA HowItEnds ==
    ASSUME GormInv, NEW t \in Sessions, Ended(t), Execute(t) \/ Fails(t)
    PROVE  \/ Commit(t)
           \/ Rollback(t, "DatabaseError")
           \/ /\ ~AtEnd(t) /\ Rollback(t, Statement(t).err)
              /\ \/ Reads(Statement(t)) /\ View(t, Statement(t).row) = None
                 \/ Statement(t).do = "create" /\ View(t, Statement(t).row) # None
                 \/ /\ Statement(t).do = "delete" /\ Targets(t) = {}
                    /\ Statement(t).err # "nil"
  <1>1. op[t] # None /\ op'[t] = None
    BY DEF Ended, Open
  <1>2. ~Advance(t)
    BY <1>1 DEF Advance
  <1>3. CASE Fails(t)
    BY <1>3 DEF Fails
  <1>4. CASE ExecEnsure(t)
    BY <1>2, <1>4 DEF ExecEnsure, Ready, Read, Reads
  <1>5. CASE ExecFirst(t)
    BY <1>2, <1>5 DEF ExecFirst, Ready, Read, Reads
  <1>6. ASSUME NEW row, NEW v, Insert(t, row, v) PROVE Rollback(t, "DatabaseError")
    BY <1>2, <1>6 DEF Insert, Write
  <1>7. CASE ExecCreate(t)
    BY <1>6, <1>7 DEF ExecCreate, Ready
  <1>8. CASE ExecSave(t)
    BY <1>2, <1>6, <1>8 DEF ExecSave, Write
  <1>9. CASE ExecSaveLoaded(t) \/ ExecUpdate(t)
    BY <1>2, <1>9 DEF ExecSaveLoaded, ExecUpdate, Write, Read
  <1>10. CASE ScanDelete(t)
    BY <1>1, <1>10 DEF ScanDelete
  <1>11. CASE ExecDelete(t)
    BY <1>2, <1>11 DEF ExecDelete, Ready, Write
  <1> QED
    BY <1>3, <1>4, <1>5, <1>7, <1>8, <1>9, <1>10, <1>11 DEF Execute

\* The step that ends a transaction is a step of the contract.
LEMMA ContractSteps ==
    ASSUME GormInv, AllTraced, AllSound, Answers, [GormNext]_gormVars, NEW t \in Sessions,
           Ended(t), Atomic(op[t], result'[t]) \/ ~overlapped[t]
    PROVE  KeepsContract(t)
  <1>1. Consistent(t) /\ op[t] \in Operations
    BY DEF Consistent, AllTraced, AllSound, Ended, Open, GormInv, Placed, PlacedAt, Optional
  <1>2. KeepsAtEnd(t)
    BY <1>1, EveryKindKeeps
  <1>3. op'[t] # op[t]
    BY DEF Ended, Open
  <1>4. PICK s \in Sessions : (\E o \in Operations : Begin(s, o)) \/ Execute(s) \/ Fails(s)
    BY <1>3 DEF GormNext, gormVars, sessionVars
  <1>5. s = t
    BY <1>3, <1>4, EndsOwn
  <1>6. Execute(t) \/ Fails(t)
    BY <1>4, <1>5 DEF Begin, Ended
  <1>7. DOMAIN result = Sessions
    BY DEF Answers
  <1>8. CASE Commit(t)
    <2>1. Stores(t)
      BY <1>1, <1>8 DEF Stores, Commit
    <2>2. result'[t] \in {"nil", "DatabaseError"}
      BY <1>7, <1>8 DEF Commit
    <2>3. Atomic(op[t], "nil") \/ ~overlapped[t]
      BY <2>2, AnswerLost
    <2>4. ContractStep(op[t], "nil")
      BY <1>2, <2>1, <2>3 DEF KeepsAtEnd
    <2> QED
      BY <2>2, <2>4 DEF KeepsContract
  <1>9. CASE Rollback(t, "DatabaseError")
    BY <1>7, <1>9 DEF Rollback, KeepsContract
  <1>10. CASE /\ ~AtEnd(t) /\ Rollback(t, Statement(t).err)
              /\ \/ Reads(Statement(t)) /\ View(t, Statement(t).row) = None
                 \/ Statement(t).do = "create" /\ View(t, Statement(t).row) # None
                 \/ /\ Statement(t).do = "delete" /\ Targets(t) = {}
                    /\ Statement(t).err # "nil"
    <2> DEFINE st == Statement(t)
    <2>1. db' = db /\ result'[t] = st.err
      BY <1>7, <1>10 DEF Rollback
    <2>2. Refused(t, st)
      BY <1>1, <1>10, <2>1 DEF Refused
    <2> HIDE DEF st
    <2>3. ContractStep(op[t], st.err) \/ st.err = "DatabaseError"
      BY <1>2, <2>1, <2>2 DEF KeepsAtEnd
    <2> QED
      BY <2>1, <2>3 DEF KeepsContract
  <1> QED
    BY <1>6, <1>8, <1>9, <1>10, HowItEnds

\* The backend on a database implements the storage contract of the memory
\* backend, for any number of connections, names and values: a transaction
\* that no other one overlaps returns and stores what the one locked step of
\* the contract does, one that creates something or changes a mount or role
\* does so whatever overlaps it, and an error of the database leaves
\* everything of it or nothing.
THEOREM GormImplementsContract == GormSpec => ImplementsContract
  <1>1. ASSUME GormInv, AllTraced, AllSound, Answers, [GormNext]_gormVars
        PROVE  \A t \in Sessions :
                   Ended(t) /\ (Atomic(op[t], result'[t]) \/ ~overlapped[t]) => KeepsContract(t)
    BY <1>1, ContractSteps
  <1> QED
    BY <1>1, SoundInvariant, AnswersInvariant, PTL DEF GormSpec, ImplementsContract

=============================================================================
