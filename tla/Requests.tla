------------------------------ MODULE Requests ------------------------------
(***************************************************************************)
(* A request from its headers to its answer: lowlevel.Handler resolves the *)
(* caller and checks the scope of the route, the handler reads its input   *)
(* and calls the service, and the service calls the Store.  Every call of  *)
(* the backend is a step of its own, so an account, key, role, grant or    *)
(* mount can change between the check and the use.  Two reads are not told *)
(* apart from the call that follows them: whether a namespace exists,      *)
(* which is never undone, and the attempts of a generator that collide,    *)
(* which change nothing.                                                   *)
(*                                                                         *)
(* The path, query and body reach the model as the choice of user, ns and  *)
(* base when the request arrives (checks depend on them) and of the other  *)
(* arguments when the handler acts.  A PID is drawn in one step here; the  *)
(* allocation itself is the subject of PIDAllocation.                      *)
(***************************************************************************)
EXTENDS Routes

\* The route of handleSwaggerUI: it needs no caller, and takes the lock of
\* the options that ServeHTTP already holds.
Documentation == "documentation"

CONSTANTS
    Handlers,     \* requests that may be served at the same time
    Covers,       \* base URIs each mount grant pattern matches
    Offered,      \* the routes clients use
    MaxRequests,  \* bound: requests received
    MaxEvents     \* bound: writes by anybody else

ASSUME RequestsAssumption ==
    /\ KeyScopes \subseteq Grants
    /\ Times \subseteq Nat
    /\ Covers \in [Patterns -> SUBSET BaseURIs]
    /\ Offered \subseteq AllRoutes \cup {Documentation}
    /\ MaxRequests \in Nat /\ MaxEvents \in Nat
    /\ None \notin BaseURIs /\ None \notin CallerRecord

VARIABLES
    pc,        \* what the handler does next
    call,      \* the request: credentials and path
    caller,    \* the caller resolved so far
    place,     \* namespace a mount resolved to
    result,    \* what the implementation returned
    anonymous, \* Options.Anonymous
    waiting,   \* a SetOptions waits for Server.m
    clock,
    received,  \* requests so far
    events,    \* writes by others so far
    seen       \* what has been true since the request arrived

requestVars == <<pc, call, caller, place, result>>
allVars == <<vars, requestVars, anonymous, waiting, clock, received, events, seen>>

-----------------------------------------------------------------------------
(* Requests *)

Credentials ==
    [kind : {"empty", "invalid"}]
        \cup [kind : {"bearer"}, raw : RawKeys]
        \cup [kind : {"basic"}, username : Usernames, password : Passwords]

TargetsUser ==
    DOMAIN SelfScope \cup
    {"setMountGrant", "deleteMountGrant", "createUser", "updateUser", "deleteUser"}
TargetsBase ==
    GrantRoutes \cup {"resolveMountByBaseUri", "resolveResourceByMountAndPID"}

\* as is the impersonation header: a name, or "invalid" for no valid name
\* and for more than one header.  It is read only behind credentials.
Headers ==
    [cred : {c \in Credentials : c.kind \in {"empty", "invalid"}}, as : {None}]
        \cup
    [cred : {c \in Credentials : c.kind \in {"bearer", "basic"}},
     as   : Optional(Usernames) \cup {"invalid"}]

NoHeaders == [cred |-> [kind |-> "empty"], as |-> None]

Calls ==
    UNION {[head : IF op = Documentation THEN {NoHeaders} ELSE Headers,
            op   : {op},
            user : IF op \in TargetsUser THEN Usernames ELSE {None},
            ns   : IF op \in NamespaceRoutes THEN NamespaceIDs ELSE {None},
            base : IF op \in TargetsBase THEN BaseURIs ELSE {None}] :
           op \in Offered}

\* Answers that are not errors: an object or a list, one that shows a deleted
\* resource in full, and a deleted resource of which only the deletion is
\* shown.
Answered == {"nil", "deleted", "redacted"}

\* What a credential opens now.
Opens(cred) ==
    CASE cred.kind = "bearer" ->
            {[username |-> uk[1], limits |-> KeyAt(uk[1], uk[2]).scopes] :
                uk \in {uk \in LookupUserByKey(cred.raw) :
                           Valid(KeyAt(uk[1], uk[2]).expiresAt, clock)}}
      [] cred.kind = "basic" ->
            {[username |-> u, limits |-> None] :
                u \in {u \in {cred.username} : CheckPassword(u, cred.password)}}
      [] OTHER -> {}

\* Where the resource or role of the request lives.
Where(r) == IF call[r].ns = None THEN place[r] ELSE call[r].ns

Superuser(u) == UserExists(u) /\ users[u].superuser

\* Some grant of u matches the base URI.
MountGrantMatches(u, base) ==
    \E pattern \in mountGrants[u] : base \in Covers[pattern]

-----------------------------------------------------------------------------
(* The facts an answer may rest on, remembered while a request is served *)

NoFacts ==
    [modes |-> {}, opened |-> {}, supers |-> {}, absent |-> {}, ranks |-> {}, granted |-> {}]

Facts(r) ==
    [modes   |-> {anonymous},
     opened  |-> Opens(call[r].head.cred),
     supers  |-> {u \in Usernames : Superuser(u)},
     absent  |-> {u \in Usernames : ~UserExists(u)},
     ranks   |-> IF Where(r) = None THEN {}
                 ELSE {<<u, roles[Where(r)][u]>> : u \in Usernames},
     granted |-> IF call[r].base = None THEN {}
                 ELSE {u \in Usernames : MountGrantMatches(u, call[r].base)}]

InFlight(r) == pc[r] \notin {"idle", "done"}

Witnessed ==
    [r \in Handlers |->
        IF InFlight(r)
        THEN [f \in DOMAIN NoFacts |-> seen[r][f] \cup Facts(r)[f]]
        ELSE seen[r]]

\* What every step of a handler does and leaves alone.
Watch == seen' = Witnessed /\ UNCHANGED <<anonymous, waiting, clock, received, events>>

-----------------------------------------------------------------------------
(* Steps of a handler *)

Goto(r, step) ==
    /\ pc' = [pc EXCEPT ![r] = step]
    /\ UNCHANGED <<vars, call, place, result>>
    /\ Watch

Continue(r, step) == Goto(r, step) /\ UNCHANGED caller

\* Returns a value or an error from the implementation of the route.
Answer(r, code) ==
    /\ pc' = [pc EXCEPT ![r] = "done"]
    /\ result' = [result EXCEPT ![r] = code]
    /\ UNCHANGED <<call, caller, place>>
    /\ Watch

Fail(r, code) == Answer(r, code) /\ UNCHANGED vars

\* RLock of Server.m: a writer that waits keeps new readers out.
MayRLock == ~waiting

\* ServeHTTP holds the read lock until the request is answered.
Receive(r) ==
    /\ ~InFlight(r)
    /\ MayRLock
    /\ received < MaxRequests
    /\ received' = received + 1
    /\ \E c \in Calls :
           /\ call' = [call EXCEPT ![r] = c]
           /\ pc' = [pc EXCEPT ![r] = IF c.op = Documentation THEN "document" ELSE "resolve"]
    /\ caller' = [caller EXCEPT ![r] = None]
    /\ place' = [place EXCEPT ![r] = None]
    /\ result' = [result EXCEPT ![r] = None]
    /\ seen' = [Witnessed EXCEPT ![r] = NoFacts]
    /\ UNCHANGED <<vars, anonymous, waiting, clock, events>>

\* The page, or 404 when the options disable it: they are read under a second
\* read lock.
ServeDocumentation(r) ==
    /\ pc[r] = "document"
    /\ MayRLock
    /\ Fail(r, "nil")

\* A request without credentials has no caller, and no impersonation.
ResolveNobody(r) ==
    /\ pc[r] = "resolve"
    /\ call[r].head.cred.kind = "empty"
    /\ Continue(r, "check")

\* AuthenticateAPIKey and AuthenticatePassword; the account is loaded next.
Authenticate(r) ==
    /\ pc[r] = "resolve"
    /\ call[r].head.cred.kind # "empty"
    /\ LET opened == IF anonymous THEN {} ELSE Opens(call[r].head.cred)
       IN  \/ opened = {} /\ Fail(r, "Unauthorized")
           \/ \E o \in opened :
                  /\ caller' = [caller EXCEPT ![r] = [username  |-> o.username,
                                                      superuser |-> FALSE,
                                                      limits    |-> o.limits]]
                  /\ Goto(r, "load")

LoadUser(r) ==
    /\ pc[r] = "load"
    /\ LET u == caller[r].username
       IN  \/ ~UserExists(u) /\ Fail(r, "DatabaseError")
           \/ /\ UserExists(u)
              /\ caller' = [caller EXCEPT ![r].superuser = users[u].superuser]
              /\ Goto(r, IF call[r].head.as = None THEN "check" ELSE "impersonate")

\* Mutant of MayImpersonate: only the superuser flag is looked at.
MayImpersonateAny(c) == c.superuser

MayImpersonate(c) == EvaluateUserScope(c, "impersonate") = "nil"

\* The impersonated account is not restricted by the key of its caller.
Impersonate(r) ==
    /\ pc[r] = "impersonate"
    /\ LET u == call[r].head.as
           found == MayImpersonate(caller[r]) /\ u # "invalid" /\ UserExists(u)
       IN  \/ ~found /\ Fail(r, "Unauthorized")
           \/ /\ found
              /\ caller' = [caller EXCEPT ![r] = [username  |-> u,
                                                  superuser |-> users[u].superuser,
                                                  limits    |-> None]]
              /\ Goto(r, "check")

CheckUserScope(c, scope) ==
    IF anonymous THEN EvaluateAnonymousModeUserScope(scope)
    ELSE EvaluateUserScope(c, scope)

\* Mutant of CheckNamespaceScope: the best role the user has anywhere.
CheckAnyNamespaceScope(n, c, scope) ==
    IF anonymous THEN EvaluateAnonymousModeNamespaceScope(scope)
    ELSE IF c # None /\ ~NamespaceExists(n) THEN "NamespaceNotFound"
    ELSE IF \E m \in NamespaceIDs :
                EvaluateNamespaceScope(n, IF c = None THEN "none"
                                          ELSE roles[m][c.username], c, scope) = "nil"
         THEN "nil" ELSE "Forbidden"

\* ExplicitNamespaceRole is asked only about a caller, and only it looks the
\* namespace up.
CheckNamespaceScope(n, c, scope) ==
    IF anonymous THEN EvaluateAnonymousModeNamespaceScope(scope)
    ELSE IF c = None THEN EvaluateNamespaceScope(n, "none", c, scope)
    ELSE IF ~NamespaceExists(n) THEN "NamespaceNotFound"
    ELSE EvaluateNamespaceScope(n, roles[n][c.username], c, scope)

ScopeErr(r) ==
    LET c == call[r] IN
    IF c.op \in NamespaceRoutes
    THEN CheckNamespaceScope(c.ns, caller[r],
             NamespaceScopeOf(c.op, caller[r] # None /\ c.user = caller[r].username))
    ELSE CheckUserScope(caller[r], UserScopeOf(c.op))

CheckScope(r) ==
    /\ pc[r] = "check"
    /\ \/ \E code \in CodesOf(PathErrors, call[r].op) : Fail(r, code)
       \/ ScopeErr(r) # "nil" /\ Fail(r, ScopeErr(r))
       \/ /\ ScopeErr(r) = "nil"
          /\ Continue(r, IF call[r].op \in GrantRoutes THEN "grant" ELSE "act")

\* Mutant of GrantErr: a match is not required.
GrantErrUnmatched(c, base) ==
    IF anonymous \/ c = None THEN "nil"
    ELSE IF c.superuser \/ UserExists(c.username) THEN "nil"
    ELSE "DatabaseError"

\* checkBaseUriGrant
GrantErr(c, base) ==
    IF anonymous \/ c = None THEN "nil"
    ELSE IF c.superuser THEN "nil"
    ELSE IF ~UserExists(c.username) THEN "DatabaseError"
    ELSE IF MountGrantMatches(c.username, base) THEN "nil"
    ELSE "Forbidden"

CheckGrant(r) ==
    /\ pc[r] = "grant"
    /\ LET err == GrantErr(caller[r], call[r].base)
       IN  \/ Fail(r, "InvalidBaseURI")
           \/ err # "nil" /\ Fail(r, err)
           \/ err = "nil" /\ Continue(r, "act")

\* The handler evaluates *caller, and there is none.
NilDereference(r) == call[r].op \in DereferencesCaller /\ caller[r] = None

\* The handler cannot read its input, or panics with it.
BadInput(r) ==
    /\ pc[r] = "act"
    /\ \E code \in CodesOf(InputErrors, call[r].op) \cup
                   (IF NilDereference(r) THEN {"nil dereference"} ELSE {}) :
           /\ ~(code = "InvalidBaseURI" /\ call[r].op \in GrantRoutes)
           /\ Fail(r, code)

-----------------------------------------------------------------------------
(* Errors of the Store, as the services translate them *)

CodeOf ==
    [ErrDuplicateUsername   |-> "DuplicateUsername",
     ErrUserNotFound        |-> "UserNotFound",
     ErrKeyNotFound         |-> "KeyNotFound",
     ErrKeyCollision        |-> "InsufficientEntropy",
     ErrDuplicateNamespaceID |-> "InsufficientEntropy",
     ErrPIDAllocationFailed |-> "InsufficientEntropy",
     ErrNamespaceNotFound   |-> "NamespaceNotFound",
     ErrResourceNotFound    |-> "ResourceNotFound",
     ErrRoleNotFound        |-> "RoleNotFound",
     ErrMountNotFound       |-> "MountNotFound",
     ErrMountGrantNotFound  |-> "MountGrantNotFound"]

\* Mutant of Untranslated: revoking a key of a deleted account says so.
UntranslatedButRevoke ==
    [ErrUserNotFound |->
        {"createNamespace", "setUserPassword", "listMounts", "getUserRoles",
         "listOwnMountGrants"},
     ErrNamespaceNotFound |-> {"setNamespaceRole"}]

\* Routes that answer DatabaseError where others say what is missing.
Untranslated ==
    [ErrUserNotFound |->
        {"createNamespace", "setUserPassword", "revokeUserKey", "listMounts",
         "getUserRoles", "listOwnMountGrants"},
     ErrNamespaceNotFound |-> {"setNamespaceRole"}]

ServiceCode(op, err) ==
    IF err \in DOMAIN Untranslated /\ op \in Untranslated[err]
    THEN "DatabaseError" ELSE CodeOf[err]

\* Ends a handler that makes one call of the Store.
Show(r, err, Effect, answer) ==
    \/ err = "nil" /\ Effect /\ Answer(r, answer)
    \/ err # "nil" /\ Fail(r, ServiceCode(call[r].op, err))

Perform(r, err, Effect) == Show(r, err, Effect, "nil")

\* The handler of op is about to call its service.
Acts(r, op) ==
    /\ pc[r] = "act"
    /\ call[r].op = op
    /\ ~NilDereference(r)

-----------------------------------------------------------------------------
(* Accounts and credentials *)

CreateUserAct(r) ==
    /\ Acts(r, "createUser")
    /\ \E superuser \in BOOLEAN :
           Perform(r, CreateUserErr(call[r].user), CreateUser(call[r].user, superuser))

\* Mutant of OwnAccount: callers may change and delete themselves.
OwnAccountAllowed(r) == FALSE

\* Nobody deletes, promotes or demotes the account they act as.
OwnAccount(r) == call[r].user = caller[r].username

DeleteUserAct(r) ==
    /\ Acts(r, "deleteUser")
    /\ \/ OwnAccount(r) /\ Fail(r, "Forbidden")
       \/ ~OwnAccount(r) /\ Perform(r, UserErr(call[r].user), DeleteUser(call[r].user))

UpdateUserAct(r) ==
    /\ Acts(r, "updateUser")
    /\ \/ OwnAccount(r) /\ Fail(r, "Forbidden")
       \/ /\ ~OwnAccount(r)
          /\ \E superuser \in Optional(BOOLEAN) :
                 Perform(r, UserErr(call[r].user), UpdateUser(call[r].user, superuser))

SetUserPasswordAct(r) ==
    /\ Acts(r, "setUserPassword")
    /\ \E password \in Optional(Passwords) :
           Perform(r, UserErr(caller[r].username),
                   SetPassword(caller[r].username, password))

RevokeKeyAct(r) ==
    /\ Acts(r, "revokeUserKey")
    /\ \E k \in KeyIDs :
           Perform(r, RevokeKeyErr(caller[r].username, k),
                   RevokeKey(caller[r].username, k))

\* The scopes asked for are not compared with those of the key in use.
IssueKeyAct(r) ==
    /\ Acts(r, "issueUserKey")
    /\ \E scopes \in KeyScopes, expiresAt \in Optional(Times) :
           \/ ~Valid(expiresAt, clock) /\ Fail(r, "InvalidQueryParameter")
           \/ /\ Valid(expiresAt, clock)
              /\ \E grant \in scopes.ns : ~NamespaceExists(grant[1])
              /\ Fail(r, "NamespaceNotFound")
           \/ /\ Valid(expiresAt, clock)
              /\ \A grant \in scopes.ns : NamespaceExists(grant[1])
              /\ \E k \in KeyIDs, raw \in RawKeys :
                     Perform(r, CreateKeyErr(caller[r].username, k, raw),
                             CreateKey(caller[r].username, k, raw, expiresAt, scopes))

-----------------------------------------------------------------------------
(* Namespaces, roles and mounts *)

CreateNamespaceAct(r) ==
    /\ Acts(r, "createNamespace")
    /\ LET owner == IF caller[r] = None THEN None ELSE caller[r].username
       IN  \E n \in NamespaceIDs, format \in Formats, tags \in Contents :
               Perform(r, CreateNamespaceErr(n, owner),
                       CreateNamespace(n, owner, format, tags, clock))

UpdateNamespaceAct(r) ==
    /\ Acts(r, "updateNamespace")
    /\ \E tags \in Optional(Contents) :
           Perform(r, NamespaceErr(call[r].ns), UpdateNamespace(call[r].ns, tags, clock))

\* The role is written, then read again for the answer.
SetNamespaceRoleAct(r) ==
    /\ Acts(r, "setNamespaceRole")
    /\ LET err == NamespaceErr(call[r].ns)
       IN  \E role \in Roles :
             \/ role = "none" /\ Fail(r, "InvalidRole")
             \/ role # "none" /\ err # "nil" /\ Fail(r, ServiceCode(call[r].op, err))
             \/ /\ role # "none"
                /\ SetNamespaceRole(call[r].ns, call[r].user, role)
                /\ pc' = [pc EXCEPT ![r] = "reread"]
                /\ UNCHANGED <<call, caller, place, result>>
                /\ Watch

\* Mutant of RereadRole: this read, too, takes the lock of the options.
RereadRoleLocked(r) ==
    /\ pc[r] = "reread"
    /\ MayRLock
    /\ Fail(r, IF NamespaceExists(call[r].ns) THEN "nil" ELSE "NamespaceNotFound")

RereadRole(r) ==
    /\ pc[r] = "reread"
    /\ Fail(r, IF NamespaceExists(call[r].ns) THEN "nil" ELSE "NamespaceNotFound")

RemoveNamespaceRoleAct(r) ==
    /\ Acts(r, "removeNamespaceRole")
    /\ LET n == call[r].ns
           u == call[r].user
       IN  Perform(r, IF NamespaceExists(n) THEN DeleteNamespaceRoleErr(n, u)
                      ELSE "ErrNamespaceNotFound",
                   DeleteNamespaceRole(n, u))

SetMountAct(r) ==
    /\ Acts(r, "upsertNamespaceMount")
    /\ \E n \in NamespaceIDs :
           Perform(r, NamespaceErr(n), SetMount(call[r].base, n))

DeleteMountAct(r) ==
    /\ Acts(r, "deleteNamespaceMount")
    /\ Perform(r, MountErr(call[r].base), DeleteMount(call[r].base))

SetMountGrantAct(r) ==
    /\ Acts(r, "setMountGrant")
    /\ \E pattern \in Patterns :
           Perform(r, UserErr(call[r].user), SetMountGrant(call[r].user, pattern))

DeleteMountGrantAct(r) ==
    /\ Acts(r, "deleteMountGrant")
    /\ \E pattern \in Patterns :
           Perform(r, DeleteMountGrantErr(call[r].user, pattern),
                   DeleteMountGrant(call[r].user, pattern))

-----------------------------------------------------------------------------
(* Resources *)

\* A generated PID outside the format of the namespace is refused.
CreateResourceAct(r) ==
    /\ Acts(r, "createResource")
    /\ LET n == call[r].ns
       IN  \E p \in PIDs, content \in Contents :
             \/ /\ NamespaceExists(n) /\ p \notin namespaces[n].pidFormat
                /\ Fail(r, "BadIDGeneration")
             \/ /\ NamespaceExists(n) => p \in namespaces[n].pidFormat
                /\ Perform(r, CreateResourceErr(n, p),
                           CreateResource(n, p, content, clock))

\* An empty batch inserts nothing.  The format check panics on the zero PID
\* left when all attempts to draw a PID repeat earlier ones.
CreateResourceBatchAct(r) ==
    /\ Acts(r, "createResourceBatch")
    /\ LET n == call[r].ns
       IN  \E pids \in Batches : \E contents \in [DOMAIN pids -> Contents] :
             \/ /\ NamespaceExists(n) /\ \E i \in DOMAIN pids : i > 1
                /\ Fail(r, "zero PID")
             \/ /\ NamespaceExists(n)
                /\ \E i \in DOMAIN pids : pids[i] \notin namespaces[n].pidFormat
                /\ Fail(r, "BadIDGeneration")
             \/ /\ NamespaceExists(n) =>
                       \A i \in DOMAIN pids : pids[i] \in namespaces[n].pidFormat
                /\ \A i, j \in DOMAIN pids : pids[i] = pids[j] => i = j
                /\ Perform(r, BatchCreateResourcesErr(n, pids),
                           BatchCreateResources(n, pids, contents, clock))

\* Resources as they are stored, with one that is deleted among them or not.
InFull(deleted) == IF deleted THEN "deleted" ELSE "nil"

\* The answer is the updated resource, also when it is deleted.
UpdateResourceAct(r) ==
    /\ Acts(r, "updateResource")
    /\ LET n == call[r].ns
       IN  \E p \in PIDs, content \in Optional(Contents), deleted \in Optional(BOOLEAN) :
               Show(r, ResourceErr(n, p), UpdateResource(n, p, content, deleted, clock),
                    InFull(IF deleted = None THEN resources[n][p].deleted ELSE deleted))

\* What the deleted parameter admits of a page, which the tag, limit and
\* offset choose.
ListResourcesAct(r) ==
    /\ Acts(r, "listResources")
    /\ LET n == call[r].ns
       IN  \E page \in SUBSET PIDs, deleted \in Optional(BOOLEAN) :
               Show(r, NamespaceErr(n), UNCHANGED vars,
                    InFull(/\ deleted # FALSE
                           /\ \E p \in page : ResourceErr(n, p) = "nil" /\ resources[n][p].deleted))

\* GetMount; the resource is read from where the mount led a moment ago.
ResolveMount(r) ==
    /\ Acts(r, "resolveResourceByMountAndPID")
    /\ LET n == mounts[call[r].base]
       IN  \/ n = None /\ Fail(r, "MountNotFound")
           \/ /\ n # None
              /\ pc' = [pc EXCEPT ![r] = "read"]
              /\ place' = [place EXCEPT ![r] = n]
              /\ UNCHANGED <<vars, call, caller, result>>
              /\ Watch

\* GetResource
ReadResource(r) ==
    /\ pc[r] = "read" \/ Acts(r, "getResource")
    /\ \E p \in PIDs :
           LET err == ResourceErr(Where(r), p)
           IN  \/ err # "nil" /\ Fail(r, ServiceCode(call[r].op, err))
               \/ /\ err = "nil"
                  /\ IF resources[Where(r)][p].deleted
                     THEN Continue(r, "redact") ELSE Fail(r, "nil")

\* Mutant of Redacted: every caller of getResource sees what was deleted.
RedactedFromStrangers(r) ==
    CheckNamespaceScope(Where(r), caller[r], "getResource") # "nil"

\* shouldRedactResource
Redacted(r) ==
    CheckNamespaceScope(Where(r), caller[r], "seeDeletedResource") # "nil"

RedactResource(r) ==
    /\ pc[r] = "redact"
    /\ Fail(r, IF Redacted(r) THEN "redacted" ELSE "deleted")

-----------------------------------------------------------------------------
(* Routes that only read *)

ReadRoutes ==
    {"resolveMountByBaseUri", "listUserKeys", "getUserRoles",
     "listOwnMountGrants", "listMounts", "getNamespace", "listNamespaceMounts",
     "listNamespaceRoles", "getNamespaceRole", "listNamespaces",
     "countAllResources", "getUserInfo", "autocompleteUsers", "listUsers"}

ReadErr(r) ==
    LET op == call[r].op
        c  == caller[r]
    IN  CASE op = "resolveMountByBaseUri" -> MountErr(call[r].base)
          [] op \in {"listUserKeys", "getUserRoles", "listOwnMountGrants"} ->
                 UserErr(c.username)
          [] op = "listMounts" ->
                 IF c = None THEN "nil" ELSE
                 IF c.superuser THEN "nil" ELSE UserErr(c.username)
          [] op \in NamespaceRoutes -> NamespaceErr(call[r].ns)
          [] OTHER -> "nil"

ReadAct(r) ==
    /\ call[r] # None /\ call[r].op \in ReadRoutes
    /\ Acts(r, call[r].op)
    /\ Perform(r, ReadErr(r), UNCHANGED vars)

-----------------------------------------------------------------------------
(* What fails below the services *)

\* Steps at which the backend is called, and the answer when it fails.  A
\* check that fails for any reason redacts.
FailureAnswer(r) ==
    CASE pc[r] = "resolve" -> "Unauthorized"
      [] pc[r] = "redact"  -> "redacted"
      [] OTHER             -> "DatabaseError"

CallsBackend(r) ==
    CASE pc[r] = "resolve"     -> ~anonymous /\ call[r].head.cred.kind \in {"bearer", "basic"}
      [] pc[r] = "document"    -> FALSE
      [] pc[r] = "impersonate" -> MayImpersonate(caller[r]) /\ call[r].head.as # "invalid"
      [] pc[r] = "check"       -> ~anonymous /\ caller[r] # None /\ call[r].ns # None
      [] pc[r] = "redact"      -> ~anonymous /\ caller[r] # None
      [] pc[r] = "grant"       -> ~anonymous /\ caller[r] # None /\ ~caller[r].superuser
      [] pc[r] = "act"         ->
             /\ call[r].op # "getUserInfo"
             /\ ~NilDereference(r)
      [] OTHER                 -> InFlight(r)

BackendFails(r) == CallsBackend(r) /\ Fail(r, FailureAnswer(r))

\* The runtime yields no id, key or PID.
GeneratorFails(r) ==
    /\ pc[r] = "act"
    /\ call[r].op \in Declared.BadIDGeneration
    /\ ~NilDereference(r)
    /\ Fail(r, "BadIDGeneration")

-----------------------------------------------------------------------------

ResolveCaller(r) ==
    ResolveNobody(r) \/ Authenticate(r) \/ LoadUser(r) \/ Impersonate(r)

Implement(r) ==
    \/ CreateUserAct(r) \/ DeleteUserAct(r) \/ UpdateUserAct(r)
    \/ SetUserPasswordAct(r) \/ RevokeKeyAct(r) \/ IssueKeyAct(r)
    \/ CreateNamespaceAct(r) \/ UpdateNamespaceAct(r)
    \/ SetNamespaceRoleAct(r) \/ RereadRole(r) \/ RemoveNamespaceRoleAct(r)
    \/ SetMountAct(r) \/ DeleteMountAct(r)
    \/ SetMountGrantAct(r) \/ DeleteMountGrantAct(r)
    \/ CreateResourceAct(r) \/ CreateResourceBatchAct(r) \/ UpdateResourceAct(r)
    \/ ResolveMount(r) \/ ReadResource(r) \/ RedactResource(r)
    \/ ListResourcesAct(r) \/ ReadAct(r)

Proceed(r) ==
    \/ ServeDocumentation(r) \/ ResolveCaller(r) \/ CheckScope(r) \/ CheckGrant(r)
    \/ Implement(r)

Serve(r) == Proceed(r) \/ BadInput(r) \/ BackendFails(r) \/ GeneratorFails(r)

\* Any other client of the store: requests not followed here, the clean-up
\* of keys, another server on the same database.  What they do after the
\* last request followed here is of no interest.
Others ==
    /\ events < MaxEvents
    /\ received < MaxRequests \/ \E r \in Handlers : InFlight(r)
    /\ events' = events + 1
    /\ Next
    /\ seen' = Witnessed
    /\ UNCHANGED <<requestVars, anonymous, waiting, clock, received>>

\* The clock need not be monotonic.
Tick ==
    /\ clock' \in Times \ {clock}
    /\ seen' = Witnessed
    /\ UNCHANGED <<vars, requestVars, anonymous, waiting, received, events>>

\* SetOptions asks for the write lock.
RequestOptions ==
    /\ ~waiting
    /\ events < MaxEvents
    /\ events' = events + 1
    /\ waiting' = TRUE
    /\ seen' = Witnessed
    /\ UNCHANGED <<vars, requestVars, anonymous, clock, received>>

\* Mutant of ApplyOptions: the write lock is granted beside read locks.
ApplyOptionsAnyTime ==
    /\ waiting
    /\ anonymous' \in BOOLEAN
    /\ waiting' = FALSE
    /\ seen' = Witnessed
    /\ UNCHANGED <<vars, requestVars, clock, received, events>>

\* SetOptions has the write lock, sets the options and those of the service,
\* and returns.
ApplyOptions ==
    /\ waiting
    /\ \A r \in Handlers : ~InFlight(r)
    /\ anonymous' \in BOOLEAN
    /\ waiting' = FALSE
    /\ seen' = Witnessed
    /\ UNCHANGED <<vars, requestVars, clock, received, events>>

RequestsNext ==
    \/ \E r \in Handlers : Receive(r) \/ Serve(r)
    \/ RequestOptions \/ ApplyOptions
    \/ Others \/ Tick

\* No request yet; the store may hold anything.
RequestsInit ==
    /\ pc = [r \in Handlers |-> "idle"]
    /\ call = [r \in Handlers |-> None]
    /\ caller = [r \in Handlers |-> None]
    /\ place = [r \in Handlers |-> None]
    /\ result = [r \in Handlers |-> None]
    /\ seen = [r \in Handlers |-> NoFacts]
    /\ anonymous \in BOOLEAN
    /\ waiting = FALSE
    /\ clock \in Times
    /\ received = 0 /\ events = 0

RequestsSpec == Init /\ RequestsInit /\ [][RequestsNext]_allVars

\* Handlers keep running, and a lock that is free is granted.
RequestsFairness ==
    /\ \A r \in Handlers : WF_allVars(Serve(r))
    /\ WF_allVars(ApplyOptions)

-----------------------------------------------------------------------------
(* Properties *)

Codes == DOMAIN Declared

\* What a handler knows of its caller has its type at every step of the
\* pipeline, over a well-typed store.
RequestsTypeOK ==
    /\ TypeOK
    /\ pc \in [Handlers -> {"idle", "document", "resolve", "load", "impersonate", "check",
                            "grant", "act", "reread", "read", "redact", "done"}]
    /\ call \in [Handlers -> Optional(Calls)]
    /\ caller \in [Handlers -> Callers]
    /\ place \in [Handlers -> Optional(NamespaceIDs)]
    /\ result \in [Handlers -> Optional(Codes \cup Answered \cup
                                        {"nil dereference", "zero PID"})]
    /\ anonymous \in BOOLEAN /\ waiting \in BOOLEAN /\ clock \in Times
    /\ received \in 0..MaxRequests /\ events \in 0..MaxEvents

\* Whom the credentials stood for at some moment of the request, and with
\* which restriction.
Principals(r) ==
    IF call[r].head.cred.kind = "empty" THEN {None}
    ELSE {[username  |-> o.username,
           superuser |-> o.username \in seen[r].supers,
           limits    |-> o.limits] : o \in seen[r].opened}

\* The rule for user scopes, in terms of what was true during the request.
UserScopeDue(r, c, scope) ==
    IF TRUE \in seen[r].modes THEN c = None /\ scope \in AnonymousUserScopes
    ELSE IF c = None THEN scope \in UnauthenticatedUserScopes
    ELSE /\ scope \in SuperuserScopes => c.superuser
         /\ \/ c.limits = None
            \/ c.limits.user = {} /\ c.limits.ns = {}
            \/ scope \in c.limits.user

\* The rule for namespace scopes.
NamespaceScopeDue(r, c, scope) ==
    IF TRUE \in seen[r].modes THEN c = None /\ scope \in AnonymousNamespaceScopes
    ELSE IF c = None THEN scope \in UnauthenticatedNamespaceScopes
    ELSE /\ \/ c.superuser
            \/ /\ scope \notin SuperuserNamespaceScopes
               /\ \E role \in Roles :
                      /\ <<c.username, role>> \in seen[r].ranks
                      /\ Rank[role] >= Rank[MinRole(scope)]
         /\ \/ c.limits = None
            \/ c.limits.user = {} /\ c.limits.ns = {}
            \/ <<Where(r), scope>> \in c.limits.ns

\* Whom the request may act as.
Actors(r) ==
    IF call[r].head.as = None \/ call[r].head.cred.kind = "empty" THEN Principals(r)
    ELSE {[username |-> call[r].head.as, superuser |-> call[r].head.as \in seen[r].supers,
           limits |-> None] :
             c \in {c \in Principals(r) : UserScopeDue(r, c, "impersonate")}}

\* The route was due to c.
Due(r, c) ==
    LET op == call[r].op IN
    IF op = Documentation THEN TRUE
    ELSE IF op \in NamespaceRoutes
    THEN NamespaceScopeDue(r, c,
             NamespaceScopeOf(op, c # None /\ call[r].user = c.username))
    ELSE /\ UserScopeDue(r, c, UserScopeOf(op))
         /\ op \in GrantRoutes /\ c # None =>
                c.superuser \/ c.username \in seen[r].granted

\* A request is answered, and the store changed for it, only if during the
\* request itself its credentials opened an account that was due the route:
\* handle.go checks the key or password, the superuser flag, the role and
\* the mount grant in separate reads while accounts, keys, roles and grants
\* are changed by others, and no check may rest on an older request, another
\* namespace or a wider key.  What is due is the table of the code.  It asks
\* nobody who reads a resource that is not deleted for credentials, although
\* the specification does (spec/openapi.yaml:1844, spec/README.md:191).
AnsweredMeansAuthorized ==
    \A r \in Handlers :
        pc[r] = "reread" \/ (pc[r] = "done" /\ result[r] \in Answered) =>
            \E c \in Actors(r) : Due(r, c)

Unrestricted(c) ==
    IF c = None THEN None
    ELSE [username |-> c.username, superuser |-> c.superuser, limits |-> None]

\* Routes that show resources as they are stored, to whoever may use them.
ShowsStored == {"listResources", "updateResource"}

\* Whatever the route, the content of a deleted resource is shown only to
\* callers who were editors of its namespace or superusers during the request
\* (in anonymous mode, to all), also when a mount that has since been moved
\* led there.  A key must also allow seeDeletedResource, but on the two routes
\* that never ask: the list of resources and the answer to an update show
\* deleted resources in full to a key for just that route.
DeletedStaysHidden ==
    \A r \in Handlers :
        pc[r] = "done" /\ result[r] = "deleted" =>
            \E c \in Actors(r) :
                /\ NamespaceScopeDue(r, Unrestricted(c), "seeDeletedResource")
                /\ \/ call[r].op \in ShowsStored
                   \/ NamespaceScopeDue(r, c, "seeDeletedResource")

\* writeHandledError panics on a code the route does not declare.
Panics(r) ==
    /\ pc[r] = "done"
    /\ result[r] \notin Answered \cup CodesOf(Declared, call[r].op)

\* A handler panics in two cases only: the account of the caller is deleted
\* while its keys are listed or issued, and a batch runs out of attempts.
\* In particular no route reads a caller that is nil, in either mode, and
\* every other error a service returns is declared by its route.
PanicsAreKnown ==
    \A r \in Handlers :
        Panics(r) =>
            \/ /\ call[r].op \in {"listUserKeys", "issueUserKey"}
               /\ result[r] = "UserNotFound"
               /\ caller[r].username \in seen[r].absent
            \/ call[r].op = "createResourceBatch" /\ result[r] = "zero PID"

\* As long as the account a request acts as still is a superuser, the step
\* in which it writes leaves one: only superusers delete or demote accounts,
\* and never the one they act as.  (When each of two superusers deletes the
\* other at the same time, neither premise survives and none may be left.)
KeepsSuperuser ==
    \A r \in Handlers :
        pc[r] = "act" /\ pc'[r] = "done" /\ caller[r] # None =>
            (Superuser(caller[r].username) => \E u \in Usernames : Superuser(u)')

\* No request of a lasting superuser removes the last one.
LastSuperuserStays == [][KeepsSuperuser]_allVars

\* The comment of Service.IssueKey lists the codes it can return, and the
\* route declares these and those of its own parsing.
IssueKeyReturnsListedCodes ==
    \A r \in Handlers :
        pc[r] = "done" /\ call[r].op = "issueUserKey" =>
            result[r] = "nil" \/ result[r] \in CodesOf(Declared, "issueUserKey")

\* A handler that is being served can always go on, and needs no failure for
\* it, whatever others have deleted or changed and although SetOptions waits:
\* the only step that waits for somebody else is the second read lock of
\* handleSwaggerUI, behind a SetOptions that waits for the first.
OnlyDocumentationWaits ==
    \A r \in Handlers :
        InFlight(r) /\ ~ENABLED Proceed(r) => pc[r] = "document" /\ waiting

\* The comment of SetOptions calls it safe to use concurrently with
\* ServeHTTP: it gets its turn when the requests before it are answered.
OptionsAreSet == waiting ~> ~waiting

=============================================================================
