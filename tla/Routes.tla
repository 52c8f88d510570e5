------------------------------- MODULE Routes -------------------------------
(***************************************************************************)
(* The routes of server.NewServer that need a caller: the scope each one   *)
(* demands, the error codes it declares, and the codes its handler can     *)
(* answer a malformed request with.  A route is named after its handler.   *)
(* The public routes, which read constants only, are left out.             *)
(***************************************************************************)
EXTENDS Scopes

\* Routes below /resolver that demand a user scope.
ResolverRoutes ==
    {"listNamespaces", "createNamespace", "countAllResources", "listMounts",
     "resolveMountByBaseUri", "upsertNamespaceMount", "deleteNamespaceMount",
     "resolveResourceByMountAndPID", "setMountGrant", "deleteMountGrant"}

\* Routes that demand a scope in the namespace of their path.
NamespaceRoutes ==
    {"getNamespace", "updateNamespace", "listNamespaceMounts",
     "listNamespaceRoles", "getNamespaceRole", "setNamespaceRole",
     "removeNamespaceRole", "listResources", "createResource",
     "createResourceBatch", "getResource", "updateResource"}

\* Routes below /user and /users.
AccountRoutes ==
    {"getUserInfo", "updateUser", "createUser", "deleteUser",
     "autocompleteUsers", "listUsers", "getUserRoles", "listOwnMountGrants",
     "listUserKeys", "issueUserKey", "setUserPassword", "revokeUserKey"}

AllRoutes == ResolverRoutes \cup NamespaceRoutes \cup AccountRoutes

\* Where the scope of a user route has another name than the route.
RenamedScope ==
    [resolveMountByBaseUri        |-> "resolveMountResource",
     upsertNamespaceMount         |-> "setMount",
     deleteNamespaceMount         |-> "deleteMount",
     resolveResourceByMountAndPID |-> "getMount",
     getUserRoles                 |-> "listUserRoles",
     listUserKeys                 |-> "listOwnKeys",
     issueUserKey                 |-> "issueKey",
     setUserPassword              |-> "setPassword",
     revokeUserKey                |-> "revokeKey"]

UserScopeOf(route) ==
    IF route \in DOMAIN RenamedScope THEN RenamedScope[route] ELSE route

\* The role routes tell one's own role from that of others.
SelfScope ==
    [getNamespaceRole    |-> "getNamespaceRoleSelf",
     setNamespaceRole    |-> "setNamespaceRoleSelf",
     removeNamespaceRole |-> "removeNamespaceRoleSelf"]
OtherScope ==
    [getNamespaceRole    |-> "getNamespaceRoleOther",
     setNamespaceRole    |-> "setNamespaceRoleOther",
     removeNamespaceRole |-> "removeNamespaceRoleOther"]

NamespaceScopeOf(route, self) ==
    IF route \notin DOMAIN SelfScope THEN route
    ELSE IF self THEN SelfScope[route] ELSE OtherScope[route]

\* Routes whose handler reads the caller through its pointer.
DereferencesCaller ==
    (AccountRoutes \ {"listOwnMountGrants"}) \cup
    {"listNamespaceRoles", "setNamespaceRole", "removeNamespaceRole"}

\* Routes wrapped in checkBaseUriGrant.
GrantRoutes == {"upsertNamespaceMount", "deleteNamespaceMount"}

-----------------------------------------------------------------------------
(* Codes answered to a malformed request: code by code, the routes whose   *)
(* handler calls a parser or validation that returns it.                   *)

\* Before the scope is checked.
PathErrors ==
    [InvalidNamespaceID |-> NamespaceRoutes,
     InvalidUsername    |-> DOMAIN SelfScope]

DecodesJSON ==
    {"createNamespace", "upsertNamespaceMount", "setMountGrant",
     "updateNamespace", "setNamespaceRole", "createResource",
     "createResourceBatch", "updateResource", "updateUser", "createUser",
     "issueUserKey", "setUserPassword", "revokeUserKey"}

ParsesPagination ==
    {"listNamespaces", "listMounts", "listNamespaceMounts",
     "listNamespaceRoles", "listResources", "listUsers", "getUserRoles",
     "listOwnMountGrants", "listUserKeys"}

\* After it; the batch limit is looked at first thing in the service.
InputErrors ==
    [BodyMissing              |-> DecodesJSON,
     BodyInvalidJSON          |-> DecodesJSON,
     BodySizeExceeded         |-> DecodesJSON,
     InvalidQueryParameter    |-> ParsesPagination \cup
         {"updateUser", "deleteUser", "autocompleteUsers", "issueUserKey"},
     InvalidUsername          |-> {"setMountGrant", "deleteMountGrant",
                                   "createUser", "updateUser", "deleteUser"},
     InvalidBaseURI           |-> GrantRoutes \cup
         {"resolveMountByBaseUri", "resolveResourceByMountAndPID"},
     InvalidPID               |-> {"resolveResourceByMountAndPID",
                                   "getResource", "updateResource"},
     InvalidNamespaceID       |-> {"upsertNamespaceMount", "issueUserKey"},
     InvalidMountGrantPattern |-> {"setMountGrant", "deleteMountGrant"},
     InvalidResourceURL       |-> {"createResource", "createResourceBatch",
                                   "updateResource"},
     InvalidAutocompleteQuery |-> {"autocompleteUsers"},
     InvalidPassword          |-> {"setUserPassword"},
     UnknownScope             |-> {"issueUserKey"},
     ItemLimitExceeded        |-> {"createResourceBatch"}]

CodesOf(table, route) == {code \in DOMAIN table : route \in table[code]}

-----------------------------------------------------------------------------
(* Codes declared by the routes; all of them declare Unauthorized,         *)
(* Forbidden and DatabaseError.                                            *)

DeclaresBody ==
    {"createNamespace", "upsertNamespaceMount", "setMountGrant",
     "updateNamespace", "setNamespaceRole", "createResource",
     "createResourceBatch", "updateResource", "updateUser", "createUser",
     "issueUserKey", "setUserPassword", "revokeUserKey"}

Declared ==
    [Unauthorized               |-> AllRoutes,
     Forbidden                  |-> AllRoutes,
     DatabaseError              |-> AllRoutes,
     BodyMissing                |-> DeclaresBody,
     BodyInvalidJSON            |-> DeclaresBody,
     BodySizeExceeded           |-> DeclaresBody,
     InvalidQueryParameter      |->
         {"listNamespaces", "listMounts", "listNamespaceMounts",
          "listNamespaceRoles", "listResources", "updateUser", "deleteUser",
          "autocompleteUsers", "listUsers", "getUserRoles",
          "listOwnMountGrants", "listUserKeys", "issueUserKey"},
     InvalidNamespaceID         |-> NamespaceRoutes \cup
         {"upsertNamespaceMount", "issueUserKey"},
     InvalidUsername            |->
         {"setMountGrant", "deleteMountGrant", "getNamespaceRole",
          "setNamespaceRole", "removeNamespaceRole", "updateUser",
          "createUser", "deleteUser"},
     InvalidBaseURI             |->
         {"resolveMountByBaseUri", "upsertNamespaceMount",
          "deleteNamespaceMount", "resolveResourceByMountAndPID"},
     InvalidPID                 |->
         {"resolveResourceByMountAndPID", "getResource", "updateResource"},
     InvalidMountGrantPattern   |-> {"setMountGrant", "deleteMountGrant"},
     InvalidResourceURL         |->
         {"createResource", "createResourceBatch", "updateResource"},
     InvalidAutocompleteQuery   |-> {"autocompleteUsers"},
     InvalidPassword            |-> {"setUserPassword"},
     InvalidRole                |-> {"setNamespaceRole"},
     UnknownScope               |-> {"issueUserKey"},
     ItemLimitExceeded          |-> {"createResourceBatch"},
     UnavailableInAnonymousMode |-> AccountRoutes \cup
         {"setMountGrant", "deleteMountGrant", "listNamespaceRoles",
          "getNamespaceRole", "setNamespaceRole", "removeNamespaceRole"},
     NamespaceNotFound          |-> NamespaceRoutes \cup
         {"upsertNamespaceMount", "resolveResourceByMountAndPID", "issueUserKey"},
     ResourceNotFound           |->
         {"resolveResourceByMountAndPID", "getResource", "updateResource"},
     MountNotFound              |->
         {"resolveMountByBaseUri", "deleteNamespaceMount",
          "resolveResourceByMountAndPID"},
     UserNotFound               |->
         {"setMountGrant", "deleteMountGrant", "updateUser", "deleteUser"},
     MountGrantNotFound         |-> {"deleteMountGrant"},
     RoleNotFound               |-> {"removeNamespaceRole"},
     KeyNotFound                |-> {"revokeUserKey"},
     DuplicateUsername          |-> {"createUser"},
     BadIDGeneration            |->
         {"createNamespace", "createResource", "createResourceBatch", "issueUserKey"},
     InsufficientEntropy        |->
         {"createNamespace", "createResource", "createResourceBatch", "issueUserKey"}]

=============================================================================
