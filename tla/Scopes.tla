------------------------------- MODULE Scopes -------------------------------
(***************************************************************************)
(* Who may do what: the tables of api/scopes_user.go and                   *)
(* api/scopes_namespace.go, the restriction an API key puts on its owner,  *)
(* and the evaluation of a scope for a caller.                             *)
(*                                                                         *)
(* A caller is None for an unauthenticated request, and otherwise a record *)
(* with username, superuser and limits: the scopes of the API key used, or *)
(* None when the method (password, impersonation) restricts nothing.       *)
(* An evaluation yields "nil" or the code of the error.                    *)
(***************************************************************************)
EXTENDS Store

-----------------------------------------------------------------------------
(* User scopes *)

UserScopes ==
    {"listNamespaces", "createNamespace", "countAllResources", "listMounts",
     "resolveMountResource", "setMount", "deleteMount", "getMount",
     "setMountGrant", "deleteMountGrant", "getUserInfo", "updateUser",
     "createUser", "deleteUser", "autocompleteUsers", "listUsers",
     "listUserRoles", "listOwnMountGrants", "listOwnKeys", "issueKey",
     "setPassword", "revokeKey", "impersonate"}

AnonymousUserScopes ==
    {"listNamespaces", "createNamespace", "countAllResources", "listMounts",
     "resolveMountResource", "setMount", "deleteMount", "getMount"}

UnauthenticatedUserScopes ==
    {"countAllResources", "resolveMountResource", "getMount"}

SuperuserScopes ==
    {"setMountGrant", "deleteMountGrant", "updateUser", "createUser",
     "deleteUser", "listUsers", "impersonate"}

-----------------------------------------------------------------------------
(* Namespace scopes *)

RoleScopes ==
    {"listNamespaceRoles", "getNamespaceRoleSelf", "getNamespaceRoleOther",
     "setNamespaceRoleSelf", "setNamespaceRoleOther",
     "removeNamespaceRoleSelf", "removeNamespaceRoleOther"}

NamespaceScopes ==
    RoleScopes \cup
    {"getNamespace", "updateNamespace", "listNamespaceMounts", "listResources",
     "createResource", "createResourceBatch", "getResource", "updateResource",
     "seeDeletedResource", "seeInNamespaceList"}

AnonymousNamespaceScopes == NamespaceScopes \ RoleScopes

UnauthenticatedNamespaceScopes == {"getNamespace", "getResource"}

SuperuserNamespaceScopes == {"setNamespaceRoleSelf", "removeNamespaceRoleSelf"}

ManagerScopes ==
    {"updateNamespace", "listNamespaceRoles", "getNamespaceRoleOther",
     "setNamespaceRoleOther", "removeNamespaceRoleOther"}
EditorScopes == {"listResources", "updateResource", "seeDeletedResource"}
ContributorScopes ==
    {"listNamespaceMounts", "createResource", "createResourceBatch",
     "seeInNamespaceList"}

MinRole(scope) ==
    CASE scope \in ManagerScopes     -> "manager"
      [] scope \in EditorScopes      -> "editor"
      [] scope \in ContributorScopes -> "contributor"
      [] OTHER                       -> "none"

Rank == [none |-> 0, contributor |-> 1, editor |-> 2, manager |-> 3]

\* Less than or equal, despite the name.
LessThan(role, other) == Rank[role] <= Rank[other]

-----------------------------------------------------------------------------
(* The scopes of an API key *)

Grants == [user : SUBSET UserScopes, ns : SUBSET (NamespaceIDs \X NamespaceScopes)]

\* No scopes of one kind grant all of that kind if emptyIsAll.
Has(items, emptyIsAll, item) ==
    IF items = {} THEN emptyIsAll ELSE item \in items

HasUserScope(grants, scope) == Has(grants.user, grants.ns = {}, scope)

HasNamespaceScope(grants, n, scope) ==
    Has(grants.ns, grants.user = {}, <<n, scope>>)

\* AuthenticationMethod.AllowsUserScope and AllowsNamespaceScope.
AllowsUserScope(limits, scope) ==
    limits = None \/ HasUserScope(limits, scope)

AllowsNamespaceScope(limits, n, scope) ==
    limits = None \/ HasNamespaceScope(limits, n, scope)

-----------------------------------------------------------------------------
(* Evaluation *)

CallerRecord ==
    [username : Usernames, superuser : BOOLEAN, limits : Optional(KeyScopes)]

Callers == Optional(CallerRecord)

Limits(caller) == IF caller = None THEN None ELSE caller.limits

\* Mutant of EvaluateAnonymousModeUserScope: one scope too many.
EvaluateAnonymousModeWithGrants(scope) ==
    IF scope \in AnonymousUserScopes \cup {"setMountGrant"} THEN "nil"
    ELSE "UnavailableInAnonymousMode"

EvaluateAnonymousModeUserScope(scope) ==
    IF scope \in AnonymousUserScopes THEN "nil" ELSE "UnavailableInAnonymousMode"

EvaluateUserScope(caller, scope) ==
    IF ~AllowsUserScope(Limits(caller), scope) THEN "Unauthorized"
    ELSE IF caller = None
    THEN IF scope \in UnauthenticatedUserScopes THEN "nil" ELSE "Unauthorized"
    ELSE IF caller.superuser \/ scope \notin SuperuserScopes THEN "nil"
    ELSE "Forbidden"

\* Mutant of EvaluateAnonymousModeNamespaceScope: nothing is refused.
EvaluateAnonymousModeAll(scope) == "nil"

EvaluateAnonymousModeNamespaceScope(scope) ==
    IF scope \in AnonymousNamespaceScopes THEN "nil"
    ELSE "UnavailableInAnonymousMode"

EvaluateNamespaceScope(n, explicitRole, caller, scope) ==
    IF ~AllowsNamespaceScope(Limits(caller), n, scope) THEN "Unauthorized"
    ELSE IF caller = None
    THEN IF scope \in UnauthenticatedNamespaceScopes THEN "nil" ELSE "Unauthorized"
    ELSE IF \/ caller.superuser
            \/ /\ scope \notin SuperuserNamespaceScopes
               /\ LessThan(MinRole(scope), explicitRole)
    THEN "nil"
    ELSE "Forbidden"

=============================================================================
