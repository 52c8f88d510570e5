--------------------------- MODULE RequestsProofs ---------------------------
(***************************************************************************)
(* Proofs about Requests.  A check of the pipeline reads the store once,   *)
(* and what it read may be changed by others before the next step.  What   *)
(* lasts is what was true at some moment of the request: seen only grows   *)
(* while the request is served.  The invariant therefore says, stage by    *)
(* stage, which facts in seen the caller resolved so far, and the checks   *)
(* passed so far, rest on.                                                 *)
(***************************************************************************)
EXTENDS Requests, StoreProofs

\* Requests over any well-typed store, not only one filled from empty.
AnyStoreSpec == TypeOK /\ RequestsInit /\ [][RequestsNext]_allVars

-----------------------------------------------------------------------------
(* What is known of a request, in terms of the facts s seen during it, the *)
(* call k and the caller c resolved so far.                                *)

\* The credentials opened the account of c, with the restriction of c.
Vouched(s, c) ==
    \E o \in s.opened : o.username = c.username /\ o.limits = c.limits

\* The credentials opened an account that could impersonate others.
Impersonator(s) ==
    \E o \in s.opened :
        /\ o.username \in Usernames \cap s.supers
        /\ o.limits \in Optional(KeyScopes)
        /\ AllowsUserScope(o.limits, "impersonate")

\* The request acts as c.
Acting(s, k, c) ==
    IF c = None THEN k.head.cred.kind = "empty"
    ELSE /\ k.head.cred.kind # "empty"
         /\ c.superuser => c.username \in s.supers
         /\ IF k.head.as = None THEN Vouched(s, c)
            ELSE c.username = k.head.as /\ c.limits = None /\ Impersonator(s)

UserAllowed(s, c, scope) ==
    IF TRUE \in s.modes THEN c = None /\ scope \in AnonymousUserScopes
    ELSE IF c = None THEN scope \in UnauthenticatedUserScopes
    ELSE /\ scope \in SuperuserScopes => c.username \in s.supers
         /\ AllowsUserScope(c.limits, scope)

\* u held a role that is enough for the scope.
Ranked(s, u, scope) ==
    /\ scope \notin SuperuserNamespaceScopes
    /\ \E role \in Roles : <<u, role>> \in s.ranks /\ LessThan(MinRole(scope), role)

NamespaceAllowed(s, n, c, scope) ==
    IF TRUE \in s.modes THEN c = None /\ scope \in AnonymousNamespaceScopes
    ELSE IF c = None THEN scope \in UnauthenticatedNamespaceScopes
    ELSE /\ c.username \in s.supers \/ Ranked(s, c.username, scope)
         /\ AllowsNamespaceScope(c.limits, n, scope)

\* The scope of the route was due.
RouteDue(s, k, c) ==
    IF k.op = Documentation THEN TRUE
    ELSE IF k.op \in NamespaceRoutes
    THEN NamespaceAllowed(s, k.ns, c,
             NamespaceScopeOf(k.op, c # None /\ k.user = c.username))
    ELSE UserAllowed(s, c, UserScopeOf(k.op))

\* So was the mount grant, where the route asks for one.
GrantDue(s, k, c) ==
    k.op \in GrantRoutes /\ c # None => c.username \in s.supers \cup s.granted

-----------------------------------------------------------------------------
(* The inductive invariant *)

Checked == {"grant", "act", "reread", "read", "redact"}
Resolved == Checked \cup {"check"}
Loading == {"load", "impersonate"}

Succeeded(r) == pc[r] = "done" /\ result[r] \in Answered

\* The options do not change while a request is served.
ModeInv(r) ==
    /\ InFlight(r) => seen[r].modes \subseteq {anonymous}
    /\ pc[r] \in Resolved \cup Loading => anonymous \in seen[r].modes

\* Which routes reach which stage.
RouteInv(r) ==
    /\ pc[r] # "idle" => call[r] \in Calls
    /\ pc[r] = "document" => call[r].op = Documentation
    /\ InFlight(r) /\ pc[r] # "document" => call[r].op \in AllRoutes
    /\ pc[r] = "grant" => call[r].op \in GrantRoutes
    /\ pc[r] = "reread" => call[r].op = "setNamespaceRole"
    /\ pc[r] = "read" => call[r].op = "resolveResourceByMountAndPID" /\ place[r] # None
    /\ pc[r] = "redact" =>
           \/ call[r].op = "getResource"
           \/ call[r].op = "resolveResourceByMountAndPID" /\ place[r] # None

\* Whom the handler takes for the caller, and why.
CallerInv(r) ==
    /\ pc[r] \in {"document", "resolve"} => caller[r] = None
    /\ pc[r] \in Loading =>
           /\ caller[r] # None
           /\ call[r].head.cred.kind # "empty"
           /\ Vouched(seen[r], caller[r])
           /\ caller[r].superuser => caller[r].username \in seen[r].supers
    /\ pc[r] = "impersonate" => call[r].head.as # None
    /\ InFlight(r) /\ anonymous => caller[r] = None
    /\ pc[r] \in Resolved \/ Succeeded(r) => Acting(seen[r], call[r], caller[r])

\* What was checked was due.
DueInv(r) ==
    /\ pc[r] \in Checked \/ Succeeded(r) => RouteDue(seen[r], call[r], caller[r])
    /\ pc[r] \in Checked \ {"grant"} \/ Succeeded(r) =>
           GrantDue(seen[r], call[r], caller[r])
    /\ pc[r] = "done" /\ result[r] = "deleted" /\ call[r].op \notin ShowsStored =>
           NamespaceAllowed(seen[r], Where(r), caller[r], "seeDeletedResource")

\* What an answer may be.
CodeInv(r) ==
    pc[r] = "done" =>
        \/ result[r] \in Answered
        \/ call[r].op \in AllRoutes /\ result[r] \in CodesOf(Declared, call[r].op)
        \/ /\ call[r].op \in {"listUserKeys", "issueUserKey"}
           /\ result[r] = "UserNotFound"
           /\ caller[r].username \in seen[r].absent
        \/ call[r].op = "createResourceBatch" /\ result[r] = "zero PID"

HandlerInv(r) ==
    ModeInv(r) /\ RouteInv(r) /\ CallerInv(r) /\ DueInv(r) /\ CodeInv(r)

\* The types, and for every handler what its stage has established.
RequestsInv == RequestsTypeOK /\ \A r \in Handlers : HandlerInv(r)

-----------------------------------------------------------------------------
(* Calls, headers and credentials *)

\* The headers of a request: no impersonation without credentials.
LEMMA HeaderShape ==
    ASSUME NEW h \in Headers
    PROVE  /\ h.cred \in Credentials
           /\ h.cred.kind \in {"empty", "invalid", "bearer", "basic"}
           /\ h.cred.kind \in {"empty", "invalid"} => h.as = None
           /\ h.as \in Optional(Usernames) \cup {"invalid"}
  BY DEF Headers, Credentials, Optional

LEMMA NoHeadersShape == NoHeaders \in Headers
  BY DEF Headers, NoHeaders, Credentials

\* A call has a user, a namespace and a base URI if its route has one.
LEMMA CallShape ==
    ASSUME NEW k \in Calls
    PROVE  /\ k.op \in Offered
           /\ k.head \in Headers
           /\ k.op = Documentation => k.head = NoHeaders
           /\ k.user \in (IF k.op \in TargetsUser THEN Usernames ELSE {None})
           /\ k.ns \in (IF k.op \in NamespaceRoutes THEN NamespaceIDs ELSE {None})
           /\ k.base \in (IF k.op \in TargetsBase THEN BaseURIs ELSE {None})
  <1>1. PICK op \in Offered :
            k \in [head : IF op = Documentation THEN {NoHeaders} ELSE Headers,
                   op   : {op},
                   user : IF op \in TargetsUser THEN Usernames ELSE {None},
                   ns   : IF op \in NamespaceRoutes THEN NamespaceIDs ELSE {None},
                   base : IF op \in TargetsBase THEN BaseURIs ELSE {None}]
    BY DEF Calls
  <1> QED BY <1>1, NoHeadersShape

\* Every route is served for a caller but the documentation.
LEMMA OpShape ==
    ASSUME NEW k \in Calls
    PROVE  k.op = Documentation \/ k.op \in AllRoutes
  BY CallShape, RequestsAssumption

\* A credential opens accounts of the store, restricted by their keys.
LEMMA OpensShape ==
    ASSUME TypeOK, NEW cred \in Credentials, NEW o \in Opens(cred)
    PROVE  o.username \in Usernames /\ o.limits \in Optional(KeyScopes)
  <1>1. CASE cred.kind = "bearer"
    <2>1. PICK uk \in LookupUserByKey(cred.raw) :
              o = [username |-> uk[1], limits |-> KeyAt(uk[1], uk[2]).scopes]
      BY <1>1 DEF Opens
    <2>2. uk[1] \in Usernames /\ uk[2] \in KeyIDs /\ KeyAt(uk[1], uk[2]) # None
      BY DEF LookupUserByKey
    <2>3. KeyAt(uk[1], uk[2]) \in KeyRecord
      BY <2>2 DEF KeyAt, UserExists, TypeOK, UserRecord, Optional
    <2> QED BY <2>1, <2>2, <2>3 DEF KeyRecord, Optional
  <1>2. CASE cred.kind = "basic"
    <2>1. cred.username \in Usernames
      BY <1>2 DEF Credentials
    <2> QED BY <1>2, <2>1 DEF Opens, Optional
  <1>3. CASE cred.kind \notin {"bearer", "basic"}
    BY <1>3 DEF Opens
  <1> QED BY <1>1, <1>2, <1>3

-----------------------------------------------------------------------------
(* What was seen stays seen *)

Grows(s, t) ==
    /\ s.modes = t.modes
    /\ s.opened \subseteq t.opened
    /\ s.supers \subseteq t.supers
    /\ s.absent \subseteq t.absent
    /\ s.ranks \subseteq t.ranks
    /\ s.granted \subseteq t.granted

LEMMA ActingGrows ==
    ASSUME NEW s, NEW t, NEW k, NEW c, Grows(s, t), Acting(s, k, c)
    PROVE  Acting(t, k, c)
  BY DEF Grows, Acting, Vouched, Impersonator

LEMMA UserAllowedGrows ==
    ASSUME NEW s, NEW t, NEW c, NEW scope, Grows(s, t), UserAllowed(s, c, scope)
    PROVE  UserAllowed(t, c, scope)
  BY DEF Grows, UserAllowed

LEMMA NamespaceAllowedGrows ==
    ASSUME NEW s, NEW t, NEW n, NEW c, NEW scope, Grows(s, t),
           NamespaceAllowed(s, n, c, scope)
    PROVE  NamespaceAllowed(t, n, c, scope)
  <1>1. ASSUME NEW u, Ranked(s, u, scope) PROVE Ranked(t, u, scope)
    BY <1>1 DEF Grows, Ranked
  <1> QED BY <1>1 DEF Grows, NamespaceAllowed

LEMMA RouteDueGrows ==
    ASSUME NEW s, NEW t, NEW k, NEW c, Grows(s, t), RouteDue(s, k, c)
    PROVE  RouteDue(t, k, c)
  BY UserAllowedGrows, NamespaceAllowedGrows DEF RouteDue

LEMMA GrantDueGrows ==
    ASSUME NEW s, NEW t, NEW k, NEW c, Grows(s, t), GrantDue(s, k, c)
    PROVE  GrantDue(t, k, c)
  BY DEF Grows, GrantDue

\* What a step adds to the facts of a request that is being served.
LEMMA FactsAreAdded ==
    ASSUME NEW r \in Handlers, InFlight(r)
    PROVE  /\ Witnessed[r].modes = seen[r].modes \cup {anonymous}
           /\ Witnessed[r].opened = seen[r].opened \cup Opens(call[r].head.cred)
           /\ Witnessed[r].supers = seen[r].supers \cup {u \in Usernames : Superuser(u)}
           /\ Witnessed[r].absent = seen[r].absent \cup {u \in Usernames : ~UserExists(u)}
           /\ Witnessed[r].ranks = seen[r].ranks \cup
                  (IF Where(r) = None THEN {}
                   ELSE {<<u, roles[Where(r)][u]>> : u \in Usernames})
           /\ Witnessed[r].granted = seen[r].granted \cup
                  (IF call[r].base = None THEN {}
                   ELSE {u \in Usernames : MountGrantMatches(u, call[r].base)})
  <1>1. DOMAIN NoFacts = {"modes", "opened", "supers", "absent", "ranks", "granted"}
    BY DEF NoFacts
  <1>2. Witnessed[r] = [f \in DOMAIN NoFacts |-> seen[r][f] \cup Facts(r)[f]]
    BY DEF Witnessed
  <1> QED BY <1>1, <1>2 DEF Facts

LEMMA FactsAreKept ==
    ASSUME NEW r \in Handlers, ~InFlight(r)
    PROVE  Witnessed[r] = seen[r]
  BY DEF Witnessed

\* Once the mode is known, the facts of a request in flight grow.
LEMMA InFlightGrows ==
    ASSUME NEW r \in Handlers, ModeInv(r), pc[r] \in Resolved \cup Loading
    PROVE  /\ InFlight(r)
           /\ seen[r].modes = {anonymous}
           /\ Grows(seen[r], Witnessed[r])
  <1>1. InFlight(r)
    BY DEF InFlight, Resolved, Checked, Loading
  <1>2. seen[r].modes = {anonymous}
    BY <1>1 DEF ModeInv
  <1> QED BY <1>1, <1>2, FactsAreAdded DEF Grows

-----------------------------------------------------------------------------
(* A step that is not of q *)

Rests(q) ==
    /\ pc'[q] = pc[q] /\ call'[q] = call[q] /\ caller'[q] = caller[q]
    /\ place'[q] = place[q] /\ result'[q] = result[q]
    /\ seen'[q] = Witnessed[q]
    /\ InFlight(q) => anonymous' = anonymous

\* What others do takes nothing away from a request.
LEMMA RestKeeps ==
    ASSUME NEW q \in Handlers, HandlerInv(q), Rests(q)
    PROVE  HandlerInv(q)'
  <1> USE DEF Rests, HandlerInv
  <1>1. InFlight(q)' <=> InFlight(q)
    BY DEF InFlight
  <1>2. Succeeded(q)' <=> Succeeded(q)
    BY DEF Succeeded
  <1>3. Where(q)' = Where(q)
    BY DEF Where
  <1>4. pc[q] \in Resolved \cup Loading =>
            InFlight(q) /\ seen[q].modes = {anonymous} /\ Grows(seen[q], seen'[q])
    BY InFlightGrows
  <1>5. pc[q] = "done" => seen'[q] = seen[q]
    BY FactsAreKept DEF InFlight
  <1>6. pc[q] \in Resolved \cup Loading \/ Succeeded(q) =>
            seen'[q] = seen[q] \/ Grows(seen[q], seen'[q])
    BY <1>4, <1>5 DEF Succeeded
  <1>7. ModeInv(q)'
    <2>1. InFlight(q) => seen'[q].modes = seen[q].modes \cup {anonymous}
      BY FactsAreAdded
    <2>2. pc[q] \in Resolved \cup Loading => InFlight(q)
      BY <1>4
    <2> QED BY <1>1, <2>1, <2>2 DEF ModeInv
  <1>8. RouteInv(q)'
    BY <1>1 DEF RouteInv
  <1>9. CallerInv(q)'
    <2>1. pc[q] \in Resolved \/ Succeeded(q) => Acting(seen'[q], call[q], caller[q])
      BY <1>6, ActingGrows DEF CallerInv
    <2>2. pc[q] \in Loading =>
              /\ Vouched(seen'[q], caller[q])
              /\ caller[q].superuser => caller[q].username \in seen'[q].supers
      BY <1>4 DEF CallerInv, Grows, Vouched
    <2> QED BY <1>1, <1>2, <2>1, <2>2 DEF CallerInv
  <1>10. DueInv(q)'
    <2>1. pc[q] \in Checked \/ Succeeded(q) =>
              seen'[q] = seen[q] \/ Grows(seen[q], seen'[q])
      BY <1>6 DEF Resolved
    <2>2. pc[q] \in Checked \/ Succeeded(q) => RouteDue(seen'[q], call[q], caller[q])
      BY <2>1, RouteDueGrows DEF DueInv
    <2>3. pc[q] \in Checked \ {"grant"} \/ Succeeded(q) =>
              GrantDue(seen'[q], call[q], caller[q])
      BY <2>1, GrantDueGrows DEF DueInv
    <2>4. pc[q] = "done" /\ result[q] = "deleted" /\ call[q].op \notin ShowsStored =>
              NamespaceAllowed(seen'[q], Where(q), caller[q], "seeDeletedResource")
      BY <1>5 DEF DueInv
    <2> QED BY <1>2, <1>3, <2>2, <2>3, <2>4 DEF DueInv
  <1>11. CodeInv(q)'
    BY <1>5 DEF CodeInv
  <1> QED BY <1>7, <1>8, <1>9, <1>10, <1>11

-----------------------------------------------------------------------------
(* A step of r that answers *)

Stages ==
    {"idle", "document", "resolve", "load", "impersonate", "check",
     "grant", "act", "reread", "read", "redact", "done"}

ResultCodes == Codes \cup Answered \cup {"nil dereference", "zero PID"}

\* The types of what belongs to the handlers.
LocalTypeOK ==
    /\ pc \in [Handlers -> Stages]
    /\ call \in [Handlers -> Optional(Calls)]
    /\ caller \in [Handlers -> Callers]
    /\ place \in [Handlers -> Optional(NamespaceIDs)]
    /\ result \in [Handlers -> Optional(ResultCodes)]
    /\ anonymous \in BOOLEAN /\ waiting \in BOOLEAN /\ clock \in Times
    /\ received \in 0..MaxRequests /\ events \in 0..MaxEvents

LEMMA TypeParts == RequestsTypeOK <=> TypeOK /\ LocalTypeOK
  BY DEF RequestsTypeOK, LocalTypeOK, Stages, ResultCodes

\* A code the pipeline may answer a request with at its present stage.
Justified(r, code) ==
    \/ code \in CodesOf(Declared, call[r].op) /\ call[r].op \in AllRoutes
    \/ /\ call[r].op \in {"listUserKeys", "issueUserKey"}
       /\ code = "UserNotFound"
       /\ caller[r].username \in Usernames /\ ~UserExists(caller[r].username)
    \/ call[r].op = "createResourceBatch" /\ code = "zero PID"
    \/ code = "nil" /\ pc[r] \in {"document", "act", "reread", "read"}
    \/ code = "redacted" /\ pc[r] = "redact"
    \/ code = "deleted" /\ pc[r] = "act" /\ call[r].op \in ShowsStored
    \/ /\ code = "deleted" /\ pc[r] = "redact"
       /\ NamespaceAllowed(Witnessed[r], Where(r), caller[r], "seeDeletedResource")

LEMMA DeclaredCodes ==
    /\ \A code \in DOMAIN Declared : code \notin Answered
    /\ "UserNotFound" \in Codes
    /\ "zero PID" \notin Answered /\ "UserNotFound" \notin Answered
  BY DEF Declared, Answered, Codes

\* The answer of r is a step of r only.
LEMMA AnswerFrame ==
    ASSUME LocalTypeOK, NEW r \in Handlers, NEW code, Answer(r, code)
    PROVE  /\ pc'[r] = "done" /\ result'[r] = code /\ call'[r] = call[r]
           /\ caller'[r] = caller[r] /\ place'[r] = place[r]
           /\ seen'[r] = Witnessed[r] /\ anonymous' = anonymous
           /\ \A q \in Handlers : q # r => Rests(q)
  BY DEF Answer, Watch, Rests, LocalTypeOK

LEMMA AnswerKeeps ==
    ASSUME LocalTypeOK, NEW r \in Handlers, HandlerInv(r), InFlight(r),
           NEW code, Answer(r, code), Justified(r, code)
    PROVE  HandlerInv(r)'
  <1> USE DEF HandlerInv
  <1>1. /\ pc'[r] = "done" /\ result'[r] = code /\ call'[r] = call[r]
        /\ caller'[r] = caller[r] /\ place'[r] = place[r]
        /\ seen'[r] = Witnessed[r] /\ anonymous' = anonymous
    BY AnswerFrame
  <1>2. ~InFlight(r)' /\ Where(r)' = Where(r)
    BY <1>1 DEF InFlight, Where
  <1>3. pc'[r] \notin Resolved \cup Loading \cup Checked
    BY <1>1 DEF Resolved, Loading, Checked
  <1>4. Succeeded(r)' => code \in Answered
    BY <1>1 DEF Succeeded
  <1>5. code \in Answered =>
            \/ pc[r] = "document"
            \/ pc[r] \in {"act", "reread", "read", "redact"}
    BY DeclaredCodes DEF Justified, CodesOf
  <1>6. ModeInv(r)'
    BY <1>2, <1>3 DEF ModeInv
  <1>7. RouteInv(r)'
    BY <1>1, <1>2 DEF RouteInv, InFlight
  <1>8. code \in Answered => Acting(seen'[r], call[r], caller[r])
    <2>1. CASE pc[r] = "document"
      <3>1. call[r] \in Calls /\ call[r].op = Documentation /\ caller[r] = None
        BY <2>1 DEF RouteInv, CallerInv
      <3>2. call[r].head = NoHeaders
        BY <3>1, CallShape
      <3> QED BY <3>1, <3>2 DEF Acting, NoHeaders
    <2>2. CASE pc[r] \in {"act", "reread", "read", "redact"}
      <3>1. Acting(seen[r], call[r], caller[r])
        BY <2>2 DEF CallerInv, Resolved, Checked
      <3>2. Grows(seen[r], Witnessed[r])
        BY <2>2, InFlightGrows DEF Resolved, Checked
      <3> QED BY <1>1, <3>1, <3>2, ActingGrows
    <2> QED BY <1>5, <2>1, <2>2
  <1>9. CallerInv(r)'
    BY <1>1, <1>2, <1>3, <1>4, <1>8 DEF CallerInv
  <1>10. code \in Answered =>
            /\ RouteDue(seen'[r], call[r], caller[r])
            /\ GrantDue(seen'[r], call[r], caller[r])
    <2>1. CASE pc[r] = "document"
      BY <2>1 DEF RouteInv, RouteDue, GrantDue, GrantRoutes, Documentation
    <2>2. CASE pc[r] \in {"act", "reread", "read", "redact"}
      <3>1. RouteDue(seen[r], call[r], caller[r]) /\ GrantDue(seen[r], call[r], caller[r])
        BY <2>2 DEF DueInv, Checked
      <3>2. Grows(seen[r], Witnessed[r])
        BY <2>2, InFlightGrows DEF Resolved, Checked
      <3> QED BY <1>1, <3>1, <3>2, RouteDueGrows, GrantDueGrows
    <2> QED BY <1>5, <2>1, <2>2
  <1>11. code = "deleted" /\ call[r].op \notin ShowsStored =>
            NamespaceAllowed(seen'[r], Where(r), caller[r], "seeDeletedResource")
    BY <1>1, DeclaredCodes DEF Justified, CodesOf, Answered
  <1>12. DueInv(r)'
    BY <1>1, <1>2, <1>3, <1>4, <1>10, <1>11 DEF DueInv
  <1>13. CodeInv(r)'
    <2>1. seen'[r].absent = seen[r].absent \cup {u \in Usernames : ~UserExists(u)}
      BY <1>1, FactsAreAdded
    <2> QED BY <1>1, <2>1 DEF CodeInv, Justified, Answered
  <1> QED BY <1>6, <1>7, <1>9, <1>12, <1>13

\* The answer has its type.
LEMMA AnswerTypes ==
    ASSUME LocalTypeOK, NEW r \in Handlers, NEW code, Answer(r, code), Justified(r, code)
    PROVE  LocalTypeOK'
  <1>1. code \in ResultCodes
    BY DeclaredCodes DEF Justified, CodesOf, ResultCodes, Codes, Answered
  <1>2. result' \in [Handlers -> Optional(ResultCodes)]
    BY <1>1 DEF Answer, LocalTypeOK, Optional
  <1>3. pc' \in [Handlers -> Stages]
    BY DEF Answer, LocalTypeOK, Stages
  <1> QED BY <1>2, <1>3 DEF Answer, Watch, LocalTypeOK

-----------------------------------------------------------------------------
(* The routes.  A handler that acts ends with a justified code, does to    *)
(* the store what Store allows, and leaves its own account a superuser if  *)
(* it is one.                                                              *)

Ends(r) == \E code : Answer(r, code) /\ Justified(r, code)

Stored == Next \/ UNCHANGED vars

KeepsOwn(r) ==
    \A u \in Usernames :
        caller[r] # None /\ caller[r].username = u /\ Superuser(u) => Superuser(u)'

Finishes(r) == Ends(r) /\ Stored /\ KeepsOwn(r)

LEMMA FailFinishes ==
    ASSUME NEW r, NEW code, Fail(r, code), Justified(r, code)
    PROVE  Finishes(r)
  <1>1. users' = users
    BY DEF Fail, vars
  <1>2. KeepsOwn(r)
    BY <1>1 DEF KeepsOwn, Superuser, UserExists
  <1> QED BY <1>2 DEF Finishes, Ends, Stored, Fail

\* What a handler that acts knows of its request.
LEMMA ActShape ==
    ASSUME RequestsTypeOK, NEW r \in Handlers, HandlerInv(r), NEW op, Acts(r, op)
    PROVE  /\ pc[r] = "act" /\ call[r].op = op /\ op \in AllRoutes
           /\ op \in TargetsUser => call[r].user \in Usernames
           /\ op \in NamespaceRoutes => call[r].ns \in NamespaceIDs
           /\ op \in TargetsBase => call[r].base \in BaseURIs
           /\ caller[r] # None => caller[r] \in CallerRecord
           /\ op \in DereferencesCaller => caller[r] \in CallerRecord
  <1>1. pc[r] = "act" /\ call[r].op = op
    BY DEF Acts
  <1>2. call[r] \in Calls /\ call[r].op \in AllRoutes
    BY <1>1 DEF HandlerInv, RouteInv, InFlight
  <1>3. caller[r] # None => caller[r] \in CallerRecord
    BY DEF RequestsTypeOK, Callers, Optional
  <1>4. op \in DereferencesCaller => caller[r] # None
    BY DEF Acts, NilDereference
  <1> QED BY <1>1, <1>2, <1>3, <1>4, CallShape

LEMMA CreateUserActs ==
    ASSUME RequestsTypeOK, NEW r \in Handlers, HandlerInv(r), CreateUserAct(r)
    PROVE  Finishes(r)
  <1>1. /\ pc[r] = "act" /\ call[r].op = "createUser" /\ call[r].op \in AllRoutes
        /\ call[r].user \in Usernames /\ caller[r] \in CallerRecord
    <2>1. Acts(r, "createUser")
      BY DEF CreateUserAct
    <2> QED BY <2>1, ActShape DEF TargetsUser, DereferencesCaller, AccountRoutes
  <1>2. PICK superuser \in BOOLEAN :
            Perform(r, CreateUserErr(call[r].user), CreateUser(call[r].user, superuser))
    BY DEF CreateUserAct
  <1>3. CASE CreateUserErr(call[r].user) = "nil"
    <2>1. CreateUser(call[r].user, superuser) /\ Answer(r, "nil")
      BY <1>2, <1>3 DEF Perform, Show
    <2>2. Ends(r)
      BY <2>1, <1>1 DEF Ends, Justified
    <2>3. Stored
      BY <2>1, <1>1 DEF Stored, Next, UserStep
    <2>4. KeepsOwn(r)
      BY <2>1, <1>1, <1>3 DEF KeepsOwn, Superuser, UserExists, CreateUser, CreateUserErr,
         RequestsTypeOK, TypeOK
    <2> QED BY <2>2, <2>3, <2>4 DEF Finishes
  <1>4. CASE CreateUserErr(call[r].user) # "nil"
    <2>1. Fail(r, ServiceCode(call[r].op, CreateUserErr(call[r].user)))
      BY <1>2, <1>4 DEF Perform, Show
    <2>2. ServiceCode("createUser", "ErrDuplicateUsername") \in CodesOf(Declared, "createUser")
      BY DEF ServiceCode, Untranslated, CodeOf, CodesOf, Declared
    <2> QED BY <2>1, <2>2, <1>1, <1>4, FailFinishes DEF Justified, CreateUserErr
  <1> QED BY <1>3, <1>4

\* The calls of the Store that change no account and no credentials.
LEMMA AccountsUntouched ==
    ASSUME NEW r, users' = users
    PROVE  KeepsOwn(r)
  BY DEF KeepsOwn, Superuser, UserExists

\* Credentials come and go without the superuser flag.
LEMMA CredentialsKeepFlags ==
    ASSUME TypeOK, NEW u \in Usernames, NEW r,
           \/ \E p \in Optional(Passwords) : SetPassword(u, p)
           \/ \E k \in KeyIDs, raw \in RawKeys, t \in Optional(Times), g \in KeyScopes :
                  CreateKey(u, k, raw, t, g)
           \/ \E k \in KeyIDs : RevokeKey(u, k)
    PROVE  KeepsOwn(r)
  <1>1. /\ users'[u] # None
        /\ \A x \in Usernames \ {u} : users'[x] = users[x]
    BY UserUpdatesKeepUsers
  <1>2. users[u] \in UserRecord
    BY UserRecordFound DEF SetPassword, CreateKey, RevokeKey, CreateKeyErr,
       RevokeKeyErr, UserErr
  <1>3. users'[u].superuser = users[u].superuser
    <2>1. ASSUME NEW p \in Optional(Passwords), SetPassword(u, p)
          PROVE  users'[u].superuser = users[u].superuser
      BY <1>2, <2>1 DEF SetPassword, TypeOK, UserRecord
    <2>2. ASSUME NEW k \in KeyIDs, NEW raw \in RawKeys, NEW t \in Optional(Times),
                 NEW g \in KeyScopes, CreateKey(u, k, raw, t, g)
          PROVE  users'[u].superuser = users[u].superuser
      BY <1>2, <2>2 DEF CreateKey, TypeOK, UserRecord
    <2>3. ASSUME NEW k \in KeyIDs, RevokeKey(u, k)
          PROVE  users'[u].superuser = users[u].superuser
      BY <1>2, <2>3 DEF RevokeKey, TypeOK, UserRecord
    <2> QED BY <2>1, <2>2, <2>3
  <1>4. ASSUME NEW x \in Usernames, Superuser(x)
        PROVE  Superuser(x)'
    <2>1. CASE x = u
      BY <1>1, <1>3, <1>4, <2>1 DEF Superuser, UserExists
    <2>2. CASE x # u
      BY <1>1, <1>4, <2>2 DEF Superuser, UserExists
    <2> QED BY <2>1, <2>2
  <1> QED BY <1>4 DEF KeepsOwn

LEMMA EffectFinishes ==
    ASSUME NEW r, pc[r] = "act", Answer(r, "nil"), Stored, KeepsOwn(r)
    PROVE  Finishes(r)
  BY DEF Finishes, Ends, Justified

LEMMA ShowingFinishes ==
    ASSUME NEW r, pc[r] = "act", call[r].op \in ShowsStored, NEW answer \in {"nil", "deleted"},
           Answer(r, answer), Stored, KeepsOwn(r)
    PROVE  Finishes(r)
  BY DEF Finishes, Ends, Justified

LEMMA RefusalFinishes ==
    ASSUME NEW r, NEW code, call[r].op \in AllRoutes, Fail(r, code),
           code \in CodesOf(Declared, call[r].op)
    PROVE  Finishes(r)
  BY FailFinishes DEF Justified

Declares(op, err) == ServiceCode(op, err) \in CodesOf(Declared, op)

LEMMA ServiceRefusal ==
    ASSUME NEW r, NEW err, call[r].op \in AllRoutes, Declares(call[r].op, err),
           Fail(r, ServiceCode(call[r].op, err))
    PROVE  Finishes(r)
  BY RefusalFinishes DEF Declares

\* The errors of the Store a service can meet are declared by its route, once
\* the service has translated them.
LEMMA ServiceCodesDeclared ==
    /\ Declares("createUser", "ErrDuplicateUsername")
    /\ Declares("deleteUser", "ErrUserNotFound")
    /\ Declares("updateUser", "ErrUserNotFound")
    /\ Declares("setUserPassword", "ErrUserNotFound")
    /\ \A err \in {"ErrUserNotFound", "ErrKeyNotFound"} : Declares("revokeUserKey", err)
    /\ Declares("issueUserKey", "ErrKeyCollision")
    /\ \A err \in {"ErrUserNotFound", "ErrDuplicateNamespaceID"} :
           Declares("createNamespace", err)
    /\ Declares("updateNamespace", "ErrNamespaceNotFound")
    /\ Declares("setNamespaceRole", "ErrNamespaceNotFound")
    /\ \A err \in {"ErrNamespaceNotFound", "ErrRoleNotFound"} :
           Declares("removeNamespaceRole", err)
    /\ Declares("upsertNamespaceMount", "ErrNamespaceNotFound")
    /\ Declares("deleteNamespaceMount", "ErrMountNotFound")
    /\ Declares("setMountGrant", "ErrUserNotFound")
    /\ \A err \in {"ErrUserNotFound", "ErrMountGrantNotFound"} :
           Declares("deleteMountGrant", err)
    /\ \A err \in {"ErrNamespaceNotFound", "ErrPIDAllocationFailed"} :
           Declares("createResource", err)
    /\ \A err \in {"ErrNamespaceNotFound", "ErrPIDAllocationFailed"} :
           Declares("createResourceBatch", err)
    /\ \A err \in {"ErrNamespaceNotFound", "ErrResourceNotFound"} :
           Declares("updateResource", err)
    /\ \A err \in {"ErrNamespaceNotFound", "ErrResourceNotFound"} :
           Declares("getResource", err)
    /\ \A err \in {"ErrNamespaceNotFound", "ErrResourceNotFound"} :
           Declares("resolveResourceByMountAndPID", err)
    /\ Declares("resolveMountByBaseUri", "ErrMountNotFound")
  <1> USE DEF Declares, ServiceCode, Untranslated, CodeOf, CodesOf, Declared,
          NamespaceRoutes, AllRoutes, AccountRoutes, ResolverRoutes
  <1>1. Declares("createUser", "ErrDuplicateUsername")
    OBVIOUS
  <1>2. Declares("deleteUser", "ErrUserNotFound")
    OBVIOUS
  <1>3. Declares("updateUser", "ErrUserNotFound")
    OBVIOUS
  <1>4. Declares("setUserPassword", "ErrUserNotFound")
    OBVIOUS
  <1>5. \A err \in {"ErrUserNotFound", "ErrKeyNotFound"} : Declares("revokeUserKey", err)
    OBVIOUS
  <1>6. Declares("issueUserKey", "ErrKeyCollision")
    OBVIOUS
  <1>7. \A err \in {"ErrUserNotFound", "ErrDuplicateNamespaceID"} :
           Declares("createNamespace", err)
    OBVIOUS
  <1>8. Declares("updateNamespace", "ErrNamespaceNotFound")
    OBVIOUS
  <1>9. Declares("setNamespaceRole", "ErrNamespaceNotFound")
    OBVIOUS
  <1>10. \A err \in {"ErrNamespaceNotFound", "ErrRoleNotFound"} :
            Declares("removeNamespaceRole", err)
    OBVIOUS
  <1>11. Declares("upsertNamespaceMount", "ErrNamespaceNotFound")
    OBVIOUS
  <1>12. Declares("deleteNamespaceMount", "ErrMountNotFound")
    OBVIOUS
  <1>13. Declares("setMountGrant", "ErrUserNotFound")
    OBVIOUS
  <1>14. \A err \in {"ErrUserNotFound", "ErrMountGrantNotFound"} :
            Declares("deleteMountGrant", err)
    OBVIOUS
  <1>15. \A err \in {"ErrNamespaceNotFound", "ErrPIDAllocationFailed"} :
            Declares("createResource", err)
    OBVIOUS
  <1>16. \A err \in {"ErrNamespaceNotFound", "ErrPIDAllocationFailed"} :
            Declares("createResourceBatch", err)
    OBVIOUS
  <1>17. \A err \in {"ErrNamespaceNotFound", "ErrResourceNotFound"} :
            Declares("updateResource", err)
    OBVIOUS
  <1>18. \A err \in {"ErrNamespaceNotFound", "ErrResourceNotFound"} :
            Declares("getResource", err)
    OBVIOUS
  <1>19. \A err \in {"ErrNamespaceNotFound", "ErrResourceNotFound"} :
            Declares("resolveResourceByMountAndPID", err)
    OBVIOUS
  <1>20. Declares("resolveMountByBaseUri", "ErrMountNotFound")
    OBVIOUS
  <1> HIDE DEF Declares
  <1> QED BY <1>1, <1>2, <1>3, <1>4, <1>5, <1>6, <1>7, <1>8, <1>9, <1>10,
       <1>11, <1>12, <1>13, <1>14, <1>15, <1>16, <1>17, <1>18, <1>19, <1>20

LEMMA DeleteUserActs ==
    ASSUME RequestsTypeOK, NEW r \in Handlers, HandlerInv(r), DeleteUserAct(r)
    PROVE  Finishes(r)
  <1>1. /\ pc[r] = "act" /\ call[r].op = "deleteUser" /\ call[r].op \in AllRoutes
        /\ call[r].user \in Usernames
        /\ caller[r] \in CallerRecord
    <2>1. Acts(r, "deleteUser")
      BY DEF DeleteUserAct
    <2> QED BY <2>1, ActShape DEF TargetsUser, DereferencesCaller, AccountRoutes
  <1> SUFFICES ASSUME ~OwnAccount(r) PROVE Finishes(r)
    <2>1. "Forbidden" \in CodesOf(Declared, "deleteUser")
      BY DEF CodesOf, Declared, AllRoutes, AccountRoutes
    <2> QED BY <1>1, <2>1, RefusalFinishes DEF DeleteUserAct
  <1>2. Perform(r, UserErr(call[r].user), DeleteUser(call[r].user))
    BY DEF DeleteUserAct
  <1>3. ASSUME DeleteUser(call[r].user), Answer(r, "nil")
        PROVE  Finishes(r)
    <2>1. Stored
      BY <1>1, <1>3 DEF Stored, Next, UserStep
    <2>2. KeepsOwn(r)
      BY <1>1, <1>3 DEF KeepsOwn, Superuser, UserExists, DeleteUser, OwnAccount,
         RequestsTypeOK, TypeOK
    <2> QED BY <1>1, <1>3, <2>1, <2>2, EffectFinishes
  <1>4. ASSUME UserErr(call[r].user) # "nil",
               Fail(r, ServiceCode(call[r].op, UserErr(call[r].user)))
        PROVE  Finishes(r)
    BY <1>1, <1>4, ServiceCodesDeclared, ServiceRefusal DEF UserErr
  <1> QED BY <1>2, <1>3, <1>4 DEF Perform, Show

LEMMA UpdateUserActs ==
    ASSUME RequestsTypeOK, NEW r \in Handlers, HandlerInv(r), UpdateUserAct(r)
    PROVE  Finishes(r)
  <1>1. /\ pc[r] = "act" /\ call[r].op = "updateUser" /\ call[r].op \in AllRoutes
        /\ call[r].user \in Usernames
        /\ caller[r] \in CallerRecord
    <2>1. Acts(r, "updateUser")
      BY DEF UpdateUserAct
    <2> QED BY <2>1, ActShape DEF TargetsUser, DereferencesCaller, AccountRoutes
  <1> SUFFICES ASSUME ~OwnAccount(r) PROVE Finishes(r)
    <2>1. "Forbidden" \in CodesOf(Declared, "updateUser")
      BY DEF CodesOf, Declared, AllRoutes, AccountRoutes
    <2> QED BY <1>1, <2>1, RefusalFinishes DEF UpdateUserAct
  <1>2. PICK superuser \in Optional(BOOLEAN) :
            Perform(r, UserErr(call[r].user),
                    UpdateUser(call[r].user, superuser))
    BY DEF UpdateUserAct
  <1>3. ASSUME UpdateUser(call[r].user, superuser), Answer(r, "nil")
        PROVE  Finishes(r)
    <2>1. Stored
      BY <1>1, <1>3 DEF Stored, Next, UserStep
    <2>2. KeepsOwn(r)
      BY <1>1, <1>3 DEF KeepsOwn, Superuser, UserExists, UpdateUser, OwnAccount,
         RequestsTypeOK, TypeOK
    <2> QED BY <1>1, <1>3, <2>1, <2>2, EffectFinishes
  <1>4. ASSUME UserErr(call[r].user) # "nil",
               Fail(r, ServiceCode(call[r].op, UserErr(call[r].user)))
        PROVE  Finishes(r)
    BY <1>1, <1>4, ServiceCodesDeclared, ServiceRefusal DEF UserErr
  <1> QED BY <1>2, <1>3, <1>4 DEF Perform, Show

LEMMA SetUserPasswordActs ==
    ASSUME RequestsTypeOK, NEW r \in Handlers, HandlerInv(r), SetUserPasswordAct(r)
    PROVE  Finishes(r)
  <1>1. /\ pc[r] = "act" /\ call[r].op = "setUserPassword" /\ call[r].op \in AllRoutes
        /\ caller[r] \in CallerRecord /\ caller[r].username \in Usernames
    <2>1. Acts(r, "setUserPassword")
      BY DEF SetUserPasswordAct
    <2> QED BY <2>1, ActShape DEF TargetsUser, DereferencesCaller, AccountRoutes, CallerRecord
  <1>2. PICK password \in Optional(Passwords) :
            Perform(r, UserErr(caller[r].username),
                    SetPassword(caller[r].username, password))
    BY DEF SetUserPasswordAct
  <1>3. ASSUME SetPassword(caller[r].username, password), Answer(r, "nil")
        PROVE  Finishes(r)
    <2>1. Stored
      BY <1>1, <1>3 DEF Stored, Next, UserStep
    <2>2. KeepsOwn(r)
      BY <1>1, <1>3, CredentialsKeepFlags DEF RequestsTypeOK
    <2> QED BY <1>1, <1>3, <2>1, <2>2, EffectFinishes
  <1>4. ASSUME UserErr(caller[r].username) # "nil",
               Fail(r, ServiceCode(call[r].op, UserErr(caller[r].username)))
        PROVE  Finishes(r)
    BY <1>1, <1>4, ServiceCodesDeclared, ServiceRefusal DEF UserErr
  <1> QED BY <1>2, <1>3, <1>4 DEF Perform, Show

LEMMA RevokeKeyActs ==
    ASSUME RequestsTypeOK, NEW r \in Handlers, HandlerInv(r), RevokeKeyAct(r)
    PROVE  Finishes(r)
  <1>1. /\ pc[r] = "act" /\ call[r].op = "revokeUserKey" /\ call[r].op \in AllRoutes
        /\ caller[r] \in CallerRecord /\ caller[r].username \in Usernames
    <2>1. Acts(r, "revokeUserKey")
      BY DEF RevokeKeyAct
    <2> QED BY <2>1, ActShape DEF TargetsUser, DereferencesCaller, AccountRoutes, CallerRecord
  <1>2. PICK k \in KeyIDs :
            Perform(r, RevokeKeyErr(caller[r].username, k),
                    RevokeKey(caller[r].username, k))
    BY DEF RevokeKeyAct
  <1>3. ASSUME RevokeKey(caller[r].username, k), Answer(r, "nil")
        PROVE  Finishes(r)
    <2>1. Stored
      BY <1>1, <1>3 DEF Stored, Next, KeyStep
    <2>2. KeepsOwn(r)
      BY <1>1, <1>3, CredentialsKeepFlags DEF RequestsTypeOK
    <2> QED BY <1>1, <1>3, <2>1, <2>2, EffectFinishes
  <1>4. ASSUME RevokeKeyErr(caller[r].username, k) # "nil",
               Fail(r, ServiceCode(call[r].op, RevokeKeyErr(caller[r].username, k)))
        PROVE  Finishes(r)
    BY <1>1, <1>4, ServiceCodesDeclared, ServiceRefusal DEF RevokeKeyErr
  <1> QED BY <1>2, <1>3, <1>4 DEF Perform, Show

\* The account of the caller may be gone when its key is issued.
LEMMA IssueKeyActs ==
    ASSUME RequestsTypeOK, NEW r \in Handlers, HandlerInv(r), IssueKeyAct(r)
    PROVE  Finishes(r)
  <1>1. /\ pc[r] = "act" /\ call[r].op = "issueUserKey" /\ call[r].op \in AllRoutes
        /\ caller[r] \in CallerRecord /\ caller[r].username \in Usernames
    <2>1. Acts(r, "issueUserKey")
      BY DEF IssueKeyAct
    <2> QED BY <2>1, ActShape DEF DereferencesCaller, AccountRoutes, CallerRecord
  <1>2. /\ "InvalidQueryParameter" \in CodesOf(Declared, "issueUserKey")
        /\ "NamespaceNotFound" \in CodesOf(Declared, "issueUserKey")
    BY DEF CodesOf, Declared
  <1>3. PICK scopes \in KeyScopes, expiresAt \in Optional(Times) :
            \/ Fail(r, "InvalidQueryParameter")
            \/ Fail(r, "NamespaceNotFound")
            \/ \E k \in KeyIDs, raw \in RawKeys :
                   Perform(r, CreateKeyErr(caller[r].username, k, raw),
                           CreateKey(caller[r].username, k, raw, expiresAt, scopes))
    BY DEF IssueKeyAct
  <1>4. ASSUME NEW k \in KeyIDs, NEW raw \in RawKeys,
               Perform(r, CreateKeyErr(caller[r].username, k, raw),
                       CreateKey(caller[r].username, k, raw, expiresAt, scopes))
        PROVE  Finishes(r)
    <2>1. ASSUME CreateKey(caller[r].username, k, raw, expiresAt, scopes), Answer(r, "nil")
          PROVE  Finishes(r)
      <3>1. Stored
        BY <1>1, <2>1 DEF Stored, Next, KeyStep
      <3>2. KeepsOwn(r)
        BY <1>1, <2>1, CredentialsKeepFlags DEF RequestsTypeOK
      <3> QED BY <1>1, <2>1, <3>1, <3>2, EffectFinishes
    <2>2. ASSUME NEW err, err = CreateKeyErr(caller[r].username, k, raw), err # "nil",
                 Fail(r, ServiceCode(call[r].op, err))
          PROVE  Finishes(r)
      <3>1. CASE err = "ErrKeyCollision"
        BY <1>1, <2>2, <3>1, ServiceCodesDeclared, ServiceRefusal
      <3>2. CASE err = "ErrUserNotFound" /\ ~UserExists(caller[r].username)
        <4>1. ServiceCode("issueUserKey", "ErrUserNotFound") = "UserNotFound"
          BY DEF ServiceCode, Untranslated, CodeOf
        <4> QED BY <1>1, <2>2, <3>2, <4>1, FailFinishes DEF Justified
      <3> QED BY <2>2, <3>1, <3>2 DEF CreateKeyErr
    <2> QED BY <1>4, <2>1, <2>2 DEF Perform, Show
  <1> QED BY <1>1, <1>2, <1>3, <1>4, RefusalFinishes

\* A namespace is created for the caller, or for nobody in anonymous mode.
LEMMA CreateNamespaceActs ==
    ASSUME RequestsTypeOK, NEW r \in Handlers, HandlerInv(r), CreateNamespaceAct(r)
    PROVE  Finishes(r)
  <1> DEFINE owner == IF caller[r] = None THEN None ELSE caller[r].username
  <1>1. /\ pc[r] = "act" /\ call[r].op = "createNamespace" /\ call[r].op \in AllRoutes
        /\ caller[r] # None => caller[r] \in CallerRecord
    <2>1. Acts(r, "createNamespace")
      BY DEF CreateNamespaceAct
    <2> QED BY <2>1, ActShape
  <1>2. owner \in Optional(Usernames) /\ clock \in Times
    BY <1>1 DEF CallerRecord, Optional, RequestsTypeOK
  <1>3. PICK n \in NamespaceIDs, format \in Formats, tags \in Contents :
            Perform(r, CreateNamespaceErr(n, owner),
                    CreateNamespace(n, owner, format, tags, clock))
    BY DEF CreateNamespaceAct
  <1> HIDE DEF owner
  <1>4. ASSUME CreateNamespace(n, owner, format, tags, clock), Answer(r, "nil")
        PROVE  Finishes(r)
    <2>1. Stored
      BY <1>2, <1>4 DEF Stored, Next, NamespaceStep
    <2>2. KeepsOwn(r)
      BY <1>4, AccountsUntouched DEF CreateNamespace
    <2> QED BY <1>1, <1>4, <2>1, <2>2, EffectFinishes
  <1>5. ASSUME CreateNamespaceErr(n, owner) # "nil",
               Fail(r, ServiceCode(call[r].op, CreateNamespaceErr(n, owner)))
        PROVE  Finishes(r)
    BY <1>1, <1>5, ServiceCodesDeclared, ServiceRefusal DEF CreateNamespaceErr
  <1> QED BY <1>3, <1>4, <1>5 DEF Perform, Show

LEMMA UpdateNamespaceActs ==
    ASSUME RequestsTypeOK, NEW r \in Handlers, HandlerInv(r), UpdateNamespaceAct(r)
    PROVE  Finishes(r)
  <1>1. /\ pc[r] = "act" /\ call[r].op = "updateNamespace" /\ call[r].op \in AllRoutes
        /\ call[r].ns \in NamespaceIDs
        /\ clock \in Times
    <2>1. Acts(r, "updateNamespace")
      BY DEF UpdateNamespaceAct
    <2> QED BY <2>1, ActShape DEF NamespaceRoutes, RequestsTypeOK
  <1>2. PICK tags \in Optional(Contents) :
            Perform(r, NamespaceErr(call[r].ns),
                    UpdateNamespace(call[r].ns, tags, clock))
    BY DEF UpdateNamespaceAct
  <1>3. ASSUME UpdateNamespace(call[r].ns, tags, clock), Answer(r, "nil")
        PROVE  Finishes(r)
    <2>1. Stored
      BY <1>1, <1>3 DEF Stored, Next, NamespaceStep
    <2>2. KeepsOwn(r)
      BY <1>3, AccountsUntouched DEF UpdateNamespace
    <2> QED BY <1>1, <1>3, <2>1, <2>2, EffectFinishes
  <1>4. ASSUME NamespaceErr(call[r].ns) # "nil",
               Fail(r, ServiceCode(call[r].op, NamespaceErr(call[r].ns)))
        PROVE  Finishes(r)
    BY <1>1, <1>4, ServiceCodesDeclared, ServiceRefusal DEF NamespaceErr
  <1> QED BY <1>2, <1>3, <1>4 DEF Perform, Show

LEMMA RemoveNamespaceRoleActs ==
    ASSUME RequestsTypeOK, NEW r \in Handlers, HandlerInv(r), RemoveNamespaceRoleAct(r)
    PROVE  Finishes(r)
  <1> DEFINE n == call[r].ns
             u == call[r].user
             err == IF NamespaceExists(n) THEN DeleteNamespaceRoleErr(n, u)
                    ELSE "ErrNamespaceNotFound"
  <1>1. /\ pc[r] = "act" /\ call[r].op = "removeNamespaceRole" /\ call[r].op \in AllRoutes
        /\ u \in Usernames /\ n \in NamespaceIDs
    <2>1. Acts(r, "removeNamespaceRole")
      BY DEF RemoveNamespaceRoleAct
    <2> QED BY <2>1, ActShape DEF TargetsUser, SelfScope, NamespaceRoutes
  <1>2. Perform(r, err, DeleteNamespaceRole(n, u))
    BY DEF RemoveNamespaceRoleAct
  <1>3. err \in {"nil", "ErrNamespaceNotFound", "ErrRoleNotFound"}
    BY DEF DeleteNamespaceRoleErr
  <1> HIDE DEF n, u, err
  <1>4. ASSUME DeleteNamespaceRole(n, u), Answer(r, "nil")
        PROVE  Finishes(r)
    <2>1. Stored
      BY <1>1, <1>4 DEF Stored, Next, NamespaceStep
    <2>2. KeepsOwn(r)
      BY <1>4, AccountsUntouched DEF DeleteNamespaceRole
    <2> QED BY <1>1, <1>4, <2>1, <2>2, EffectFinishes
  <1>5. ASSUME err # "nil", Fail(r, ServiceCode(call[r].op, err))
        PROVE  Finishes(r)
    BY <1>1, <1>3, <1>5, ServiceCodesDeclared, ServiceRefusal
  <1> QED BY <1>2, <1>4, <1>5 DEF Perform, Show

LEMMA SetMountActs ==
    ASSUME RequestsTypeOK, NEW r \in Handlers, HandlerInv(r), SetMountAct(r)
    PROVE  Finishes(r)
  <1>1. /\ pc[r] = "act" /\ call[r].op = "upsertNamespaceMount" /\ call[r].op \in AllRoutes
        /\ call[r].base \in BaseURIs
    <2>1. Acts(r, "upsertNamespaceMount")
      BY DEF SetMountAct
    <2> QED BY <2>1, ActShape DEF TargetsBase, GrantRoutes
  <1>2. PICK n \in NamespaceIDs :
            Perform(r, NamespaceErr(n),
                    SetMount(call[r].base, n))
    BY DEF SetMountAct
  <1>3. ASSUME SetMount(call[r].base, n), Answer(r, "nil")
        PROVE  Finishes(r)
    <2>1. Stored
      BY <1>1, <1>3 DEF Stored, Next, NamespaceStep
    <2>2. KeepsOwn(r)
      BY <1>3, AccountsUntouched DEF SetMount
    <2> QED BY <1>1, <1>3, <2>1, <2>2, EffectFinishes
  <1>4. ASSUME NamespaceErr(n) # "nil",
               Fail(r, ServiceCode(call[r].op, NamespaceErr(n)))
        PROVE  Finishes(r)
    BY <1>1, <1>4, ServiceCodesDeclared, ServiceRefusal DEF NamespaceErr
  <1> QED BY <1>2, <1>3, <1>4 DEF Perform, Show

LEMMA DeleteMountActs ==
    ASSUME RequestsTypeOK, NEW r \in Handlers, HandlerInv(r), DeleteMountAct(r)
    PROVE  Finishes(r)
  <1>1. /\ pc[r] = "act" /\ call[r].op = "deleteNamespaceMount" /\ call[r].op \in AllRoutes
        /\ call[r].base \in BaseURIs
    <2>1. Acts(r, "deleteNamespaceMount")
      BY DEF DeleteMountAct
    <2> QED BY <2>1, ActShape DEF TargetsBase, GrantRoutes
  <1>2. Perform(r, MountErr(call[r].base), DeleteMount(call[r].base))
    BY DEF DeleteMountAct
  <1>3. ASSUME DeleteMount(call[r].base), Answer(r, "nil")
        PROVE  Finishes(r)
    \* The mount leads to a namespace, so there is one.
    <2>1. mounts[call[r].base] \in NamespaceIDs
      BY <1>1, <1>3 DEF DeleteMount, MountErr, RequestsTypeOK, TypeOK, Optional
    <2>2. Stored
      BY <1>1, <1>3, <2>1 DEF Stored, Next, NamespaceStep
    <2>3. KeepsOwn(r)
      BY <1>3, AccountsUntouched DEF DeleteMount
    <2> QED BY <1>1, <1>3, <2>2, <2>3, EffectFinishes
  <1>4. ASSUME MountErr(call[r].base) # "nil",
               Fail(r, ServiceCode(call[r].op, MountErr(call[r].base)))
        PROVE  Finishes(r)
    BY <1>1, <1>4, ServiceCodesDeclared, ServiceRefusal DEF MountErr
  <1> QED BY <1>2, <1>3, <1>4 DEF Perform, Show

LEMMA SetMountGrantActs ==
    ASSUME RequestsTypeOK, NEW r \in Handlers, HandlerInv(r), SetMountGrantAct(r)
    PROVE  Finishes(r)
  <1>1. /\ pc[r] = "act" /\ call[r].op = "setMountGrant" /\ call[r].op \in AllRoutes
        /\ call[r].user \in Usernames
    <2>1. Acts(r, "setMountGrant")
      BY DEF SetMountGrantAct
    <2> QED BY <2>1, ActShape DEF TargetsUser
  <1>2. PICK pattern \in Patterns :
            Perform(r, UserErr(call[r].user),
                    SetMountGrant(call[r].user, pattern))
    BY DEF SetMountGrantAct
  <1>3. ASSUME SetMountGrant(call[r].user, pattern), Answer(r, "nil")
        PROVE  Finishes(r)
    <2>1. Stored
      BY <1>1, <1>3 DEF Stored, Next, UserStep
    <2>2. KeepsOwn(r)
      BY <1>3, AccountsUntouched DEF SetMountGrant
    <2> QED BY <1>1, <1>3, <2>1, <2>2, EffectFinishes
  <1>4. ASSUME UserErr(call[r].user) # "nil",
               Fail(r, ServiceCode(call[r].op, UserErr(call[r].user)))
        PROVE  Finishes(r)
    BY <1>1, <1>4, ServiceCodesDeclared, ServiceRefusal DEF UserErr
  <1> QED BY <1>2, <1>3, <1>4 DEF Perform, Show

LEMMA DeleteMountGrantActs ==
    ASSUME RequestsTypeOK, NEW r \in Handlers, HandlerInv(r), DeleteMountGrantAct(r)
    PROVE  Finishes(r)
  <1>1. /\ pc[r] = "act" /\ call[r].op = "deleteMountGrant" /\ call[r].op \in AllRoutes
        /\ call[r].user \in Usernames
    <2>1. Acts(r, "deleteMountGrant")
      BY DEF DeleteMountGrantAct
    <2> QED BY <2>1, ActShape DEF TargetsUser
  <1>2. PICK pattern \in Patterns :
            Perform(r, DeleteMountGrantErr(call[r].user, pattern),
                    DeleteMountGrant(call[r].user, pattern))
    BY DEF DeleteMountGrantAct
  <1>3. ASSUME DeleteMountGrant(call[r].user, pattern), Answer(r, "nil")
        PROVE  Finishes(r)
    <2>1. Stored
      BY <1>1, <1>3 DEF Stored, Next, UserStep
    <2>2. KeepsOwn(r)
      BY <1>3, AccountsUntouched DEF DeleteMountGrant
    <2> QED BY <1>1, <1>3, <2>1, <2>2, EffectFinishes
  <1>4. ASSUME DeleteMountGrantErr(call[r].user, pattern) # "nil",
               Fail(r, ServiceCode(call[r].op, DeleteMountGrantErr(call[r].user, pattern)))
        PROVE  Finishes(r)
    BY <1>1, <1>4, ServiceCodesDeclared, ServiceRefusal DEF DeleteMountGrantErr
  <1> QED BY <1>2, <1>3, <1>4 DEF Perform, Show

LEMMA UpdateResourceActs ==
    ASSUME RequestsTypeOK, NEW r \in Handlers, HandlerInv(r), UpdateResourceAct(r)
    PROVE  Finishes(r)
  <1>1. /\ pc[r] = "act" /\ call[r].op = "updateResource" /\ call[r].op \in AllRoutes
        /\ call[r].ns \in NamespaceIDs
        /\ clock \in Times
    <2>1. Acts(r, "updateResource")
      BY DEF UpdateResourceAct
    <2> QED BY <2>1, ActShape DEF NamespaceRoutes, RequestsTypeOK
  <1>2. PICK p \in PIDs, content \in Optional(Contents), deleted \in Optional(BOOLEAN) :
            \E answer \in {"nil", "deleted"} :
                Show(r, ResourceErr(call[r].ns, p),
                     UpdateResource(call[r].ns, p, content, deleted, clock), answer)
    BY DEF UpdateResourceAct, InFull
  <1>3. ASSUME NEW answer \in {"nil", "deleted"}, Answer(r, answer),
               UpdateResource(call[r].ns, p, content, deleted, clock)
        PROVE  Finishes(r)
    <2>1. Stored
      BY <1>1, <1>3 DEF Stored, Next, ResourceStep
    <2>2. KeepsOwn(r)
      BY <1>3, AccountsUntouched DEF UpdateResource
    <2> QED BY <1>1, <1>3, <2>1, <2>2, ShowingFinishes DEF ShowsStored
  <1>4. ASSUME ResourceErr(call[r].ns, p) # "nil",
               Fail(r, ServiceCode(call[r].op, ResourceErr(call[r].ns, p)))
        PROVE  Finishes(r)
    BY <1>1, <1>4, ServiceCodesDeclared, ServiceRefusal DEF ResourceErr
  <1> QED BY <1>2, <1>3, <1>4 DEF Show

LEMMA CreateResourceActs ==
    ASSUME RequestsTypeOK, NEW r \in Handlers, HandlerInv(r), CreateResourceAct(r)
    PROVE  Finishes(r)
  <1>1. /\ pc[r] = "act" /\ call[r].op = "createResource" /\ call[r].op \in AllRoutes
        /\ call[r].ns \in NamespaceIDs /\ clock \in Times
    <2>1. Acts(r, "createResource")
      BY DEF CreateResourceAct
    <2> QED BY <2>1, ActShape DEF NamespaceRoutes, RequestsTypeOK
  <1>2. "BadIDGeneration" \in CodesOf(Declared, "createResource")
    BY DEF CodesOf, Declared
  <1>3. PICK p \in PIDs, content \in Contents :
            \/ Fail(r, "BadIDGeneration")
            \/ Perform(r, CreateResourceErr(call[r].ns, p),
                       CreateResource(call[r].ns, p, content, clock))
    BY DEF CreateResourceAct
  <1>4. ASSUME CreateResource(call[r].ns, p, content, clock), Answer(r, "nil")
        PROVE  Finishes(r)
    <2>1. Stored
      BY <1>1, <1>4 DEF Stored, Next, ResourceStep
    <2>2. KeepsOwn(r)
      BY <1>4, AccountsUntouched DEF CreateResource
    <2> QED BY <1>1, <1>4, <2>1, <2>2, EffectFinishes
  <1>5. ASSUME CreateResourceErr(call[r].ns, p) # "nil",
               Fail(r, ServiceCode(call[r].op, CreateResourceErr(call[r].ns, p)))
        PROVE  Finishes(r)
    BY <1>1, <1>5, ServiceCodesDeclared, ServiceRefusal DEF CreateResourceErr
  <1> QED BY <1>1, <1>2, <1>3, <1>4, <1>5, RefusalFinishes DEF Perform, Show

LEMMA CreateResourceBatchActs ==
    ASSUME RequestsTypeOK, NEW r \in Handlers, HandlerInv(r), CreateResourceBatchAct(r)
    PROVE  Finishes(r)
  <1>1. /\ pc[r] = "act" /\ call[r].op = "createResourceBatch" /\ call[r].op \in AllRoutes
        /\ call[r].ns \in NamespaceIDs /\ clock \in Times
    <2>1. Acts(r, "createResourceBatch")
      BY DEF CreateResourceBatchAct
    <2> QED BY <2>1, ActShape DEF NamespaceRoutes, RequestsTypeOK
  <1>2. "BadIDGeneration" \in CodesOf(Declared, "createResourceBatch")
    BY DEF CodesOf, Declared
  <1>3. PICK pids \in Batches : \E contents \in [DOMAIN pids -> Contents] :
            \/ Fail(r, "zero PID")
            \/ Fail(r, "BadIDGeneration")
            \/ Perform(r, BatchCreateResourcesErr(call[r].ns, pids),
                       BatchCreateResources(call[r].ns, pids, contents, clock))
    BY DEF CreateResourceBatchAct
  <1>4. ASSUME NEW contents \in [DOMAIN pids -> Contents],
               BatchCreateResources(call[r].ns, pids, contents, clock), Answer(r, "nil")
        PROVE  Finishes(r)
    <2>1. Stored
      BY <1>1, <1>4 DEF Stored, Next, ResourceStep
    <2>2. KeepsOwn(r)
      BY <1>4, AccountsUntouched DEF BatchCreateResources
    <2> QED BY <1>1, <1>4, <2>1, <2>2, EffectFinishes
  <1>5. ASSUME BatchCreateResourcesErr(call[r].ns, pids) # "nil",
               Fail(r, ServiceCode(call[r].op, BatchCreateResourcesErr(call[r].ns, pids)))
        PROVE  Finishes(r)
    <2>1. BatchCreateResourcesErr(call[r].ns, pids) \in
              {"ErrNamespaceNotFound", "ErrPIDAllocationFailed"}
      BY <1>5 DEF BatchCreateResourcesErr
    <2> QED BY <1>1, <1>5, <2>1, ServiceCodesDeclared, ServiceRefusal
  <1>6. Fail(r, "zero PID") => Finishes(r)
    BY <1>1, FailFinishes DEF Justified
  <1> QED BY <1>1, <1>2, <1>3, <1>4, <1>5, <1>6, RefusalFinishes DEF Perform, Show

-----------------------------------------------------------------------------
(* Steps of r that go on *)

\* What a step of r establishes.
StepOK(r) ==
    /\ HandlerInv(r)'
    /\ LocalTypeOK'
    /\ \A q \in Handlers : q # r => Rests(q)
    /\ Stored
    /\ pc'[r] = "done" => KeepsOwn(r)

LEMMA FinishesOK ==
    ASSUME RequestsTypeOK, NEW r \in Handlers, HandlerInv(r), InFlight(r), Finishes(r)
    PROVE  StepOK(r)
  <1>1. PICK code : Answer(r, code) /\ Justified(r, code)
    BY DEF Finishes, Ends
  <1>2. LocalTypeOK
    BY TypeParts
  <1>3. HandlerInv(r)'
    BY <1>1, <1>2, AnswerKeeps
  <1>4. LocalTypeOK'
    BY <1>1, <1>2, AnswerTypes
  <1>5. \A q \in Handlers : q # r => Rests(q)
    BY <1>1, <1>2, AnswerFrame
  <1> QED BY <1>3, <1>4, <1>5 DEF StepOK, Finishes

\* r goes to another stage, perhaps with another caller.
Moved(r, step, c) ==
    /\ pc'[r] = step /\ call'[r] = call[r] /\ caller'[r] = c
    /\ place'[r] = place[r] /\ result'[r] = result[r]
    /\ seen'[r] = Witnessed[r] /\ anonymous' = anonymous
    /\ LocalTypeOK'
    /\ \A q \in Handlers : q # r => Rests(q)
    /\ Stored

LEMMA GotoMoves ==
    ASSUME LocalTypeOK, NEW r \in Handlers, NEW step \in Stages, NEW c \in Callers,
           Goto(r, step), caller' = [caller EXCEPT ![r] = c]
    PROVE  Moved(r, step, c)
  <1>1. /\ pc'[r] = step /\ call'[r] = call[r] /\ caller'[r] = c
        /\ place'[r] = place[r] /\ result'[r] = result[r]
        /\ seen'[r] = Witnessed[r] /\ anonymous' = anonymous
        /\ \A q \in Handlers : q # r => Rests(q)
    BY DEF Goto, Watch, Rests, LocalTypeOK
  <1>2. LocalTypeOK'
    <2>1. pc' \in [Handlers -> Stages] /\ caller' \in [Handlers -> Callers]
      BY DEF Goto, LocalTypeOK
    <2> QED BY <2>1 DEF Goto, Watch, LocalTypeOK
  <1> QED BY <1>1, <1>2 DEF Moved, Goto, Stored

LEMMA ContinueMoves ==
    ASSUME LocalTypeOK, NEW r \in Handlers, NEW step \in Stages, Continue(r, step)
    PROVE  Moved(r, step, caller[r])
  <1>1. caller' = [caller EXCEPT ![r] = caller[r]] /\ caller[r] \in Callers
    BY DEF Continue, LocalTypeOK
  <1> QED BY <1>1, GotoMoves DEF Continue

\* The mode is seen in the first step of a request.
LEMMA MovedMode ==
    ASSUME NEW r \in Handlers, HandlerInv(r), InFlight(r), NEW step, NEW c,
           Moved(r, step, c)
    PROVE  ModeInv(r)'
  <1>1. seen'[r].modes = {anonymous}
    BY FactsAreAdded DEF Moved, HandlerInv, ModeInv
  <1> QED BY <1>1 DEF ModeInv, Moved

-----------------------------------------------------------------------------
(* The caller is resolved *)

LEMMA ResolveNobodyOK ==
    ASSUME RequestsTypeOK, NEW r \in Handlers, HandlerInv(r), ResolveNobody(r)
    PROVE  StepOK(r)
  <1>1. pc[r] = "resolve" /\ InFlight(r) /\ call[r].head.cred.kind = "empty"
    BY DEF ResolveNobody, InFlight
  <1>2. Moved(r, "check", caller[r])
    BY TypeParts, ContinueMoves DEF ResolveNobody, Stages
  <1>3. ModeInv(r)'
    BY <1>1, <1>2, MovedMode
  <1>4. caller[r] = None /\ call[r] \in Calls /\ call[r].op \in AllRoutes
    BY <1>1 DEF HandlerInv, CallerInv, RouteInv
  <1>5. RouteInv(r)'
    BY <1>2, <1>4 DEF RouteInv, Moved, InFlight
  <1>6. CallerInv(r)'
    BY <1>1, <1>2, <1>4 DEF CallerInv, Moved, Acting, Loading, InFlight
  <1>7. DueInv(r)' /\ CodeInv(r)'
    BY <1>2 DEF DueInv, CodeInv, Moved, Checked, Succeeded
  <1> QED BY <1>2, <1>3, <1>5, <1>6, <1>7 DEF StepOK, HandlerInv, Moved

LEMMA CallersAreSomebody == None \notin CallerRecord
  BY RequestsAssumption

LEMMA UnauthorizedIsDeclared ==
    ASSUME NEW op \in AllRoutes
    PROVE  /\ "Unauthorized" \in CodesOf(Declared, op)
           /\ "Forbidden" \in CodesOf(Declared, op)
           /\ "DatabaseError" \in CodesOf(Declared, op)
  BY DEF CodesOf, Declared

\* The account the credentials open is remembered among those they opened.
LEMMA AuthenticateOK ==
    ASSUME RequestsTypeOK, NEW r \in Handlers, HandlerInv(r), Authenticate(r)
    PROVE  StepOK(r)
  <1>1. /\ pc[r] = "resolve" /\ InFlight(r) /\ call[r].head.cred.kind # "empty"
        /\ call[r] \in Calls /\ call[r].op \in AllRoutes
    BY DEF Authenticate, InFlight, HandlerInv, RouteInv
  <1>2. ASSUME Fail(r, "Unauthorized")
        PROVE  StepOK(r)
    BY <1>1, <1>2, UnauthorizedIsDeclared, RefusalFinishes, FinishesOK
  <1>3. ASSUME ~anonymous, NEW o \in Opens(call[r].head.cred),
               caller' = [caller EXCEPT ![r] = [username  |-> o.username,
                                                superuser |-> FALSE,
                                                limits    |-> o.limits]],
               Goto(r, "load")
        PROVE  StepOK(r)
    <2> DEFINE c == [username  |-> o.username, superuser |-> FALSE, limits |-> o.limits]
    <2>1. call[r].head.cred \in Credentials
      BY <1>1, CallShape, HeaderShape
    <2>2. o.username \in Usernames /\ o.limits \in Optional(KeyScopes)
      BY <1>3, <2>1, OpensShape DEF RequestsTypeOK
    <2>3. c \in CallerRecord /\ c # None /\ c \in Callers
      <3>1. c \in CallerRecord
        BY <2>2 DEF CallerRecord
      <3> HIDE DEF c
      <3> QED BY <3>1, CallersAreSomebody DEF Callers, Optional
    <2>4. ~c.superuser /\ c.username = o.username /\ c.limits = o.limits
      OBVIOUS
    <2>5. caller' = [caller EXCEPT ![r] = c]
      BY <1>3
    <2> HIDE DEF c
    <2>6. Moved(r, "load", c)
      BY <1>3, <2>3, <2>5, TypeParts, GotoMoves DEF Stages
    <2>7. ModeInv(r)'
      BY <1>1, <2>6, MovedMode
    <2>8. Vouched(seen'[r], c)
      <3>1. o \in seen'[r].opened
        BY <1>1, <1>3, <2>6, FactsAreAdded DEF Moved
      <3> QED BY <2>4, <3>1 DEF Vouched
    <2>9. RouteInv(r)'
      BY <1>1, <2>6 DEF RouteInv, Moved, InFlight
    <2>10. CallerInv(r)'
      <3>1. /\ pc'[r] = "load" /\ caller'[r] = c /\ call'[r] = call[r]
            /\ anonymous' = anonymous
        BY <2>6 DEF Moved
      <3>2. pc'[r] \notin Resolved /\ ~Succeeded(r)'
        BY <3>1 DEF Resolved, Checked, Succeeded
      <3> QED BY <1>1, <1>3, <2>3, <2>4, <2>8, <3>1, <3>2 DEF CallerInv
    <2>11. DueInv(r)' /\ CodeInv(r)'
      BY <2>6 DEF DueInv, CodeInv, Moved, Checked, Succeeded
    <2> QED BY <2>6, <2>7, <2>9, <2>10, <2>11 DEF StepOK, HandlerInv, Moved
  <1> QED BY <1>2, <1>3 DEF Authenticate

\* The flag of a superuser is remembered with it.
LEMMA LoadUserOK ==
    ASSUME RequestsTypeOK, NEW r \in Handlers, HandlerInv(r), LoadUser(r)
    PROVE  StepOK(r)
  <1> DEFINE u == caller[r].username
  <1>1. /\ pc[r] = "load" /\ InFlight(r) /\ pc[r] \in Loading
        /\ call[r] \in Calls /\ call[r].op \in AllRoutes
    BY DEF LoadUser, InFlight, HandlerInv, RouteInv, Loading
  <1>2. /\ caller[r] # None /\ call[r].head.cred.kind # "empty"
        /\ Vouched(seen[r], caller[r]) /\ ~anonymous
    BY <1>1 DEF HandlerInv, CallerInv
  <1>3. caller[r] \in CallerRecord /\ u \in Usernames
    BY <1>2 DEF RequestsTypeOK, Callers, Optional, CallerRecord
  <1>4. ASSUME Fail(r, "DatabaseError")
        PROVE  StepOK(r)
    BY <1>1, <1>4, UnauthorizedIsDeclared, RefusalFinishes, FinishesOK
  <1>5. ASSUME UserExists(u),
               caller' = [caller EXCEPT ![r].superuser = users[u].superuser],
               Goto(r, IF call[r].head.as = None THEN "check" ELSE "impersonate")
        PROVE  StepOK(r)
    <2> DEFINE c == [caller[r] EXCEPT !.superuser = users[u].superuser]
               step == IF call[r].head.as = None THEN "check" ELSE "impersonate"
    <2>1. users[u].superuser \in BOOLEAN
      BY <1>3, <1>5, UserRecordFound DEF RequestsTypeOK, UserRecord
    <2>2. c \in CallerRecord
      BY <1>3, <2>1 DEF CallerRecord
    <2>3. /\ c.username = u /\ c.limits = caller[r].limits
          /\ c.superuser = users[u].superuser
      BY <1>3 DEF CallerRecord
    <2>4. caller' = [caller EXCEPT ![r] = c]
      BY <1>5, TypeParts DEF LocalTypeOK
    <2>5. step \in {"check", "impersonate"}
      OBVIOUS
    <2>6. Goto(r, step)
      BY <1>5
    <2>7. step = "check" <=> call[r].head.as = None
      OBVIOUS
    <2> HIDE DEF c, step
    <2>8. c # None /\ c \in Callers
      BY <2>2, CallersAreSomebody DEF Callers, Optional
    <2>9. Moved(r, step, c)
      BY <2>4, <2>5, <2>6, <2>8, TypeParts, GotoMoves DEF Stages
    <2>10. /\ pc'[r] = step /\ caller'[r] = c /\ call'[r] = call[r]
           /\ seen'[r] = Witnessed[r] /\ anonymous' = anonymous
      BY <2>9 DEF Moved
    <2>11. ModeInv(r)'
      BY <1>1, <2>9, MovedMode
    <2>12. Vouched(seen'[r], c)
      <3>1. Grows(seen[r], seen'[r])
        BY <1>1, <2>10, InFlightGrows DEF HandlerInv
      <3> QED BY <1>2, <2>3, <3>1 DEF Vouched, Grows
    <2>13. c.superuser => c.username \in seen'[r].supers
      <3>1. c.superuser => Superuser(u)
        BY <1>5, <2>3 DEF Superuser
      <3>2. seen'[r].supers = seen[r].supers \cup {x \in Usernames : Superuser(x)}
        BY <1>1, <2>10, FactsAreAdded
      <3> QED BY <1>3, <2>3, <3>1, <3>2
    <2>14. RouteInv(r)'
      BY <1>1, <2>5, <2>10 DEF RouteInv, InFlight
    <2>15. CallerInv(r)'
      <3>1. step = "check" => Acting(seen'[r], call[r], c)
        BY <1>2, <2>7, <2>8, <2>12, <2>13 DEF Acting
      <3>2. ~Succeeded(r)' /\ "impersonate" \notin Resolved
        BY <2>5, <2>10 DEF Succeeded, Resolved, Checked
      <3> QED BY <1>2, <2>5, <2>7, <2>8, <2>10, <2>12, <2>13, <3>1, <3>2 DEF CallerInv
    <2>16. DueInv(r)' /\ CodeInv(r)'
      BY <2>5, <2>10 DEF DueInv, CodeInv, Checked, Succeeded
    <2> QED BY <2>5, <2>9, <2>11, <2>14, <2>15, <2>16 DEF StepOK, HandlerInv, Moved
  <1> QED BY <1>4, <1>5 DEF LoadUser

\* Only a superuser whose key allows it acts as somebody else.
LEMMA MayImpersonateMeans ==
    ASSUME NEW c, c # None, MayImpersonate(c)
    PROVE  c.superuser /\ AllowsUserScope(c.limits, "impersonate")
  BY DEF MayImpersonate, EvaluateUserScope, Limits, SuperuserScopes

LEMMA ImpersonateOK ==
    ASSUME RequestsTypeOK, NEW r \in Handlers, HandlerInv(r), Impersonate(r)
    PROVE  StepOK(r)
  <1> DEFINE u == call[r].head.as
  <1>1. /\ pc[r] = "impersonate" /\ InFlight(r) /\ pc[r] \in Loading
        /\ call[r] \in Calls /\ call[r].op \in AllRoutes
    BY DEF Impersonate, InFlight, HandlerInv, RouteInv, Loading
  <1>2. /\ caller[r] # None /\ call[r].head.cred.kind # "empty" /\ u # None
        /\ Vouched(seen[r], caller[r]) /\ ~anonymous
        /\ caller[r].superuser => caller[r].username \in seen[r].supers
    BY <1>1 DEF HandlerInv, CallerInv
  <1>3. ASSUME Fail(r, "Unauthorized")
        PROVE  StepOK(r)
    BY <1>1, <1>3, UnauthorizedIsDeclared, RefusalFinishes, FinishesOK
  <1>4. ASSUME MayImpersonate(caller[r]), u # "invalid", UserExists(u),
               caller' = [caller EXCEPT ![r] = [username  |-> u,
                                                superuser |-> users[u].superuser,
                                                limits    |-> None]],
               Goto(r, "check")
        PROVE  StepOK(r)
    <2> DEFINE c == [username |-> u, superuser |-> users[u].superuser, limits |-> None]
    <2>1. u \in Usernames
      BY <1>1, <1>2, <1>4, CallShape, HeaderShape DEF Optional
    <2>2. users[u].superuser \in BOOLEAN
      BY <1>4, <2>1, UserRecordFound DEF RequestsTypeOK, UserRecord
    <2>3. c \in CallerRecord
      BY <2>1, <2>2 DEF CallerRecord, Optional
    <2>4. c.username = u /\ c.limits = None /\ c.superuser = users[u].superuser
      OBVIOUS
    <2>5. caller' = [caller EXCEPT ![r] = c]
      BY <1>4
    <2> HIDE DEF c
    <2>6. c # None /\ c \in Callers
      BY <2>3, CallersAreSomebody DEF Callers, Optional
    <2>7. Moved(r, "check", c)
      BY <1>4, <2>5, <2>6, TypeParts, GotoMoves DEF Stages
    <2>8. /\ pc'[r] = "check" /\ caller'[r] = c /\ call'[r] = call[r]
          /\ seen'[r] = Witnessed[r] /\ anonymous' = anonymous
      BY <2>7 DEF Moved
    <2>9. ModeInv(r)'
      BY <1>1, <2>7, MovedMode
    <2>10. Impersonator(seen'[r])
      <3>1. Grows(seen[r], seen'[r])
        BY <1>1, <2>8, InFlightGrows DEF HandlerInv
      <3>2. PICK o \in seen[r].opened :
                o.username = caller[r].username /\ o.limits = caller[r].limits
        BY <1>2 DEF Vouched
      <3>3. o.username \in seen[r].supers /\ AllowsUserScope(o.limits, "impersonate")
        BY <1>2, <1>4, <3>2, MayImpersonateMeans
      <3>4. caller[r] \in CallerRecord
        BY <1>2 DEF RequestsTypeOK, Callers, Optional
      <3>5. o.username \in Usernames /\ o.limits \in Optional(KeyScopes)
        BY <3>2, <3>4 DEF CallerRecord
      <3> QED BY <3>1, <3>2, <3>3, <3>5 DEF Impersonator, Grows
    <2>11. c.superuser => c.username \in seen'[r].supers
      <3>1. c.superuser => Superuser(u)
        BY <1>4, <2>4 DEF Superuser
      <3>2. seen'[r].supers = seen[r].supers \cup {x \in Usernames : Superuser(x)}
        BY <1>1, <2>8, FactsAreAdded
      <3> QED BY <2>1, <2>4, <3>1, <3>2
    <2>12. RouteInv(r)'
      BY <1>1, <2>8 DEF RouteInv, InFlight
    <2>13. CallerInv(r)'
      <3>1. Acting(seen'[r], call[r], c)
        BY <1>2, <2>4, <2>6, <2>10, <2>11 DEF Acting
      <3>2. "check" \notin Loading
        BY DEF Loading
      <3> QED BY <1>2, <2>8, <3>1, <3>2 DEF CallerInv
    <2>14. DueInv(r)' /\ CodeInv(r)'
      BY <2>8 DEF DueInv, CodeInv, Checked, Succeeded
    <2> QED BY <2>7, <2>9, <2>12, <2>13, <2>14 DEF StepOK, HandlerInv, Moved
  <1> QED BY <1>3, <1>4 DEF Impersonate

-----------------------------------------------------------------------------
(* The scope of the route and the mount grant are checked *)

\* A check of a user scope that passes is remembered by what it read.
LEMMA UserScopeChecked ==
    ASSUME RequestsTypeOK, NEW r \in Handlers, HandlerInv(r), pc[r] \in Resolved,
           NEW scope, CheckUserScope(caller[r], scope) = "nil"
    PROVE  UserAllowed(Witnessed[r], caller[r], scope)
  <1>1. /\ InFlight(r) /\ seen[r].modes = {anonymous}
        /\ Grows(seen[r], Witnessed[r])
    BY InFlightGrows DEF HandlerInv
  <1>2. anonymous => caller[r] = None
    BY <1>1 DEF HandlerInv, CallerInv
  <1>3. TRUE \in Witnessed[r].modes <=> anonymous
    <2>1. Witnessed[r].modes = {anonymous} /\ anonymous \in {TRUE, FALSE}
      BY <1>1 DEF Grows, RequestsTypeOK
    <2> QED BY <2>1, Zenon
  <1>4. CASE anonymous
    BY <1>2, <1>3, <1>4 DEF CheckUserScope, EvaluateAnonymousModeUserScope, UserAllowed
  <1>5. CASE ~anonymous /\ caller[r] = None
    BY <1>3, <1>5 DEF CheckUserScope, EvaluateUserScope, UserAllowed
  <1>6. CASE ~anonymous /\ caller[r] # None
    <2>1. caller[r].superuser => caller[r].username \in Witnessed[r].supers
      BY <1>1, <1>6 DEF HandlerInv, CallerInv, Acting, Grows
    <2>2. /\ AllowsUserScope(caller[r].limits, scope)
          /\ caller[r].superuser \/ scope \notin SuperuserScopes
      BY <1>6 DEF CheckUserScope, EvaluateUserScope, Limits
    <2> QED BY <1>3, <1>6, <2>1, <2>2 DEF UserAllowed
  <1> QED BY <1>4, <1>5, <1>6

\* So is a check of a scope in the namespace of the request.
LEMMA NamespaceScopeChecked ==
    ASSUME RequestsTypeOK, NEW r \in Handlers, HandlerInv(r), pc[r] \in Resolved,
           Where(r) \in NamespaceIDs,
           NEW scope, CheckNamespaceScope(Where(r), caller[r], scope) = "nil"
    PROVE  NamespaceAllowed(Witnessed[r], Where(r), caller[r], scope)
  <1>1. /\ InFlight(r) /\ seen[r].modes = {anonymous}
        /\ Grows(seen[r], Witnessed[r])
    BY InFlightGrows DEF HandlerInv
  <1>2. anonymous => caller[r] = None
    BY <1>1 DEF HandlerInv, CallerInv
  <1>3. TRUE \in Witnessed[r].modes <=> anonymous
    <2>1. Witnessed[r].modes = {anonymous} /\ anonymous \in {TRUE, FALSE}
      BY <1>1 DEF Grows, RequestsTypeOK
    <2> QED BY <2>1, Zenon
  <1>4. CASE anonymous
    BY <1>2, <1>3, <1>4
       DEF CheckNamespaceScope, EvaluateAnonymousModeNamespaceScope, NamespaceAllowed
  <1>5. CASE ~anonymous /\ caller[r] = None
    BY <1>3, <1>5 DEF CheckNamespaceScope, EvaluateNamespaceScope, NamespaceAllowed
  <1>6. CASE ~anonymous /\ caller[r] # None
    <2> DEFINE u == caller[r].username
               role == roles[Where(r)][u]
    <2>1. caller[r].superuser => u \in Witnessed[r].supers
      BY <1>1, <1>6 DEF HandlerInv, CallerInv, Acting, Grows
    <2>2. u \in Usernames
      BY <1>6 DEF RequestsTypeOK, Callers, Optional, CallerRecord
    <2>3. role \in Roles
      BY <2>2 DEF RequestsTypeOK, TypeOK
    <2>4. <<u, role>> \in Witnessed[r].ranks
      <3>1. Where(r) # None
        BY StoreAssumption
      <3> QED BY <1>1, <2>2, <3>1, FactsAreAdded
    <2>5. EvaluateNamespaceScope(Where(r), role, caller[r], scope) = "nil"
      BY <1>6 DEF CheckNamespaceScope
    <2> HIDE DEF u, role
    <2>6. /\ AllowsNamespaceScope(caller[r].limits, Where(r), scope)
          /\ \/ caller[r].superuser
             \/ scope \notin SuperuserNamespaceScopes /\ LessThan(MinRole(scope), role)
      BY <1>6, <2>5 DEF EvaluateNamespaceScope, Limits
    <2>7. caller[r].superuser \/ Ranked(Witnessed[r], u, scope)
      BY <2>3, <2>4, <2>6 DEF Ranked
    <2> QED BY <1>3, <1>6, <2>1, <2>6, <2>7 DEF NamespaceAllowed, u
  <1> QED BY <1>4, <1>5, <1>6

\* A stage of the implementation is reached with what was checked before.
LEMMA AdvanceKeeps ==
    ASSUME NEW r \in Handlers, HandlerInv(r), pc[r] \in Resolved, pc'[r] \in Checked,
           call'[r] = call[r], caller'[r] = caller[r], result'[r] = result[r],
           seen'[r] = Witnessed[r], anonymous' = anonymous,
           RouteInv(r)', RouteDue(seen'[r], call[r], caller[r]),
           pc'[r] # "grant" => GrantDue(seen'[r], call[r], caller[r])
    PROVE  HandlerInv(r)'
  <1>1. /\ InFlight(r) /\ seen[r].modes = {anonymous}
        /\ Grows(seen[r], seen'[r])
    BY InFlightGrows DEF HandlerInv
  <1>2. pc'[r] \notin {"idle", "done", "document", "resolve", "load", "impersonate"}
    BY DEF Checked
  <1>3. ModeInv(r)'
    BY <1>1 DEF ModeInv, Grows
  <1>4. CallerInv(r)'
    <2>1. Acting(seen'[r], call[r], caller[r])
      BY <1>1, ActingGrows DEF HandlerInv, CallerInv
    <2>2. anonymous => caller[r] = None
      BY <1>1 DEF HandlerInv, CallerInv
    <2> QED BY <1>2, <2>1, <2>2 DEF CallerInv, Loading
  <1>5. DueInv(r)' /\ CodeInv(r)'
    BY <1>2 DEF DueInv, CodeInv, Succeeded
  <1> QED BY <1>3, <1>4, <1>5 DEF HandlerInv

\* Every refusal of a scope is a code the route declares, also in anonymous
\* mode.
LEMMA AnonymousRefusalsDeclared ==
    /\ \A op \in NamespaceRoutes, self \in BOOLEAN :
           NamespaceScopeOf(op, self) \notin AnonymousNamespaceScopes =>
               "UnavailableInAnonymousMode" \in CodesOf(Declared, op)
    /\ \A op \in AllRoutes \ NamespaceRoutes :
           UserScopeOf(op) \notin AnonymousUserScopes =>
               "UnavailableInAnonymousMode" \in CodesOf(Declared, op)
  <1>1. \A op : \/ op \in AccountRoutes
                \/ op \in {"setMountGrant", "deleteMountGrant", "listNamespaceRoles",
                           "getNamespaceRole", "setNamespaceRole", "removeNamespaceRole"}
                => "UnavailableInAnonymousMode" \in CodesOf(Declared, op)
    BY DEF CodesOf, Declared
  <1>2. ASSUME NEW op \in NamespaceRoutes, NEW self \in BOOLEAN,
               NamespaceScopeOf(op, self) \notin AnonymousNamespaceScopes
        PROVE  op \in {"listNamespaceRoles", "getNamespaceRole", "setNamespaceRole",
                       "removeNamespaceRole"}
    <2>1. CASE op \in DOMAIN SelfScope
      BY <2>1 DEF SelfScope
    <2>2. CASE op \notin DOMAIN SelfScope
      BY <1>2, <2>2 DEF NamespaceScopeOf, AnonymousNamespaceScopes, NamespaceScopes,
         RoleScopes, NamespaceRoutes, SelfScope
    <2> QED BY <2>1, <2>2
  <1>3. ASSUME NEW op \in ResolverRoutes, UserScopeOf(op) \notin AnonymousUserScopes
        PROVE  op \in {"setMountGrant", "deleteMountGrant"}
    BY <1>3 DEF ResolverRoutes, UserScopeOf, RenamedScope, AnonymousUserScopes
  <1> QED BY <1>1, <1>2, <1>3 DEF AllRoutes

LEMMA ScopeRefusalDeclared ==
    ASSUME NEW r \in Handlers, call[r].op \in AllRoutes, ScopeErr(r) # "nil"
    PROVE  ScopeErr(r) \in CodesOf(Declared, call[r].op)
  <1> DEFINE op == call[r].op
             self == caller[r] # None /\ call[r].user = caller[r].username
  <1>1. CASE op \in NamespaceRoutes
    <2> DEFINE scope == NamespaceScopeOf(op, self)
    <2>1. ScopeErr(r) = CheckNamespaceScope(call[r].ns, caller[r], scope)
      BY <1>1 DEF ScopeErr
    <2>2. scope \notin AnonymousNamespaceScopes =>
              "UnavailableInAnonymousMode" \in CodesOf(Declared, op)
      BY <1>1, AnonymousRefusalsDeclared
    <2>3. "NamespaceNotFound" \in CodesOf(Declared, op)
      BY <1>1 DEF CodesOf, Declared
    <2> HIDE DEF scope, self, op
    <2>4. \/ ScopeErr(r) \in {"Unauthorized", "Forbidden", "NamespaceNotFound"}
          \/ /\ ScopeErr(r) = "UnavailableInAnonymousMode"
             /\ scope \notin AnonymousNamespaceScopes
      BY <2>1 DEF CheckNamespaceScope, EvaluateNamespaceScope,
         EvaluateAnonymousModeNamespaceScope
    <2> QED BY <2>2, <2>3, <2>4, UnauthorizedIsDeclared DEF op
  <1>2. CASE op \notin NamespaceRoutes
    <2> DEFINE scope == UserScopeOf(op)
    <2>1. ScopeErr(r) = CheckUserScope(caller[r], scope)
      BY <1>2 DEF ScopeErr
    <2>2. scope \notin AnonymousUserScopes =>
              "UnavailableInAnonymousMode" \in CodesOf(Declared, op)
      BY <1>2, AnonymousRefusalsDeclared
    <2> HIDE DEF scope, op
    <2>3. \/ ScopeErr(r) \in {"Unauthorized", "Forbidden"}
          \/ /\ ScopeErr(r) = "UnavailableInAnonymousMode"
             /\ scope \notin AnonymousUserScopes
      BY <2>1 DEF CheckUserScope, EvaluateUserScope, EvaluateAnonymousModeUserScope
    <2> QED BY <2>2, <2>3, UnauthorizedIsDeclared DEF op
  <1> QED BY <1>1, <1>2

\* So is every complaint about the path and the input.
LEMMA InputErrorsDeclared ==
    ASSUME NEW op \in AllRoutes
    PROVE  /\ CodesOf(PathErrors, op) \subseteq CodesOf(Declared, op)
           /\ CodesOf(InputErrors, op) \subseteq CodesOf(Declared, op)
  <1>1. ASSUME NEW code \in CodesOf(PathErrors, op)
        PROVE  code \in CodesOf(Declared, op)
    BY <1>1 DEF CodesOf, PathErrors, Declared, SelfScope, NamespaceRoutes
  <1>2. ASSUME NEW code \in CodesOf(InputErrors, op)
        PROVE  code \in CodesOf(Declared, op)
    BY <1>2 DEF CodesOf, InputErrors, Declared, DecodesJSON, DeclaresBody,
       ParsesPagination, GrantRoutes
  <1> QED BY <1>1, <1>2

LEMMA CheckScopeOK ==
    ASSUME RequestsTypeOK, NEW r \in Handlers, HandlerInv(r), CheckScope(r)
    PROVE  StepOK(r)
  <1> DEFINE step == IF call[r].op \in GrantRoutes THEN "grant" ELSE "act"
             self == caller[r] # None /\ call[r].user = caller[r].username
  <1>1. /\ pc[r] = "check" /\ InFlight(r) /\ pc[r] \in Resolved
        /\ call[r] \in Calls /\ call[r].op \in AllRoutes
    BY DEF CheckScope, InFlight, HandlerInv, RouteInv, Resolved
  <1>2. ASSUME NEW code \in CodesOf(PathErrors, call[r].op), Fail(r, code)
        PROVE  StepOK(r)
    BY <1>1, <1>2, InputErrorsDeclared, RefusalFinishes, FinishesOK
  <1>3. ASSUME ScopeErr(r) # "nil", Fail(r, ScopeErr(r))
        PROVE  StepOK(r)
    BY <1>1, <1>3, ScopeRefusalDeclared, RefusalFinishes, FinishesOK
  <1>4. ASSUME ScopeErr(r) = "nil", Continue(r, step)
        PROVE  StepOK(r)
    <2>1. step \in {"grant", "act"} /\ (step = "grant" <=> call[r].op \in GrantRoutes)
      OBVIOUS
    <2> HIDE DEF step
    <2>2. Moved(r, step, caller[r])
      BY <1>4, <2>1, TypeParts, ContinueMoves DEF Stages
    <2>3. RouteDue(Witnessed[r], call[r], caller[r])
      <3>1. CASE call[r].op \in NamespaceRoutes
        <4>1. Where(r) = call[r].ns /\ Where(r) \in NamespaceIDs
          BY <1>1, <3>1, CallShape, StoreAssumption DEF Where
        <4>2. CheckNamespaceScope(Where(r), caller[r],
                                  NamespaceScopeOf(call[r].op, self)) = "nil"
          BY <1>4, <3>1, <4>1 DEF ScopeErr
        <4>3. NamespaceAllowed(Witnessed[r], Where(r), caller[r],
                               NamespaceScopeOf(call[r].op, self))
          BY <1>1, <4>1, <4>2, NamespaceScopeChecked
        <4> QED BY <3>1, <4>1, <4>3 DEF RouteDue
      <3>2. CASE call[r].op \notin NamespaceRoutes
        <4>1. CheckUserScope(caller[r], UserScopeOf(call[r].op)) = "nil"
          BY <1>4, <3>2 DEF ScopeErr
        <4>2. UserAllowed(Witnessed[r], caller[r], UserScopeOf(call[r].op))
          BY <1>1, <4>1, UserScopeChecked
        <4> QED BY <3>2, <4>2 DEF RouteDue
      <3> QED BY <3>1, <3>2
    <2>4. step # "grant" => GrantDue(Witnessed[r], call[r], caller[r])
      BY <2>1 DEF GrantDue
    <2>5. RouteInv(r)'
      BY <1>1, <2>1, <2>2 DEF RouteInv, Moved
    <2>6. HandlerInv(r)'
      BY <1>1, <2>1, <2>2, <2>3, <2>4, <2>5, AdvanceKeeps DEF Moved, Checked
    <2> QED BY <2>1, <2>2, <2>6 DEF StepOK, Moved
  <1> QED BY <1>2, <1>3, <1>4 DEF CheckScope

LEMMA CheckGrantOK ==
    ASSUME RequestsTypeOK, NEW r \in Handlers, HandlerInv(r), CheckGrant(r)
    PROVE  StepOK(r)
  <1> DEFINE err == GrantErr(caller[r], call[r].base)
  <1>1. /\ pc[r] = "grant" /\ InFlight(r) /\ pc[r] \in Resolved /\ pc[r] \in Checked
        /\ call[r] \in Calls /\ call[r].op \in AllRoutes /\ call[r].op \in GrantRoutes
    BY DEF CheckGrant, InFlight, HandlerInv, RouteInv, Resolved, Checked
  <1>2. "InvalidBaseURI" \in CodesOf(Declared, call[r].op)
    BY <1>1 DEF CodesOf, Declared, GrantRoutes
  <1>3. Fail(r, "InvalidBaseURI") => StepOK(r)
    BY <1>1, <1>2, RefusalFinishes, FinishesOK
  <1>4. ASSUME err # "nil", Fail(r, err)
        PROVE  StepOK(r)
    <2>1. err \in {"DatabaseError", "Forbidden"}
      BY <1>4 DEF GrantErr
    <2> QED BY <1>1, <1>4, <2>1, UnauthorizedIsDeclared, RefusalFinishes, FinishesOK
  <1>5. ASSUME err = "nil", Continue(r, "act")
        PROVE  StepOK(r)
    <2>1. Moved(r, "act", caller[r])
      BY <1>5, TypeParts, ContinueMoves DEF Stages
    <2>2. Grows(seen[r], Witnessed[r]) /\ InFlight(r)
      BY <1>1, InFlightGrows DEF HandlerInv
    <2>3. RouteDue(Witnessed[r], call[r], caller[r])
      BY <1>1, <2>2, RouteDueGrows DEF HandlerInv, DueInv
    <2>4. ASSUME caller[r] # None
          PROVE  caller[r].username \in Witnessed[r].supers \cup Witnessed[r].granted
      <3>1. ~anonymous
        BY <1>1, <2>4 DEF HandlerInv, CallerInv
      <3>2. CASE caller[r].superuser
        BY <1>1, <2>2, <2>4, <3>2 DEF HandlerInv, CallerInv, Acting, Grows
      <3>3. CASE ~caller[r].superuser
        <4>1. MountGrantMatches(caller[r].username, call[r].base)
          BY <1>5, <2>4, <3>1, <3>3 DEF GrantErr
        <4>2. caller[r].username \in Usernames
          BY <2>4 DEF RequestsTypeOK, Callers, Optional, CallerRecord
        <4>3. call[r].base # None
          BY <1>1, CallShape, RequestsAssumption DEF TargetsBase
        <4> QED BY <2>2, <4>1, <4>2, <4>3, FactsAreAdded
      <3> QED BY <3>2, <3>3
    <2>5. GrantDue(Witnessed[r], call[r], caller[r])
      BY <2>4 DEF GrantDue
    <2>6. RouteInv(r)'
      BY <1>1, <2>1 DEF RouteInv, Moved
    <2>7. HandlerInv(r)'
      BY <1>1, <2>1, <2>3, <2>5, <2>6, AdvanceKeeps DEF Moved, Checked
    <2> QED BY <2>1, <2>7 DEF StepOK, Moved
  <1> QED BY <1>3, <1>4, <1>5 DEF CheckGrant

-----------------------------------------------------------------------------
(* Steps of the implementation that go on, and reads *)

LEMMA SetNamespaceRoleActs ==
    ASSUME RequestsTypeOK, NEW r \in Handlers, HandlerInv(r), SetNamespaceRoleAct(r)
    PROVE  StepOK(r)
  <1>1. /\ pc[r] = "act" /\ call[r].op = "setNamespaceRole" /\ call[r].op \in AllRoutes
        /\ call[r].user \in Usernames /\ call[r].ns \in NamespaceIDs
    <2>1. Acts(r, "setNamespaceRole")
      BY DEF SetNamespaceRoleAct
    <2> QED BY <2>1, ActShape DEF TargetsUser, SelfScope, NamespaceRoutes
  <1>2. InFlight(r) /\ pc[r] \in Resolved /\ pc[r] \in Checked \ {"grant"}
    BY <1>1 DEF InFlight, Resolved, Checked
  <1>3. "InvalidRole" \in CodesOf(Declared, "setNamespaceRole")
    BY DEF CodesOf, Declared
  <1>4. Fail(r, "InvalidRole") => StepOK(r)
    BY <1>1, <1>2, <1>3, RefusalFinishes, FinishesOK
  <1>5. ASSUME NamespaceErr(call[r].ns) # "nil",
               Fail(r, ServiceCode(call[r].op, NamespaceErr(call[r].ns)))
        PROVE  StepOK(r)
    BY <1>1, <1>2, <1>5, ServiceCodesDeclared, ServiceRefusal, FinishesOK DEF NamespaceErr
  <1>6. ASSUME NEW role \in Roles, SetNamespaceRole(call[r].ns, call[r].user, role),
               pc' = [pc EXCEPT ![r] = "reread"],
               UNCHANGED <<call, caller, place, result>>, Watch
        PROVE  StepOK(r)
    <2>1. Stored
      BY <1>1, <1>6 DEF Stored, Next, NamespaceStep
    <2>2. LocalTypeOK
      BY TypeParts
    <2>3. /\ pc'[r] = "reread"
          /\ \A q \in Handlers : q # r => Rests(q)
          /\ seen'[r] = Witnessed[r] /\ anonymous' = anonymous
      BY <1>6, <2>2 DEF LocalTypeOK, Rests, Watch
    <2>4. LocalTypeOK'
      <3>1. pc' \in [Handlers -> Stages]
        BY <1>6, <2>2 DEF LocalTypeOK, Stages
      <3> QED BY <1>6, <2>2, <3>1 DEF LocalTypeOK, Watch
    <2>5. Grows(seen[r], Witnessed[r])
      BY <1>2, InFlightGrows DEF HandlerInv
    <2>6. RouteDue(Witnessed[r], call[r], caller[r]) /\ GrantDue(Witnessed[r], call[r], caller[r])
      BY <1>2, <2>5, RouteDueGrows, GrantDueGrows DEF HandlerInv, DueInv
    <2>7. RouteInv(r)'
      BY <1>1, <1>6, <2>3 DEF RouteInv, HandlerInv
    <2>8. HandlerInv(r)'
      BY <1>2, <1>6, <2>3, <2>6, <2>7, AdvanceKeeps DEF Checked
    <2> QED BY <2>1, <2>3, <2>4, <2>8 DEF StepOK
  <1> QED BY <1>4, <1>5, <1>6 DEF SetNamespaceRoleAct

LEMMA RereadRoleActs ==
    ASSUME RequestsTypeOK, NEW r \in Handlers, HandlerInv(r), RereadRole(r)
    PROVE  Finishes(r)
  <1>1. /\ pc[r] = "reread" /\ call[r].op = "setNamespaceRole" /\ call[r].op \in AllRoutes
    BY DEF RereadRole, HandlerInv, RouteInv, InFlight
  <1>2. "NamespaceNotFound" \in CodesOf(Declared, "setNamespaceRole")
    BY DEF CodesOf, Declared, NamespaceRoutes
  <1>3. Fail(r, "nil") => Finishes(r)
    BY <1>1, FailFinishes DEF Justified
  <1>4. Fail(r, "NamespaceNotFound") => Finishes(r)
    BY <1>1, <1>2, RefusalFinishes
  <1> QED BY <1>3, <1>4 DEF RereadRole

\* A mount leads to a namespace, wherever it leads a moment later.
LEMMA ResolveMountOK ==
    ASSUME RequestsTypeOK, NEW r \in Handlers, HandlerInv(r), ResolveMount(r)
    PROVE  StepOK(r)
  <1>1. /\ pc[r] = "act" /\ call[r].op = "resolveResourceByMountAndPID"
        /\ call[r].op \in AllRoutes /\ call[r].base \in BaseURIs
    <2>1. Acts(r, "resolveResourceByMountAndPID")
      BY DEF ResolveMount
    <2> QED BY <2>1, ActShape DEF TargetsBase
  <1>2. InFlight(r) /\ pc[r] \in Resolved /\ pc[r] \in Checked \ {"grant"}
    BY <1>1 DEF InFlight, Resolved, Checked
  <1>3. Fail(r, "MountNotFound") => StepOK(r)
    <2>1. "MountNotFound" \in CodesOf(Declared, "resolveResourceByMountAndPID")
      BY DEF CodesOf, Declared
    <2> QED BY <1>1, <1>2, <2>1, RefusalFinishes, FinishesOK
  <1>4. ASSUME NEW n, n = mounts[call[r].base], n # None,
               pc' = [pc EXCEPT ![r] = "read"], place' = [place EXCEPT ![r] = n],
               UNCHANGED <<vars, call, caller, result>>, Watch
        PROVE  StepOK(r)
    <2>1. n \in NamespaceIDs
      BY <1>1, <1>4 DEF RequestsTypeOK, TypeOK, Optional
    <2>2. LocalTypeOK
      BY TypeParts
    <2>3. /\ pc'[r] = "read" /\ place'[r] = n
          /\ \A q \in Handlers : q # r => Rests(q)
          /\ seen'[r] = Witnessed[r] /\ anonymous' = anonymous
      BY <1>4, <2>2 DEF LocalTypeOK, Rests, Watch
    <2>4. LocalTypeOK'
      <3>1. pc' \in [Handlers -> Stages] /\ place' \in [Handlers -> Optional(NamespaceIDs)]
        BY <1>4, <2>1, <2>2 DEF LocalTypeOK, Stages, Optional
      <3> QED BY <1>4, <2>2, <3>1 DEF LocalTypeOK, Watch
    <2>5. Grows(seen[r], Witnessed[r])
      BY <1>2, InFlightGrows DEF HandlerInv
    <2>6. RouteDue(Witnessed[r], call[r], caller[r]) /\ GrantDue(Witnessed[r], call[r], caller[r])
      BY <1>2, <2>5, RouteDueGrows, GrantDueGrows DEF HandlerInv, DueInv
    <2>7. RouteInv(r)'
      BY <1>1, <1>4, <2>3 DEF RouteInv, HandlerInv
    <2>8. HandlerInv(r)'
      BY <1>2, <1>4, <2>3, <2>6, <2>7, AdvanceKeeps DEF Checked
    <2> QED BY <1>4, <2>3, <2>4, <2>8 DEF StepOK, Stored
  <1> QED BY <1>3, <1>4 DEF ResolveMount

LEMMA ReadResourceOK ==
    ASSUME RequestsTypeOK, NEW r \in Handlers, HandlerInv(r), ReadResource(r)
    PROVE  StepOK(r)
  <1>1. /\ pc[r] \in {"read", "act"} /\ call[r] \in Calls /\ call[r].op \in AllRoutes
        /\ \/ call[r].op = "getResource"
           \/ call[r].op = "resolveResourceByMountAndPID" /\ place[r] # None
    <2>1. CASE pc[r] = "read"
      BY <2>1 DEF HandlerInv, RouteInv, InFlight
    <2>2. CASE Acts(r, "getResource")
      BY <2>2 DEF HandlerInv, RouteInv, InFlight, Acts
    <2> QED BY <2>1, <2>2 DEF ReadResource
  <1>2. InFlight(r) /\ pc[r] \in Resolved /\ pc[r] \in Checked \ {"grant"}
    BY <1>1 DEF InFlight, Resolved, Checked
  <1>3. PICK p \in PIDs :
            \/ /\ ResourceErr(Where(r), p) # "nil"
               /\ Fail(r, ServiceCode(call[r].op, ResourceErr(Where(r), p)))
            \/ Continue(r, "redact")
            \/ Fail(r, "nil")
    BY DEF ReadResource
  <1>4. ASSUME ResourceErr(Where(r), p) # "nil",
               Fail(r, ServiceCode(call[r].op, ResourceErr(Where(r), p)))
        PROVE  StepOK(r)
    <2>1. ResourceErr(Where(r), p) \in {"ErrNamespaceNotFound", "ErrResourceNotFound"}
      BY <1>4 DEF ResourceErr
    <2> QED BY <1>1, <1>2, <1>4, <2>1, ServiceCodesDeclared, ServiceRefusal, FinishesOK
  <1>5. Fail(r, "nil") => StepOK(r)
    BY <1>1, <1>2, FailFinishes, FinishesOK DEF Justified
  <1>6. ASSUME Continue(r, "redact")
        PROVE  StepOK(r)
    <2>1. Moved(r, "redact", caller[r])
      BY <1>6, TypeParts, ContinueMoves DEF Stages
    <2>2. Grows(seen[r], Witnessed[r])
      BY <1>2, InFlightGrows DEF HandlerInv
    <2>3. RouteDue(Witnessed[r], call[r], caller[r]) /\ GrantDue(Witnessed[r], call[r], caller[r])
      BY <1>2, <2>2, RouteDueGrows, GrantDueGrows DEF HandlerInv, DueInv
    <2>4. RouteInv(r)'
      BY <1>1, <2>1 DEF RouteInv, Moved
    <2>5. HandlerInv(r)'
      BY <1>2, <2>1, <2>3, <2>4, AdvanceKeeps DEF Moved, Checked
    <2> QED BY <2>1, <2>5 DEF StepOK, Moved
  <1> QED BY <1>3, <1>4, <1>5, <1>6

\* A deleted resource is shown in full only after its own check.
LEMMA RedactResourceActs ==
    ASSUME RequestsTypeOK, NEW r \in Handlers, HandlerInv(r), RedactResource(r)
    PROVE  Finishes(r)
  <1>1. /\ pc[r] = "redact" /\ pc[r] \in Resolved /\ call[r] \in Calls
        /\ \/ call[r].op = "getResource"
           \/ call[r].op = "resolveResourceByMountAndPID" /\ place[r] # None
    BY DEF RedactResource, HandlerInv, RouteInv, Resolved, Checked
  <1>2. Where(r) \in NamespaceIDs
    <2>1. call[r].op = "getResource" => call[r].ns \in NamespaceIDs
      BY <1>1, CallShape DEF NamespaceRoutes
    <2>2. call[r].op = "resolveResourceByMountAndPID" => call[r].ns = None
      BY <1>1, CallShape DEF NamespaceRoutes
    <2>3. place[r] # None => place[r] \in NamespaceIDs
      BY DEF RequestsTypeOK, Optional
    <2> QED BY <1>1, <2>1, <2>2, <2>3, StoreAssumption DEF Where
  <1>3. CASE Redacted(r)
    BY <1>1, <1>3, FailFinishes DEF RedactResource, Justified
  <1>4. CASE ~Redacted(r)
    <2>1. NamespaceAllowed(Witnessed[r], Where(r), caller[r], "seeDeletedResource")
      BY <1>1, <1>2, <1>4, NamespaceScopeChecked DEF Redacted
    <2> QED BY <1>1, <1>4, <2>1, FailFinishes DEF RedactResource, Justified
  <1> QED BY <1>3, <1>4

LEMMA ListResourcesActs ==
    ASSUME RequestsTypeOK, NEW r \in Handlers, HandlerInv(r), ListResourcesAct(r)
    PROVE  Finishes(r)
  <1>1. pc[r] = "act" /\ call[r].op = "listResources" /\ call[r].op \in AllRoutes
    <2>1. Acts(r, "listResources")
      BY DEF ListResourcesAct
    <2> QED BY <2>1, ActShape
  <1>2. PICK answer \in {"nil", "deleted"} :
            Show(r, NamespaceErr(call[r].ns), UNCHANGED vars, answer)
    BY DEF ListResourcesAct, InFull
  <1>3. UNCHANGED vars /\ Answer(r, answer) => Finishes(r)
    BY <1>1, FailFinishes DEF Fail, Justified, ShowsStored
  <1>4. Declares("listResources", "ErrNamespaceNotFound")
    BY DEF Declares, ServiceCode, Untranslated, CodeOf, CodesOf, Declared,
       NamespaceRoutes, AllRoutes
  <1>5. ASSUME NamespaceErr(call[r].ns) # "nil",
               Fail(r, ServiceCode(call[r].op, NamespaceErr(call[r].ns)))
        PROVE  Finishes(r)
    BY <1>1, <1>4, <1>5, ServiceRefusal DEF NamespaceErr
  <1> QED BY <1>2, <1>3, <1>5 DEF Show

LEMMA ReadActs ==
    ASSUME RequestsTypeOK, NEW r \in Handlers, HandlerInv(r), ReadAct(r)
    PROVE  Finishes(r)
  <1> DEFINE op == call[r].op
  <1>1. /\ Acts(r, op) /\ op \in ReadRoutes
        /\ Perform(r, ReadErr(r), UNCHANGED vars)
    BY DEF ReadAct
  <1>2. /\ pc[r] = "act" /\ op \in AllRoutes
        /\ op \in DereferencesCaller => caller[r] \in CallerRecord
    BY <1>1, ActShape
  <1>3. UNCHANGED vars /\ Answer(r, "nil") => Finishes(r)
    BY <1>2, FailFinishes DEF Fail, Justified
  <1>4. ASSUME ReadErr(r) # "nil", Fail(r, ServiceCode(op, ReadErr(r)))
        PROVE  Finishes(r)
    <2>1. CASE op = "resolveMountByBaseUri"
      <3>1. ReadErr(r) = "ErrMountNotFound"
        BY <1>4, <2>1 DEF ReadErr, MountErr, NamespaceRoutes
      <3> QED BY <1>2, <1>4, <2>1, <3>1, ServiceCodesDeclared, ServiceRefusal
    <2>2. CASE op = "listUserKeys"
      <3>1. ReadErr(r) = "ErrUserNotFound" /\ ~UserExists(caller[r].username)
        BY <1>4, <2>2 DEF ReadErr, UserErr, NamespaceRoutes
      <3>2. ServiceCode("listUserKeys", "ErrUserNotFound") = "UserNotFound"
        BY DEF ServiceCode, Untranslated, CodeOf
      <3>3. caller[r].username \in Usernames
        BY <1>2, <2>2 DEF DereferencesCaller, AccountRoutes, CallerRecord
      <3> QED BY <1>4, <2>2, <3>1, <3>2, <3>3, FailFinishes DEF Justified
    <2>3. CASE op \in {"getUserRoles", "listOwnMountGrants", "listMounts"}
      <3>1. ReadErr(r) = "ErrUserNotFound"
        BY <1>4, <2>3 DEF ReadErr, UserErr, NamespaceRoutes
      <3>2. ServiceCode(op, "ErrUserNotFound") = "DatabaseError"
        BY <2>3 DEF ServiceCode, Untranslated, CodeOf
      <3> QED BY <1>2, <1>4, <3>1, <3>2, UnauthorizedIsDeclared, RefusalFinishes
    <2>4. CASE op \in NamespaceRoutes
      <3>1. ReadErr(r) = "ErrNamespaceNotFound"
        BY <1>4, <2>4 DEF ReadErr, NamespaceErr, NamespaceRoutes
      <3>2. ServiceCode(op, "ErrNamespaceNotFound") \in {"DatabaseError", "NamespaceNotFound"}
        BY DEF ServiceCode, CodeOf
      <3>3. "NamespaceNotFound" \in CodesOf(Declared, op)
        BY <2>4 DEF CodesOf, Declared
      <3> QED BY <1>2, <1>4, <3>1, <3>2, <3>3, UnauthorizedIsDeclared, RefusalFinishes
    <2>5. CASE op \notin {"resolveMountByBaseUri", "listUserKeys", "getUserRoles",
                          "listOwnMountGrants", "listMounts"} \cup NamespaceRoutes
      BY <1>4, <2>5 DEF ReadErr
    <2> QED BY <2>1, <2>2, <2>3, <2>4, <2>5
  <1> QED BY <1>1, <1>3, <1>4 DEF Perform, Show

-----------------------------------------------------------------------------
(* Failures *)

\* No scope of a route that reads its caller through the pointer is due to
\* nobody, in either mode.
LEMMA NobodyIsDereferenced ==
    ASSUME NEW r \in Handlers, HandlerInv(r), pc[r] = "act"
    PROVE  ~NilDereference(r)
  <1> DEFINE op == call[r].op
  <1> SUFFICES ASSUME op \in DereferencesCaller, caller[r] = None
               PROVE  FALSE
    BY DEF NilDereference
  <1>1. RouteDue(seen[r], call[r], caller[r])
    BY DEF HandlerInv, DueInv, Checked
  <1>2. op # Documentation
    BY DEF DereferencesCaller, AccountRoutes, Documentation
  <1>3. CASE op \in NamespaceRoutes
    <2>1. op \in {"listNamespaceRoles", "setNamespaceRole", "removeNamespaceRole"}
      BY <1>3 DEF DereferencesCaller, AccountRoutes, NamespaceRoutes
    <2>2. NamespaceScopeOf(op, FALSE) \in RoleScopes
      BY <2>1 DEF NamespaceScopeOf, SelfScope, OtherScope, RoleScopes
    <2>3. \/ NamespaceScopeOf(op, FALSE) \in AnonymousNamespaceScopes
          \/ NamespaceScopeOf(op, FALSE) \in UnauthenticatedNamespaceScopes
      <3>1. NamespaceAllowed(seen[r], call[r].ns, None, NamespaceScopeOf(op, FALSE))
        BY <1>1, <1>2, <1>3 DEF RouteDue
      <3> QED BY <3>1 DEF NamespaceAllowed
    <2> QED BY <2>2, <2>3
         DEF AnonymousNamespaceScopes, UnauthenticatedNamespaceScopes, RoleScopes
  <1>4. CASE op \notin NamespaceRoutes
    <2>1. op \in AccountRoutes
      BY <1>4 DEF DereferencesCaller, NamespaceRoutes
    <2>2. UserAllowed(seen[r], None, UserScopeOf(op))
      BY <1>1, <1>2, <1>4 DEF RouteDue
    <2>3. UserScopeOf(op) \in AnonymousUserScopes \cup UnauthenticatedUserScopes
      BY <2>2 DEF UserAllowed
    <2> QED BY <2>1, <2>3 DEF UserScopeOf, RenamedScope, AccountRoutes,
         AnonymousUserScopes, UnauthenticatedUserScopes
  <1> QED BY <1>3, <1>4

LEMMA BadInputs ==
    ASSUME RequestsTypeOK, NEW r \in Handlers, HandlerInv(r), BadInput(r)
    PROVE  Finishes(r)
  <1>1. pc[r] = "act" /\ call[r].op \in AllRoutes
    BY DEF BadInput, HandlerInv, RouteInv, InFlight
  <1>2. PICK code \in CodesOf(InputErrors, call[r].op) : Fail(r, code)
    BY <1>1, NobodyIsDereferenced DEF BadInput
  <1> QED BY <1>1, <1>2, InputErrorsDeclared, RefusalFinishes

LEMMA BackendFailures ==
    ASSUME RequestsTypeOK, NEW r \in Handlers, HandlerInv(r), BackendFails(r)
    PROVE  InFlight(r) /\ Finishes(r)
  <1>1. InFlight(r) /\ pc[r] # "document"
    <2>1. CallsBackend(r)
      BY DEF BackendFails
    <2>2. pc[r] # "document"
      BY <2>1 DEF CallsBackend
    <2>3. pc[r] \notin {"idle", "done"}
      BY <2>1 DEF CallsBackend, InFlight
    <2> QED BY <2>2, <2>3 DEF InFlight
  <1>2. call[r].op \in AllRoutes
    BY <1>1 DEF HandlerInv, RouteInv
  <1>3. Fail(r, FailureAnswer(r))
    BY DEF BackendFails
  <1>4. CASE pc[r] = "redact"
    <2>1. FailureAnswer(r) = "redacted"
      BY <1>4 DEF FailureAnswer
    <2> QED BY <1>1, <1>3, <1>4, <2>1, FailFinishes DEF Justified
  <1>5. CASE pc[r] # "redact"
    <2>1. FailureAnswer(r) \in {"Unauthorized", "DatabaseError"}
      BY <1>5 DEF FailureAnswer
    <2>2. FailureAnswer(r) \in CodesOf(Declared, call[r].op)
      BY <1>2, <2>1, UnauthorizedIsDeclared
    <2> QED BY <1>1, <1>2, <1>3, <2>2, RefusalFinishes
  <1> QED BY <1>1, <1>4, <1>5

LEMMA GeneratorFailures ==
    ASSUME RequestsTypeOK, NEW r \in Handlers, HandlerInv(r), GeneratorFails(r)
    PROVE  InFlight(r) /\ Finishes(r)
  <1>1. InFlight(r) /\ call[r].op \in AllRoutes
    BY DEF GeneratorFails, HandlerInv, RouteInv, InFlight
  <1>2. "BadIDGeneration" \in CodesOf(Declared, call[r].op)
    BY DEF GeneratorFails, CodesOf, Declared
  <1> QED BY <1>1, <1>2, RefusalFinishes DEF GeneratorFails

\* Every step of a handler.
LEMMA ServeOK ==
    ASSUME RequestsTypeOK, NEW r \in Handlers, HandlerInv(r), Serve(r)
    PROVE  StepOK(r)
  <1>1. CASE ServeDocumentation(r)
    <2>1. pc[r] = "document" /\ Fail(r, "nil") /\ InFlight(r)
      BY <1>1 DEF ServeDocumentation, InFlight
    <2> QED BY <2>1, FailFinishes, FinishesOK DEF Justified
  <1>2. CASE ResolveCaller(r)
    BY <1>2, ResolveNobodyOK, AuthenticateOK, LoadUserOK, ImpersonateOK DEF ResolveCaller
  <1>3. CASE CheckScope(r) \/ CheckGrant(r)
    BY <1>3, CheckScopeOK, CheckGrantOK
  <1>4. CASE Implement(r)
    <2>1. CASE SetNamespaceRoleAct(r) \/ ResolveMount(r) \/ ReadResource(r)
      BY <2>1, SetNamespaceRoleActs, ResolveMountOK, ReadResourceOK
    <2>2. CASE ~(SetNamespaceRoleAct(r) \/ ResolveMount(r) \/ ReadResource(r))
      <3>1. Finishes(r)
        BY <1>4, <2>2, CreateUserActs, DeleteUserActs, UpdateUserActs,
           SetUserPasswordActs, RevokeKeyActs, IssueKeyActs, CreateNamespaceActs,
           UpdateNamespaceActs, RereadRoleActs, RemoveNamespaceRoleActs, SetMountActs,
           DeleteMountActs, SetMountGrantActs, DeleteMountGrantActs, CreateResourceActs,
           CreateResourceBatchActs, UpdateResourceActs, RedactResourceActs, ListResourcesActs,
           ReadActs
           DEF Implement
      <3>2. pc[r] \in {"act", "reread", "redact"}
        BY <1>4, <2>2 DEF Implement, Acts, CreateUserAct, DeleteUserAct, UpdateUserAct,
           SetUserPasswordAct, RevokeKeyAct, IssueKeyAct, CreateNamespaceAct,
           UpdateNamespaceAct, RereadRole, RemoveNamespaceRoleAct, SetMountAct,
           DeleteMountAct, SetMountGrantAct, DeleteMountGrantAct, CreateResourceAct,
           CreateResourceBatchAct, UpdateResourceAct, RedactResource, ListResourcesAct, ReadAct
      <3>3. InFlight(r)
        BY <3>2 DEF InFlight
      <3> QED BY <3>1, <3>3, FinishesOK
    <2> QED BY <2>1, <2>2
  <1>5. CASE BadInput(r)
    <2>1. InFlight(r)
      BY <1>5 DEF BadInput, InFlight
    <2> QED BY <1>5, <2>1, BadInputs, FinishesOK
  <1>6. CASE BackendFails(r) \/ GeneratorFails(r)
    BY <1>6, BackendFailures, GeneratorFailures, FinishesOK
  <1> QED BY <1>1, <1>2, <1>3, <1>4, <1>5, <1>6 DEF Serve, Proceed

-----------------------------------------------------------------------------
(* The invariant *)

LEMMA StoredTypes ==
    ASSUME TypeOK, Stored
    PROVE  TypeOK'
  <1>1. CASE UNCHANGED vars
    BY <1>1 DEF TypeOK, vars
  <1>2. CASE Next
    BY <1>2, UserStepType, KeyStepType, NamespaceStepType, ResourceStepType DEF Next
  <1> QED BY <1>1, <1>2 DEF Stored

\* A new request is known by nothing but its call.
LEMMA ReceiveOK ==
    ASSUME RequestsTypeOK, NEW r \in Handlers, HandlerInv(r), Receive(r)
    PROVE  /\ HandlerInv(r)' /\ LocalTypeOK'
           /\ \A q \in Handlers : q # r => Rests(q)
           /\ Stored
  <1>1. LocalTypeOK
    BY TypeParts
  <1>2. PICK c \in Calls :
            /\ call' = [call EXCEPT ![r] = c]
            /\ pc' = [pc EXCEPT ![r] =
                         IF c.op = Documentation THEN "document" ELSE "resolve"]
    BY DEF Receive
  <1>3. Witnessed = [q \in Handlers |-> Witnessed[q]]
    BY DEF Witnessed
  <1>4. seen' = [Witnessed EXCEPT ![r] = NoFacts]
    BY DEF Receive
  <1>5. /\ call'[r] = c /\ caller'[r] = None /\ place'[r] = None /\ result'[r] = None
        /\ pc'[r] = IF c.op = Documentation THEN "document" ELSE "resolve"
        /\ anonymous' = anonymous
    BY <1>1, <1>2 DEF Receive, LocalTypeOK
  <1>6. seen'[r] = NoFacts /\ \A q \in Handlers : q # r => seen'[q] = Witnessed[q]
    BY <1>3, <1>4
  <1>7. \A q \in Handlers : q # r => Rests(q)
    BY <1>1, <1>2, <1>5, <1>6 DEF Receive, LocalTypeOK, Rests
  <1>8. HandlerInv(r)'
    <2>1. pc'[r] \in {"document", "resolve"} /\ (pc'[r] = "document" <=> c.op = Documentation)
      BY <1>5
    <2>2. ModeInv(r)'
      BY <1>6, <2>1 DEF ModeInv, NoFacts, Resolved, Checked, Loading
    <2>3. c.op = Documentation \/ c.op \in AllRoutes
      BY OpShape
    <2>4. RouteInv(r)'
      BY <1>5, <2>1, <2>3 DEF RouteInv
    <2>5. CallerInv(r)'
      BY <1>5, <2>1 DEF CallerInv, Resolved, Checked, Loading, Succeeded
    <2>6. DueInv(r)' /\ CodeInv(r)'
      BY <2>1 DEF DueInv, CodeInv, Checked, Succeeded
    <2> QED BY <2>2, <2>4, <2>5, <2>6 DEF HandlerInv
  <1>9. LocalTypeOK'
    <2>1. pc' \in [Handlers -> Stages] /\ call' \in [Handlers -> Optional(Calls)]
      BY <1>1, <1>2 DEF LocalTypeOK, Stages, Optional
    <2>2. /\ caller' \in [Handlers -> Callers]
          /\ place' \in [Handlers -> Optional(NamespaceIDs)]
          /\ result' \in [Handlers -> Optional(ResultCodes)]
      BY <1>1 DEF Receive, LocalTypeOK, Callers, Optional
    <2>3. received' \in 0..MaxRequests
      <3>1. received \in Nat /\ MaxRequests \in Nat
        BY <1>1, RequestsAssumption DEF LocalTypeOK
      <3> QED BY <3>1 DEF Receive
    <2> QED BY <1>1, <2>1, <2>2, <2>3 DEF Receive, LocalTypeOK
  <1> QED BY <1>7, <1>8, <1>9 DEF Receive, Stored

\* Nobody's request moves.
LEMMA AllRest ==
    ASSUME RequestsTypeOK, UNCHANGED requestVars, seen' = Witnessed,
           \/ anonymous' = anonymous
           \/ \A q \in Handlers : ~InFlight(q)
    PROVE  \A q \in Handlers : Rests(q)
  BY DEF requestVars, Rests

LEMMA RequestsInvInit == TypeOK /\ RequestsInit => RequestsInv
  <1> SUFFICES ASSUME TypeOK, RequestsInit
               PROVE  RequestsInv
    OBVIOUS
  <1>1. LocalTypeOK
    <2>1. received \in 0..MaxRequests /\ events \in 0..MaxEvents
      BY RequestsAssumption DEF RequestsInit
    <2> QED BY <2>1 DEF LocalTypeOK, RequestsInit, Stages, Optional, Callers
  <1>2. ASSUME NEW r \in Handlers
        PROVE  HandlerInv(r)
    <2>1. pc[r] = "idle"
      BY DEF RequestsInit
    <2> QED BY <2>1 DEF HandlerInv, ModeInv, RouteInv, CallerInv, DueInv, CodeInv,
         InFlight, Resolved, Checked, Loading, Succeeded
  <1> QED BY <1>1, <1>2, TypeParts DEF RequestsInv

LEMMA RequestsInvStep == RequestsInv /\ [RequestsNext]_allVars => RequestsInv'
  <1> SUFFICES ASSUME RequestsInv, [RequestsNext]_allVars
               PROVE  RequestsInv'
    OBVIOUS
  <1>1. RequestsTypeOK /\ TypeOK /\ LocalTypeOK /\ \A q \in Handlers : HandlerInv(q)
    BY TypeParts DEF RequestsInv
  <1>2. TypeOK' /\ LocalTypeOK' => RequestsTypeOK'
    BY DEF RequestsTypeOK, LocalTypeOK, Stages, ResultCodes
  <1>3. ASSUME NEW r \in Handlers, HandlerInv(r)', LocalTypeOK', Stored,
               \A q \in Handlers : q # r => Rests(q)
        PROVE  RequestsInv'
    <2>1. TypeOK'
      BY <1>1, <1>3, StoredTypes
    <2>2. ASSUME NEW q \in Handlers PROVE HandlerInv(q)'
      BY <1>1, <1>3, RestKeeps
    <2> QED BY <1>2, <1>3, <2>1, <2>2 DEF RequestsInv
  <1>4. ASSUME NEW r \in Handlers, Receive(r)
        PROVE  RequestsInv'
    BY <1>1, <1>3, <1>4, ReceiveOK
  <1>5. ASSUME NEW r \in Handlers, Serve(r)
        PROVE  RequestsInv'
    BY <1>1, <1>3, <1>5, ServeOK DEF StepOK
  <1>6. ASSUME \A q \in Handlers : Rests(q), LocalTypeOK', Stored
        PROVE  RequestsInv'
    <2>1. TypeOK'
      BY <1>1, <1>6, StoredTypes
    <2>2. ASSUME NEW q \in Handlers PROVE HandlerInv(q)'
      BY <1>1, <1>6, RestKeeps
    <2> QED BY <1>2, <1>6, <2>1, <2>2 DEF RequestsInv
  <1>7. CASE RequestOptions
    <2>1. LocalTypeOK'
      <3>1. events' \in 0..MaxEvents
        BY <1>1, <1>7, RequestsAssumption DEF RequestOptions, LocalTypeOK
      <3> QED BY <1>1, <1>7, <3>1 DEF RequestOptions, LocalTypeOK, requestVars
    <2>2. \A q \in Handlers : Rests(q)
      BY <1>1, <1>7, AllRest DEF RequestOptions
    <2> QED BY <1>6, <1>7, <2>1, <2>2 DEF RequestOptions, Stored
  <1>8. CASE ApplyOptions
    <2>1. LocalTypeOK'
      BY <1>1, <1>8 DEF ApplyOptions, LocalTypeOK, requestVars
    <2>2. \A q \in Handlers : Rests(q)
      BY <1>1, <1>8, AllRest DEF ApplyOptions
    <2> QED BY <1>6, <1>8, <2>1, <2>2 DEF ApplyOptions, Stored
  <1>9. CASE Others
    <2>1. LocalTypeOK'
      <3>1. events' \in 0..MaxEvents
        BY <1>1, <1>9, RequestsAssumption DEF Others, LocalTypeOK
      <3> QED BY <1>1, <1>9, <3>1 DEF Others, LocalTypeOK, requestVars
    <2>2. \A q \in Handlers : Rests(q)
      BY <1>1, <1>9, AllRest DEF Others
    <2> QED BY <1>6, <1>9, <2>1, <2>2 DEF Others, Stored
  <1>10. CASE Tick
    <2>1. LocalTypeOK'
      BY <1>1, <1>10 DEF Tick, LocalTypeOK, requestVars
    <2>2. \A q \in Handlers : Rests(q)
      BY <1>1, <1>10, AllRest DEF Tick
    <2> QED BY <1>6, <1>10, <2>1, <2>2 DEF Tick, Stored
  <1>11. CASE UNCHANGED allVars
    <2>1. UNCHANGED <<vars, pc, call, caller, place, result, anonymous, waiting, clock,
                      received, events, seen>>
      BY <1>11 DEF allVars, requestVars
    <2>2. TypeOK' /\ LocalTypeOK'
      BY <1>1, <2>1 DEF TypeOK, LocalTypeOK, vars
    <2>3. ASSUME NEW q \in Handlers PROVE HandlerInv(q)'
      BY <1>1, <2>1 DEF HandlerInv, ModeInv, RouteInv, CallerInv, DueInv, CodeInv,
         InFlight, Where, Succeeded
    <2> QED BY <1>2, <2>2, <2>3 DEF RequestsInv
  <1> QED BY <1>4, <1>5, <1>7, <1>8, <1>9, <1>10, <1>11 DEF RequestsNext

-----------------------------------------------------------------------------
(* What the invariant means *)

\* The caller with everything that was true of it during the request.
As(r) ==
    IF caller[r] = None THEN None
    ELSE [username  |-> caller[r].username,
          superuser |-> caller[r].username \in seen[r].supers,
          limits    |-> caller[r].limits]

LEMMA AsShape ==
    ASSUME RequestsTypeOK, NEW r \in Handlers, caller[r] # None
    PROVE  /\ As(r) # None
           /\ As(r).username = caller[r].username
           /\ As(r).superuser <=> caller[r].username \in seen[r].supers
           /\ As(r).limits = caller[r].limits
  <1>1. caller[r] \in CallerRecord
    BY DEF RequestsTypeOK, Callers, Optional
  <1>2. As(r) = [username  |-> caller[r].username,
                 superuser |-> caller[r].username \in seen[r].supers,
                 limits    |-> caller[r].limits]
    BY DEF As
  <1>3. (caller[r].username \in seen[r].supers) \in BOOLEAN
    OBVIOUS
  <1>4. As(r) \in CallerRecord
    BY <1>1, <1>2, <1>3 DEF CallerRecord
  <1>5. As(r).superuser = (caller[r].username \in seen[r].supers)
    BY <1>2
  <1>6. As(r).superuser <=> caller[r].username \in seen[r].supers
    BY <1>5, Zenon
  <1>7. As(r).username = caller[r].username /\ As(r).limits = caller[r].limits
    BY <1>2
  <1> QED BY <1>4, <1>6, <1>7, CallersAreSomebody

LEMMA AllowsUserMeans ==
    ASSUME NEW limits, NEW scope, AllowsUserScope(limits, scope)
    PROVE  \/ limits = None
           \/ limits.user = {} /\ limits.ns = {}
           \/ scope \in limits.user
  BY DEF AllowsUserScope, HasUserScope, Has

LEMMA AllowsNamespaceMeans ==
    ASSUME NEW limits, NEW n, NEW scope, AllowsNamespaceScope(limits, n, scope)
    PROVE  \/ limits = None
           \/ limits.user = {} /\ limits.ns = {}
           \/ <<n, scope>> \in limits.ns
  BY DEF AllowsNamespaceScope, HasNamespaceScope, Has

\* What was allowed is what the rules say is due.
LEMMA UserDue ==
    ASSUME RequestsTypeOK, NEW r \in Handlers, NEW scope,
           UserAllowed(seen[r], caller[r], scope)
    PROVE  UserScopeDue(r, As(r), scope)
  <1>1. CASE caller[r] = None
    BY <1>1 DEF UserAllowed, UserScopeDue, As
  <1>2. CASE caller[r] # None
    BY <1>2, AsShape, AllowsUserMeans DEF UserAllowed, UserScopeDue
  <1> QED BY <1>1, <1>2

LEMMA RankOfRole ==
    ASSUME NEW scope, NEW role \in Roles, LessThan(MinRole(scope), role)
    PROVE  Rank[role] >= Rank[MinRole(scope)]
  <1>1. MinRole(scope) \in Roles
    BY DEF MinRole, Roles
  <1>2. \A x \in Roles : Rank[x] \in Nat
    BY DEF Roles, Rank
  <1> QED BY <1>1, <1>2 DEF LessThan

LEMMA NamespaceDue ==
    ASSUME RequestsTypeOK, NEW r \in Handlers, NEW scope,
           NamespaceAllowed(seen[r], Where(r), caller[r], scope)
    PROVE  NamespaceScopeDue(r, As(r), scope)
  <1>1. CASE caller[r] = None
    BY <1>1 DEF NamespaceAllowed, NamespaceScopeDue, As
  <1>2. CASE caller[r] # None
    <2>1. Ranked(seen[r], caller[r].username, scope) =>
              /\ scope \notin SuperuserNamespaceScopes
              /\ \E role \in Roles :
                     /\ <<caller[r].username, role>> \in seen[r].ranks
                     /\ Rank[role] >= Rank[MinRole(scope)]
      BY RankOfRole DEF Ranked
    <2>2. /\ TRUE \notin seen[r].modes
          /\ \/ caller[r].username \in seen[r].supers
             \/ Ranked(seen[r], caller[r].username, scope)
          /\ AllowsNamespaceScope(caller[r].limits, Where(r), scope)
      BY <1>2 DEF NamespaceAllowed
    <2> QED BY <1>2, <2>1, <2>2, AsShape, AllowsNamespaceMeans DEF NamespaceScopeDue
  <1> QED BY <1>1, <1>2

\* The caller is one the request may act as.
LEMMA ActorFound ==
    ASSUME RequestsTypeOK, NEW r \in Handlers,
           Acting(seen[r], call[r], caller[r]),
           caller[r] # None => TRUE \notin seen[r].modes
    PROVE  As(r) \in Actors(r)
  <1>1. CASE caller[r] = None
    BY <1>1 DEF Acting, Actors, Principals, As
  <1>2. CASE caller[r] # None /\ call[r].head.as = None
    <2>1. PICK o \in seen[r].opened :
              o.username = caller[r].username /\ o.limits = caller[r].limits
      BY <1>2 DEF Acting, Vouched
    <2>2. As(r) = [username  |-> o.username, superuser |-> o.username \in seen[r].supers,
                   limits    |-> o.limits]
      BY <1>2, <2>1 DEF As
    <2> QED BY <1>2, <2>1, <2>2 DEF Acting, Actors, Principals
  <1>3. CASE caller[r] # None /\ call[r].head.as # None
    <2>1. /\ call[r].head.cred.kind # "empty" /\ caller[r].username = call[r].head.as
          /\ caller[r].limits = None /\ Impersonator(seen[r])
      BY <1>3 DEF Acting
    <2>2. PICK o \in seen[r].opened :
              /\ o.username \in Usernames \cap seen[r].supers
              /\ o.limits \in Optional(KeyScopes)
              /\ AllowsUserScope(o.limits, "impersonate")
      BY <2>1 DEF Impersonator
    <2> DEFINE c == [username  |-> o.username, superuser |-> o.username \in seen[r].supers,
                     limits    |-> o.limits]
    <2>3. c \in Principals(r)
      BY <2>1, <2>2 DEF Principals
    <2>4. c \in CallerRecord
      <3>1. (o.username \in seen[r].supers) \in BOOLEAN
        OBVIOUS
      <3> QED BY <2>2, <3>1 DEF CallerRecord
    <2>5. c.superuser /\ c.limits = o.limits
      BY <2>2
    <2> HIDE DEF c
    <2>6. UserScopeDue(r, c, "impersonate")
      BY <1>3, <2>2, <2>4, <2>5, CallersAreSomebody, AllowsUserMeans DEF UserScopeDue
    <2>7. As(r) = [username |-> call[r].head.as,
                   superuser |-> call[r].head.as \in seen[r].supers, limits |-> None]
      BY <1>3, <2>1 DEF As
    <2> QED BY <1>3, <2>1, <2>3, <2>6, <2>7 DEF Actors
  <1> QED BY <1>1, <1>2, <1>3

\* Nobody but the anonymous caller is due anything in anonymous mode.
LEMMA DueMode ==
    ASSUME NEW s, NEW k \in Calls, NEW c, c # None, RouteDue(s, k, c), Acting(s, k, c)
    PROVE  TRUE \notin s.modes
  <1>1. CASE k.op = Documentation
    BY <1>1, CallShape DEF Acting, NoHeaders
  <1>2. CASE k.op # Documentation
    BY <1>2 DEF RouteDue, NamespaceAllowed, UserAllowed
  <1> QED BY <1>1, <1>2

LEMMA AnsweredIsAuthorized == RequestsInv => AnsweredMeansAuthorized
  <1> SUFFICES ASSUME RequestsInv, NEW r \in Handlers,
                      pc[r] = "reread" \/ Succeeded(r)
               PROVE  \E c \in Actors(r) : Due(r, c)
    BY DEF AnsweredMeansAuthorized, Succeeded
  <1>1. RequestsTypeOK /\ HandlerInv(r)
    BY DEF RequestsInv
  <1>2. /\ Acting(seen[r], call[r], caller[r])
        /\ RouteDue(seen[r], call[r], caller[r])
        /\ GrantDue(seen[r], call[r], caller[r])
        /\ call[r] \in Calls
    BY <1>1 DEF HandlerInv, CallerInv, DueInv, RouteInv, Checked, Resolved, Succeeded
  <1>3. As(r) \in Actors(r)
    BY <1>1, <1>2, ActorFound, DueMode
  <1>4. Due(r, As(r))
    <2> DEFINE op == call[r].op
               self == caller[r] # None /\ call[r].user = caller[r].username
    <2>1. CASE op = Documentation
      BY <2>1 DEF Due
    <2>2. CASE op # Documentation /\ op \in NamespaceRoutes
      <3>1. Where(r) = call[r].ns
        BY <1>2, <2>2, CallShape, StoreAssumption DEF Where
      <3>2. NamespaceAllowed(seen[r], Where(r), caller[r], NamespaceScopeOf(op, self))
        BY <1>2, <2>2, <3>1 DEF RouteDue
      <3>3. NamespaceScopeDue(r, As(r), NamespaceScopeOf(op, self))
        BY <1>1, <3>2, NamespaceDue
      <3>4. self <=> As(r) # None /\ call[r].user = As(r).username
        <4>1. CASE caller[r] = None
          BY <4>1 DEF As
        <4>2. CASE caller[r] # None
          BY <1>1, <4>2, AsShape
        <4> QED BY <4>1, <4>2
      <3> QED BY <2>2, <3>3, <3>4 DEF Due
    <2>3. CASE op # Documentation /\ op \notin NamespaceRoutes
      <3>1. UserScopeDue(r, As(r), UserScopeOf(op))
        BY <1>1, <1>2, <2>3, UserDue DEF RouteDue
      <3>2. op \in GrantRoutes /\ As(r) # None =>
                As(r).superuser \/ As(r).username \in seen[r].granted
        <4>1. CASE caller[r] = None
          BY <4>1 DEF As
        <4>2. CASE caller[r] # None
          BY <1>1, <1>2, <4>2, AsShape DEF GrantDue
        <4> QED BY <4>1, <4>2
      <3> QED BY <2>3, <3>1, <3>2 DEF Due
    <2> QED BY <2>1, <2>2, <2>3
  <1> QED BY <1>3, <1>4

\* The scopes of editors are due to the same callers, but for their keys.
LEMMA EditorsSeeDeleted ==
    ASSUME NEW r \in Handlers, NEW c, c # None => Unrestricted(c) # None,
           NEW scope \in EditorScopes, NamespaceScopeDue(r, c, scope)
    PROVE  NamespaceScopeDue(r, Unrestricted(c), "seeDeletedResource")
  <1>1. MinRole(scope) = "editor" /\ MinRole("seeDeletedResource") = "editor"
    <2>1. ASSUME NEW s \in EditorScopes PROVE MinRole(s) = "editor"
      <3>1. s \notin ManagerScopes /\ s \notin ContributorScopes
        BY DEF EditorScopes, ManagerScopes, ContributorScopes
      <3> QED BY <3>1 DEF MinRole
    <2> QED BY <2>1 DEF EditorScopes
  <1>2. /\ "seeDeletedResource" \notin SuperuserNamespaceScopes
        /\ "seeDeletedResource" \in AnonymousNamespaceScopes
        /\ scope \notin UnauthenticatedNamespaceScopes
    BY DEF EditorScopes, SuperuserNamespaceScopes, AnonymousNamespaceScopes,
       UnauthenticatedNamespaceScopes, NamespaceScopes, RoleScopes
  <1>3. CASE c = None
    BY <1>2, <1>3 DEF NamespaceScopeDue, Unrestricted
  <1>4. CASE c # None
    <2> DEFINE u == Unrestricted(c)
    <2>1. u = [username |-> c.username, superuser |-> c.superuser, limits |-> None]
      BY <1>4 DEF Unrestricted
    <2>2. u # None
      BY <1>4
    <2>3. u.username = c.username /\ u.superuser = c.superuser /\ u.limits = None
      BY <2>1
    <2> HIDE DEF u
    <2>4. NamespaceScopeDue(r, u, "seeDeletedResource")
      BY <1>1, <1>2, <1>4, <2>2, <2>3 DEF NamespaceScopeDue
    <2> QED BY <2>4 DEF u
  <1> QED BY <1>3, <1>4

\* Without its restriction the caller is still somebody.
LEMMA StillSomebody ==
    ASSUME RequestsTypeOK, NEW r \in Handlers, As(r) # None
    PROVE  Unrestricted(As(r)) # None
  <1>1. caller[r] # None
    BY DEF As
  <1>2. caller[r] \in CallerRecord
    BY <1>1 DEF RequestsTypeOK, Callers, Optional
  <1>3. /\ As(r).username = caller[r].username
        /\ As(r).superuser = (caller[r].username \in seen[r].supers)
    BY <1>1 DEF As
  <1>4. Unrestricted(As(r)) = [username |-> As(r).username, superuser |-> As(r).superuser,
                               limits |-> None]
    BY DEF Unrestricted
  <1>5. Unrestricted(As(r)) \in CallerRecord
    BY <1>2, <1>3, <1>4 DEF CallerRecord, Limits, Optional
  <1> QED BY <1>5, CallersAreSomebody

LEMMA DeletedIsHidden == RequestsInv => DeletedStaysHidden
  <1> SUFFICES ASSUME RequestsInv, NEW r \in Handlers, pc[r] = "done", result[r] = "deleted"
               PROVE  \E c \in Actors(r) :
                          /\ NamespaceScopeDue(r, Unrestricted(c), "seeDeletedResource")
                          /\ \/ call[r].op \in ShowsStored
                             \/ NamespaceScopeDue(r, c, "seeDeletedResource")
    BY DEF DeletedStaysHidden
  <1>1. RequestsTypeOK /\ HandlerInv(r)
    BY DEF RequestsInv
  <1>2. Succeeded(r)
    BY DEF Succeeded, Answered
  <1>3. /\ Acting(seen[r], call[r], caller[r])
        /\ RouteDue(seen[r], call[r], caller[r])
        /\ call[r].op \notin ShowsStored =>
               NamespaceAllowed(seen[r], Where(r), caller[r], "seeDeletedResource")
        /\ call[r] \in Calls
    BY <1>1, <1>2 DEF HandlerInv, CallerInv, DueInv, RouteInv
  <1>4. As(r) \in Actors(r)
    BY <1>1, <1>3, ActorFound, DueMode
  <1>5. CASE call[r].op \notin ShowsStored
    <2>1. NamespaceScopeDue(r, As(r), "seeDeletedResource")
      BY <1>1, <1>3, <1>5, NamespaceDue
    <2> QED BY <1>1, <1>4, <2>1, EditorsSeeDeleted, StillSomebody DEF EditorScopes
  <1>6. CASE call[r].op \in ShowsStored
    <2>1. /\ call[r].op \in NamespaceRoutes /\ call[r].op # Documentation
          /\ call[r].op \in EditorScopes
          /\ \A self : NamespaceScopeOf(call[r].op, self) = call[r].op
      BY <1>6 DEF ShowsStored, NamespaceRoutes, Documentation, EditorScopes,
         NamespaceScopeOf, SelfScope
    <2>2. Where(r) = call[r].ns
      BY <1>3, <2>1, CallShape, StoreAssumption DEF Where
    <2>3. NamespaceScopeDue(r, As(r), call[r].op)
      BY <1>1, <1>3, <2>1, <2>2, NamespaceDue DEF RouteDue
    <2> QED BY <1>1, <1>4, <1>6, <2>1, <2>3, EditorsSeeDeleted, StillSomebody
  <1> QED BY <1>5, <1>6

LEMMA PanicsKnown == RequestsInv => PanicsAreKnown
  BY DEF RequestsInv, HandlerInv, CodeInv, PanicsAreKnown, Panics

LEMMA SuperuserKept == RequestsInv /\ [RequestsNext]_allVars => [KeepsSuperuser]_allVars
  <1> SUFFICES ASSUME RequestsInv, [RequestsNext]_allVars, NEW r \in Handlers,
                      pc[r] = "act", pc'[r] = "done", caller[r] # None,
                      Superuser(caller[r].username)
               PROVE  \E u \in Usernames : Superuser(u)'
    BY DEF KeepsSuperuser
  <1>1. RequestsTypeOK /\ LocalTypeOK /\ \A q \in Handlers : HandlerInv(q)
    BY TypeParts DEF RequestsInv
  <1>2. Serve(r)
    <2>1. pc' # pc
      OBVIOUS
    <2>2. ASSUME NEW q \in Handlers, Receive(q)
          PROVE  FALSE
      <3>1. CASE q = r
        BY <2>2, <3>1 DEF Receive, InFlight
      <3>2. CASE q # r
        BY <1>1, <2>2, <3>2, ReceiveOK DEF Rests
      <3> QED BY <3>1, <3>2
    <2>3. ASSUME NEW q \in Handlers, q # r, Serve(q)
          PROVE  FALSE
      BY <1>1, <2>3, ServeOK DEF StepOK, Rests
    <2> QED BY <2>1, <2>2, <2>3 DEF RequestsNext, RequestOptions, ApplyOptions, Others,
         Tick, requestVars, allVars
  <1>3. KeepsOwn(r)
    BY <1>1, <1>2, ServeOK DEF StepOK
  <1>4. caller[r].username \in Usernames
    BY <1>1 DEF RequestsTypeOK, Callers, Optional, CallerRecord
  <1> QED BY <1>3, <1>4 DEF KeepsOwn

-----------------------------------------------------------------------------
(* The theorems, over every well-typed store *)

LEMMA RequestsInvariant == AnyStoreSpec => []RequestsInv
  BY RequestsInvInit, RequestsInvStep, PTL DEF AnyStoreSpec

\* A store filled from empty is well-typed to begin with.
LEMMA FromEmpty == RequestsSpec => AnyStoreSpec
  <1>1. Init => TypeOK
    BY DEF Init, TypeOK, Optional, NoResources, Roles
  <1> QED BY <1>1, PTL DEF RequestsSpec, AnyStoreSpec

\* Callers, calls and answers keep their types through every stage of the
\* pipeline, over a store that keeps its own.
THEOREM RequestsTypeCorrect == AnyStoreSpec => []RequestsTypeOK
  <1>1. RequestsInv => RequestsTypeOK
    BY DEF RequestsInv
  <1> QED BY <1>1, RequestsInvariant, PTL

\* However many requests are served at once, and whatever others write in
\* between, a request is answered and the store changed for it only if its
\* credentials opened, during the request, an account that was due the route.
THEOREM AnswersAreAuthorized == AnyStoreSpec => []AnsweredMeansAuthorized
  BY RequestsInvariant, AnsweredIsAuthorized, PTL

\* Every route that can show the content of a deleted resource shows it only
\* to editors of the namespace, to superusers and in anonymous mode; those
\* that read a single resource, only with a key that allows it, in the
\* namespace the mount had led to.
THEOREM DeletedIsShownToFew == AnyStoreSpec => []DeletedStaysHidden
  BY RequestsInvariant, DeletedIsHidden, PTL

\* Apart from the two known cases, every error a handler returns is declared
\* by its route, and no handler dereferences a caller that is nil.
THEOREM HandlersReturnDeclaredCodes == AnyStoreSpec => []PanicsAreKnown
  BY RequestsInvariant, PanicsKnown, PTL

\* A request of somebody who is a superuser when it writes leaves a superuser.
THEOREM RequestsLeaveASuperuser == AnyStoreSpec => LastSuperuserStays
  BY RequestsInvariant, SuperuserKept, PTL DEF AnyStoreSpec, LastSuperuserStays

\* The same for a server whose store starts empty.
THEOREM RequestsFromEmpty ==
    RequestsSpec => /\ [](RequestsTypeOK /\ AnsweredMeansAuthorized)
                    /\ [](DeletedStaysHidden /\ PanicsAreKnown)
                    /\ LastSuperuserStays
  BY FromEmpty, RequestsTypeCorrect, AnswersAreAuthorized, DeletedIsShownToFew,
     HandlersReturnDeclaredCodes, RequestsLeaveASuperuser, PTL

=============================================================================
