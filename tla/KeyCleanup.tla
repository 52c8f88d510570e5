----------------------------- MODULE KeyCleanup -----------------------------
(***************************************************************************)
(* The background process that revokes expired API keys: the loop of       *)
(* server.doBackground and the pass of service.CleanupExpiredAPIKeys over  *)
(* the Store, a page of users and a page of keys at a time, while other    *)
(* requests create users, issue and revoke keys and delete accounts.       *)
(* Every backend call is a step of its own.                                *)
(*                                                                         *)
(* Names and key ids are numbers: only their order, by which the lists are *)
(* sorted, matters.  A key id is never issued twice (a random UUID) and    *)
(* neither is a secret, which is the number of its key here.               *)
(* Anonymous mode, in which a pass does nothing, is left out.              *)
(***************************************************************************)
EXTENDS Store, Pages

CONSTANTS
    PageLimit,  \* Limits.InternalPageLimit()
    MaxClock,   \* bound: last time on the clock
    MaxEvents   \* bound: how often users, keys or the backend interfere

ASSUME CleanupAssumption ==
    /\ Usernames \subseteq Nat /\ KeyIDs \subseteq Nat
    /\ KeyIDs \subseteq Suffixes
    /\ PageLimit \in Nat \ {0}
    /\ MaxClock \in Nat \ {0} /\ MaxEvents \in Nat
    /\ Times = 1..MaxClock

VARIABLES
    pc,          \* what the background goroutine does next
    userOffset,  \* offset of the next page of users
    userPage,    \* the users of the page still to be cleaned, in order
    lastUsers,   \* no page of users follows this one
    keyOffset,   \* offset of the next page of keys of Head(userPage)
    keyPage,     \* the keys of the page still to be examined, in order
    lastKeys,    \* no page of keys follows, as far as this one was examined
    passNow,     \* the pass's reading of the clock, None before it is needed
    outcome,     \* how the last pass ended: "none", "ok" or "error"
    cancelled,   \* the background context has been cancelled
    clock,
    pending,     \* a request between the check of ExpiresAt and CreateKey
    used,        \* key ids issued so far
    events,      \* interference so far
    due,         \* keys that had expired when the pass began
    disturbed    \* an account or key was deleted by somebody else meanwhile

passVars == <<userOffset, userPage, lastUsers, keyOffset, keyPage, lastKeys>>
ghostVars == <<due, disturbed>>
worldVars == <<clock, pending, used, events>>
cleanupVars == <<vars, pc, passVars, passNow, outcome, cancelled, worldVars, ghostVars>>

KeyItem == [id : KeyIDs, expiresAt : Optional(Times)]

\* The local variables of doBackground and CleanupExpiredAPIKeys have their
\* types, over a well-typed store.
CleanupTypeOK ==
    /\ TypeOK
    /\ pc \in {"start", "wait", "users", "keys", "check", "stopped"}
    /\ userOffset \in Nat /\ keyOffset \in Nat
    /\ userPage \in Seq(Usernames) /\ keyPage \in Seq(KeyItem)
    /\ lastUsers \in BOOLEAN /\ lastKeys \in BOOLEAN
    /\ passNow \in Optional(Times)
    /\ outcome \in {"none", "ok", "error"}
    /\ cancelled \in BOOLEAN /\ disturbed \in BOOLEAN
    /\ clock \in Times
    /\ pending \in Optional([user : Usernames, expiresAt : Optional(Times)])
    /\ used \subseteq KeyIDs /\ events \in 0..MaxEvents
    /\ due \subseteq Usernames \X KeyIDs

CleanupInit ==
    /\ Init
    /\ pc = "start" /\ outcome = "none" /\ cancelled = FALSE
    /\ userOffset = 0 /\ userPage = <<>> /\ lastUsers = FALSE
    /\ keyOffset = 0 /\ keyPage = <<>> /\ lastKeys = FALSE
    /\ passNow = None
    /\ clock = 1 /\ pending = None /\ used = {} /\ events = 0
    /\ due = {} /\ disturbed = FALSE

-----------------------------------------------------------------------------
(* What the pass reads *)

AllUsers == {u \in Usernames : UserExists(u)}

KeysOf(u) == {k \in KeyIDs : KeyAt(u, k) # None}

\* The items of a page of keys.
KeyItems(u, ids) ==
    [i \in DOMAIN ids |-> [id |-> ids[i], expiresAt |-> KeyAt(u, ids[i]).expiresAt]]

\* sync.OnceValue: the clock is read for the first key that has an expiry.
Now(expiresAt) == IF passNow = None /\ expiresAt # None THEN clock ELSE passNow

\* Key k of user u is past its expiry.
Expired(u, k) ==
    /\ KeyAt(u, k) # None
    /\ KeyAt(u, k).expiresAt # None
    /\ KeyAt(u, k).expiresAt <= clock

-----------------------------------------------------------------------------
(* The background goroutine *)

\* Mutant of BeginPass: the ticker is never reset.
BeginPassOnce ==
    /\ pc = "start"
    /\ pc' = "users" /\ userOffset' = 0 /\ passNow' = None /\ outcome' = "none"
    /\ due' = {uk \in Usernames \X KeyIDs : Expired(uk[1], uk[2])}
    /\ disturbed' = FALSE
    /\ UNCHANGED <<vars, userPage, lastUsers, keyOffset, keyPage, lastKeys,
                   cancelled, worldVars>>

\* The first pass begins at once, a later one when the ticker fires; select
\* may see the ticker although the context is cancelled.
BeginPass ==
    /\ pc \in {"start", "wait"}
    /\ pc' = "users" /\ userOffset' = 0 /\ passNow' = None /\ outcome' = "none"
    /\ due' = {uk \in Usernames \X KeyIDs : Expired(uk[1], uk[2])}
    /\ disturbed' = FALSE
    /\ UNCHANGED <<vars, userPage, lastUsers, keyOffset, keyPage, lastKeys,
                   cancelled, worldVars>>

\* Mutant of Quit: the context is looked at before the first pass only.
QuitAtStart ==
    /\ pc = "start" /\ cancelled
    /\ pc' = "stopped"
    /\ UNCHANGED <<vars, passVars, passNow, outcome, cancelled, worldVars, ghostVars>>

Quit ==
    /\ pc = "wait" /\ cancelled
    /\ pc' = "stopped"
    /\ UNCHANGED <<vars, passVars, passNow, outcome, cancelled, worldVars, ghostVars>>

EndPass(result) == pc' = "wait" /\ outcome' = result

\* Each loop looks at the context first.
Cancelled ==
    /\ pc \in {"users", "keys", "check"} /\ cancelled
    /\ EndPass("error")
    /\ UNCHANGED <<vars, passVars, passNow, cancelled, worldVars, ghostVars>>

ListUsers ==
    /\ pc = "users" /\ ~cancelled
    /\ LET page == Page(Sorted(AllUsers), userOffset, PageLimit) IN
           IF page = <<>>
           THEN /\ EndPass("ok")
                /\ UNCHANGED <<userOffset, userPage, lastUsers, keyOffset>>
           ELSE /\ pc' = "keys" /\ UNCHANGED outcome
                /\ userPage' = page
                /\ userOffset' = userOffset + Len(page)
                /\ lastUsers' = (\/ userOffset + Len(page) >= Cardinality(AllUsers)
                                 \/ Len(page) < PageLimit)
                /\ keyOffset' = 0
    /\ UNCHANGED <<vars, keyPage, lastKeys, passNow, cancelled, worldVars, ghostVars>>

\* The keys of Head(userPage) are done.
NextUser ==
    /\ userPage' = Tail(userPage)
    /\ keyOffset' = 0
    /\ IF Tail(userPage) # <<>> THEN pc' = "keys" /\ UNCHANGED outcome
       ELSE IF lastUsers THEN EndPass("ok")
       ELSE pc' = "users" /\ UNCHANGED outcome

\* A user deleted since the page was listed ends the pass with an error.
ListKeys ==
    /\ pc = "keys" /\ ~cancelled
    /\ IF UserErr(Head(userPage)) # "nil"
       THEN EndPass("error") /\ UNCHANGED <<userPage, keyOffset, keyPage, lastKeys>>
       ELSE LET page == Page(Sorted(KeysOf(Head(userPage))), keyOffset, PageLimit) IN
            IF page = <<>> THEN NextUser /\ UNCHANGED <<keyPage, lastKeys>>
            ELSE /\ pc' = "check" /\ UNCHANGED <<userPage, keyOffset, outcome>>
                 /\ keyPage' = KeyItems(Head(userPage), page)
                 /\ lastKeys' = (Len(page) < PageLimit)
    /\ UNCHANGED <<vars, userOffset, lastUsers, passNow, cancelled, worldVars, ghostVars>>

\* What follows the last key of a page; last: the page was short and every
\* key of it is still valid.
AfterKey(last, offset) ==
    /\ keyPage' = Tail(keyPage)
    /\ lastKeys' = last
    /\ IF Tail(keyPage) # <<>>
       THEN keyOffset' = offset /\ UNCHANGED <<pc, userPage, outcome>>
       ELSE IF last THEN NextUser
       ELSE pc' = "keys" /\ keyOffset' = offset /\ UNCHANGED <<userPage, outcome>>

KeepKey ==
    LET item == Head(keyPage) IN
    /\ pc = "check" /\ ~cancelled
    /\ passNow' = Now(item.expiresAt)
    /\ Valid(item.expiresAt, Now(item.expiresAt))
    /\ AfterKey(lastKeys, keyOffset + 1)
    /\ UNCHANGED <<vars, userOffset, lastUsers, cancelled, worldVars, ghostVars>>

\* Mutants of OffsetAfterRevoke: the offset advances past a revoked key, or
\* makes up for it twice.
OffsetSkips == keyOffset + 1
OffsetBack == keyOffset - 1

\* A revoked key leaves the list, so the offset stays.
OffsetAfterRevoke == keyOffset

\* A key revoked, or a user deleted, since the page was listed ends the pass.
DropKey ==
    LET item == Head(keyPage) IN
    /\ pc = "check" /\ ~cancelled
    /\ passNow' = Now(item.expiresAt)
    /\ ~Valid(item.expiresAt, Now(item.expiresAt))
    /\ IF RevokeKeyErr(Head(userPage), item.id) = "nil"
       THEN RevokeKey(Head(userPage), item.id) /\ AfterKey(FALSE, OffsetAfterRevoke)
       ELSE /\ EndPass("error")
            /\ UNCHANGED <<vars, userPage, keyOffset, keyPage, lastKeys>>
    /\ UNCHANGED <<userOffset, lastUsers, cancelled, worldVars, ghostVars>>

Background ==
    BeginPass \/ Quit \/ Cancelled \/ ListUsers \/ ListKeys \/ KeepKey \/ DropKey

-----------------------------------------------------------------------------
(* Everybody else *)

Event == events < MaxEvents /\ events' = events + 1

goroutineVars == <<pc, passVars, passNow, outcome>>

BackendFails ==
    /\ pc \in {"users", "keys", "check"}
    /\ Event
    /\ EndPass("error")
    /\ UNCHANGED <<vars, passVars, passNow, cancelled, clock, pending, used, ghostVars>>

\* stopBackground, called once on shutdown.
Stop ==
    /\ ~cancelled
    /\ cancelled' = TRUE
    /\ UNCHANGED <<vars, goroutineVars, worldVars, ghostVars>>

Tick ==
    /\ clock < MaxClock
    /\ clock' = clock + 1
    /\ UNCHANGED <<vars, goroutineVars, cancelled, pending, used, events, ghostVars>>

\* IssueKey: the expiry is compared with the clock, the key is created later.
CheckIssue(u, expiresAt) ==
    /\ pending = None
    /\ expiresAt # None => expiresAt > clock
    /\ pending' = [user |-> u, expiresAt |-> expiresAt]
    /\ UNCHANGED <<vars, goroutineVars, cancelled, clock, used, events, ghostVars>>

\* issueAPIKey with a new id and secret, or its error for a missing user.
FinishIssue(k, prefix, scopes) ==
    /\ pending # None
    /\ k \notin used
    /\ IF UserExists(pending.user)
       THEN /\ CreateKey(pending.user, k, <<prefix, k>>, pending.expiresAt, scopes)
            /\ used' = used \cup {k}
       ELSE UNCHANGED <<vars, used>>
    /\ pending' = None
    /\ UNCHANGED <<goroutineVars, cancelled, clock, events, ghostVars>>

\* Another request adds or deletes an account or revokes a key.
OtherRequest ==
    /\ Event
    /\ \/ \E u \in Usernames : CreateUser(u, FALSE) /\ UNCHANGED disturbed
       \/ \E u \in Usernames : DeleteUser(u) /\ disturbed' = TRUE
       \/ \E u \in Usernames, k \in KeyIDs : RevokeKey(u, k) /\ disturbed' = TRUE
    /\ UNCHANGED <<goroutineVars, cancelled, clock, pending, used, due>>

Others ==
    \/ BackendFails \/ Stop \/ Tick \/ OtherRequest
    \/ \E u \in Usernames, t \in Optional(Times) : CheckIssue(u, t)
    \/ \E k \in KeyIDs, prefix \in Prefixes, g \in KeyScopes :
           FinishIssue(k, prefix, g)

CleanupNext == Background \/ Others

CleanupSpec == CleanupInit /\ [][CleanupNext]_cleanupVars

\* The goroutine keeps running and its ticker keeps firing; a select that
\* finds the context cancelled again and again takes that case in the end.
FairCleanupSpec ==
    CleanupSpec /\ WF_cleanupVars(Background) /\ SF_cleanupVars(Quit)

-----------------------------------------------------------------------------
(* Properties *)

\* A step of the background process revokes a key only if that very key has
\* expired, although it decides by a list and a clock it read earlier.
RevokesOnlyExpired ==
    [][\A u \in Usernames, k \in KeyIDs :
           KeyAt(u, k) # None /\ KeyAt(u, k)' = None /\ events' = events
               => Expired(u, k)]_cleanupVars

\* A pass that ends well has revoked every key that had expired when it
\* began, provided nobody else deleted keys or accounts meanwhile: issuing
\* keys and adding users makes the pages overlap and never leaves a gap.
PassIsComplete ==
    pc = "wait" /\ outcome = "ok" /\ ~disturbed =>
        \A uk \in due : KeyAt(uk[1], uk[2]) = None

\* The comment on cleanupExpiredKeysForUser says that deletions do not skip
\* entries, and that on CleanupExpiredAPIKeys that it lists every user's keys.
DeletionsSkipNothing ==
    pc = "wait" /\ outcome = "ok" =>
        \A uk \in due : KeyAt(uk[1], uk[2]) = None

\* An expired key is revoked in the end, however many passes fail, unless the
\* background process is stopped.
ExpiredKeysGo ==
    \A u \in Usernames, k \in KeyIDs :
        Expired(u, k) ~> KeyAt(u, k) = None \/ cancelled

\* Once the context is cancelled the background process comes to rest.
StopIsHeeded == cancelled ~> pc = "stopped"

=============================================================================
