------------------------------ MODULE Process ------------------------------
(***************************************************************************)
(* The life of the server processes: start, the creation of the first      *)
(* superuser, serving, and the shutdown a signal begins, for servers that  *)
(* share one database, may be killed at any point and are started again.   *)
(* Every backend call of the bootstrap is a step.                          *)
(*                                                                         *)
(* The database outlives the processes; the memory backend is the case of  *)
(* one process that is started once.  Of an account its kind, its bootstrap *)
(* keys and whether anybody can log in to it matter here, of requests that *)
(* they change these and that they, and goroutines they leave behind, call *)
(* the backend.  Timeouts may fire at any time.                            *)
(***************************************************************************)
EXTENDS Naturals, FiniteSets

CONSTANTS
    Servers,      \* places where a process may run
    Names,        \* usernames
    Root,         \* rootUsername
    Configs,      \* the flags each of the processes may be started with
    Requests,     \* bound: requests a process handles at a time
    None

\* quiet: -log-level error or none.
Flags == [anonymous : BOOLEAN, noCreateRoot : BOOLEAN, quiet : BOOLEAN,
          createSuperUser : Names \cup {None}, background : BOOLEAN]

\* What an authorized request is about to do: with whose credentials, in whose
\* name, to whom; and, for the properties, whether its author had access then.
Changes == [by : Names, as : Names, target : Names, of : {"account", "credentials"},
            trusted : BOOLEAN]

\* Bound: starts of processes.
MaxStarts == Cardinality(DOMAIN Configs)

ASSUME ProcessAssumption ==
    /\ Root \in Names /\ None \notin Names /\ IsFiniteSet(Servers)
    /\ None \notin Changes /\ MaxStarts \in Nat
    /\ Configs \in [1..MaxStarts -> SUBSET Flags]

VARIABLES
    proc,         \* the process in each place
    accounts,     \* the kind of account stored under each name
    keys,         \* servers that stored a bootstrap key of the account
    known,        \* accounts somebody can log in to: a key was shown, or a password set
    deleted,      \* names whose account was deleted
    starts,
    \* Only for the properties:
    reasons       \* why nobody has superuser access; {} when somebody has

processVars == <<proc, accounts, keys, known, deleted, starts, reasons>>
storedVars == <<accounts, keys, known, deleted, reasons>>

Off == [pc |-> "off", config |-> None, name |-> None, code |-> 0, listener |-> "none",
        signalled |-> FALSE, requests |-> {}, changes |-> [r \in Requests |-> None],
        left |-> FALSE, background |-> FALSE, cancelled |-> FALSE, backend |-> "none",
        expired |-> {}, late |-> {}]

ProcessInit ==
    /\ proc = [s \in Servers |-> Off]
    /\ accounts = [n \in Names |-> "none"] /\ keys = [n \in Names |-> {}]
    /\ known = {} /\ deleted = {} /\ starts = 0 /\ reasons = {}

Becomes(s, p) == proc' = [proc EXCEPT ![s] = p]

Exists(n) == accounts[n] # "none"

HasAccess(n) == accounts[n] = "superuser" /\ n \in known

\* A step that changes who has access, or leaves an account without, for why.
Because(why) == reasons' = IF \E n \in Names : HasAccess(n)' THEN {} ELSE reasons \cup why

-----------------------------------------------------------------------------
(* run: start and bootstrap *)

Start(s) ==
    /\ proc[s].pc = "off" /\ starts < MaxStarts
    /\ starts' = starts + 1
    /\ \E c \in Configs[starts + 1] : Becomes(s, [proc[s] EXCEPT !.pc = "setup", !.config = c])
    /\ UNCHANGED storedVars

\* -legal, a bad log level, a failing preamble or backendFactory.
EndEarly(s) ==
    /\ proc[s].pc = "setup"
    /\ \E c \in {0, 1, 2} : Becomes(s, [proc[s] EXCEPT !.pc = "exit", !.code = c])
    /\ UNCHANGED <<storedVars, starts>>

\* With the backend open, its Shutdown is deferred; -create-superuser goes
\* before -no-create-root.
Setup(s) ==
    /\ proc[s].pc = "setup"
    /\ LET c == proc[s].config
           new == c.createSuperUser # None
       IN  Becomes(s, [proc[s] EXCEPT
               !.backend = "open",
               !.name = IF new THEN c.createSuperUser ELSE Root,
               !.code = IF new /\ c.anonymous THEN 1 ELSE 0,
               !.pc = IF new THEN (IF c.anonymous THEN "backend" ELSE "create")
                      ELSE IF c.noCreateRoot \/ c.anonymous THEN "handler" ELSE "count"])
    /\ UNCHANGED <<storedVars, starts>>

\* run returns an error: only the deferred Shutdown is left.
GiveUp(s) == Becomes(s, [proc[s] EXCEPT !.pc = "backend", !.code = 1])

\* EnsureRootUser asks only whether there is any account.
CountUsers(s) ==
    /\ proc[s].pc = "count"
    /\ \/ GiveUp(s)
       \/ Becomes(s, [proc[s] EXCEPT !.pc =
                      IF \E n \in Names : Exists(n) THEN "handler" ELSE "create"])
    /\ UNCHANGED <<storedVars, starts>>

ForRoot(s) == proc[s].config.createSuperUser = None

\* Mutant of Duplicate: the insert is an upsert.
DuplicateNever(s) == FALSE

Duplicate(s) == Exists(proc[s].name)

Stored(s, kind) == accounts' = [accounts EXCEPT ![proc[s].name] = kind]

\* Mutant of CreateSuperuser: the flag is forgotten.
CreatePlainUser(s) ==
    /\ proc[s].pc = "create" /\ ~Duplicate(s)
    /\ Stored(s, "user")
    /\ Becomes(s, [proc[s] EXCEPT !.pc = "key"])
    /\ UNCHANGED <<keys, known, deleted, starts, reasons>>

CreateSuperuser(s) ==
    /\ proc[s].pc = "create" /\ ~Duplicate(s)
    /\ Stored(s, "superuser")
    /\ Becomes(s, [proc[s] EXCEPT !.pc = "key"])
    /\ UNCHANGED <<keys, known, deleted, starts, reasons>>

\* EnsureRootUser is content with a root that somebody else has created.
SuperuserExists(s) ==
    /\ proc[s].pc = "create" /\ Duplicate(s)
    /\ IF ForRoot(s) THEN Becomes(s, [proc[s] EXCEPT !.pc = "handler"]) ELSE GiveUp(s)
    /\ UNCHANGED <<storedVars, starts>>

\* A bad username, a failing call, or its answer is lost when it was stored.
CreateFails(s) ==
    /\ proc[s].pc = "create"
    /\ GiveUp(s)
    /\ UNCHANGED <<keys, known, deleted, starts>>
    /\ \/ UNCHANGED <<accounts, reasons>>
       \/ ~Duplicate(s) /\ Stored(s, "superuser") /\ Because({"interrupted"})

\* Mutant of IssueKey: CreateKey does not look for the account.
IssueKeyUnchecked(s) ==
    /\ proc[s].pc = "key"
    /\ keys' = [keys EXCEPT ![proc[s].name] = @ \cup {s}]
    /\ Becomes(s, [proc[s] EXCEPT !.pc = "log"])
    /\ UNCHANGED <<accounts, known, deleted, starts, reasons>>

\* CreateKey refuses when the account has gone again.
IssueKey(s) ==
    /\ proc[s].pc = "key" /\ Exists(proc[s].name)
    /\ keys' = [keys EXCEPT ![proc[s].name] = @ \cup {s}]
    /\ Becomes(s, [proc[s] EXCEPT !.pc = "log"])
    /\ UNCHANGED <<accounts, known, deleted, starts, reasons>>

IssueFails(s) ==
    /\ proc[s].pc = "key"
    /\ GiveUp(s)
    /\ \/ UNCHANGED keys
       \/ Exists(proc[s].name) /\ keys' = [keys EXCEPT ![proc[s].name] = @ \cup {s}]
    /\ UNCHANGED <<accounts, known, deleted, starts>>
    /\ Because({"interrupted"})

\* logger.Warn, which a level above warn discards.  The key no longer works
\* when it was revoked or the account deleted meanwhile.
LogKey(s) ==
    /\ proc[s].pc = "log"
    /\ known' = IF s \in keys[proc[s].name] /\ ~proc[s].config.quiet
                THEN known \cup {proc[s].name} ELSE known
    /\ Becomes(s, [proc[s] EXCEPT !.pc = IF ForRoot(s) THEN "handler" ELSE "backend"])
    /\ UNCHANGED <<accounts, keys, deleted, starts>>
    /\ Because(IF proc[s].config.quiet THEN {"silent"} ELSE {})

Bootstrap(s) ==
    \/ EndEarly(s) \/ Setup(s) \/ CountUsers(s) \/ CreateSuperuser(s) \/ SuperuserExists(s)
    \/ CreateFails(s) \/ IssueKey(s) \/ IssueFails(s) \/ LogKey(s)

-----------------------------------------------------------------------------
(* serve, and the deferred calls *)

StartBackground(s) ==
    /\ proc[s].pc = "handler"
    /\ Becomes(s, [proc[s] EXCEPT !.pc = "serve", !.listener = "starting",
                                  !.background = proc[s].config.background])
    /\ UNCHANGED <<storedVars, starts>>

\* select: the signal, or the error of ListenAndServe.
BeginShutdown(s) ==
    /\ proc[s].pc = "serve" /\ proc[s].signalled
    /\ Becomes(s, [proc[s] EXCEPT !.pc = "drain", !.listener = "closed"])
    /\ UNCHANGED <<storedVars, starts>>

ServeFails(s) ==
    /\ proc[s].pc = "serve" /\ proc[s].listener \in {"failed", "broken"}
    /\ Becomes(s, [proc[s] EXCEPT !.pc = "background", !.code = 1])
    /\ UNCHANGED <<storedVars, starts>>

\* Mutant of Drained: the server is closed, not shut down.
Closed(s) ==
    /\ proc[s].pc = "drain"
    /\ Becomes(s, [proc[s] EXCEPT !.pc = "background"])
    /\ UNCHANGED <<storedVars, starts>>

Drained(s) ==
    /\ proc[s].pc = "drain" /\ proc[s].requests = {}
    /\ Becomes(s, [proc[s] EXCEPT !.pc = "background"])
    /\ UNCHANGED <<storedVars, starts>>

\* Mutant of DrainExpires: the error is logged only.
DrainExpiresUnnoticed(s) ==
    /\ proc[s].pc = "drain"
    /\ Becomes(s, [proc[s] EXCEPT !.pc = "background", !.expired = {"drain"}])
    /\ UNCHANGED <<storedVars, starts>>

\* Mutant of DrainExpires: the shutdown has no timeout.
DrainNeverExpires(s) == FALSE

DrainExpires(s) ==
    /\ proc[s].pc = "drain"
    /\ Becomes(s, [proc[s] EXCEPT !.pc = "background", !.code = 1, !.expired = {"drain"}])
    /\ UNCHANGED <<storedVars, starts>>

\* Mutant of StopBackground: cancelled, but not waited for.
StopBackgroundAtOnce(s) ==
    /\ proc[s].pc = "background"
    /\ Becomes(s, [proc[s] EXCEPT !.pc = "backend", !.cancelled = TRUE])
    /\ UNCHANGED <<storedVars, starts>>

\* stopBackground cancels and then waits, unless nothing was started.
StopBackground(s) ==
    /\ proc[s].pc = "background"
    /\ \/ proc[s].background /\ ~proc[s].cancelled
          /\ Becomes(s, [proc[s] EXCEPT !.cancelled = TRUE])
       \/ ~proc[s].background
          /\ Becomes(s, [proc[s] EXCEPT !.pc = "backend"])
       \/ proc[s].background /\ proc[s].cancelled
          /\ Becomes(s, [proc[s] EXCEPT !.pc = "backend",
                                        !.expired = proc[s].expired \cup {"background"}])
    /\ UNCHANGED <<storedVars, starts>>

\* Shutdown of the backend is called, returns or is given up; run's code stays.
ShutdownBackend(s) ==
    /\ proc[s].pc = "backend"
    /\ \/ proc[s].backend = "open" /\ Becomes(s, [proc[s] EXCEPT !.backend = "closing"])
       \/ /\ proc[s].backend = "closing"
          /\ \E b \in {"closing", "closed"} :
                 Becomes(s, [proc[s] EXCEPT !.pc = "exit", !.backend = b])
    /\ UNCHANGED <<storedVars, starts>>

\* os.Exit takes every goroutine with it.
Exit(s) ==
    /\ proc[s].pc = "exit"
    /\ Becomes(s, Off)
    /\ UNCHANGED <<storedVars, starts>>

Serve(s) ==
    \/ StartBackground(s) \/ BeginShutdown(s) \/ ServeFails(s) \/ Drained(s)
    \/ DrainExpires(s) \/ StopBackground(s) \/ ShutdownBackend(s) \/ Exit(s)

Main(s) == Bootstrap(s) \/ Serve(s)

-----------------------------------------------------------------------------
(* The other goroutines of a process, and what happens to it *)

\* ListenAndServe: the port is taken, or a later Accept fails for good.
Listen(s) ==
    /\ proc[s].pc = "serve"
    /\ \/ proc[s].listener = "starting"
          /\ \E l \in {"open", "failed"} : Becomes(s, [proc[s] EXCEPT !.listener = l])
       \/ proc[s].listener = "open"
          /\ Becomes(s, [proc[s] EXCEPT !.listener = "broken"])
    /\ UNCHANGED <<storedVars, starts>>

\* Who has called the backend after its Shutdown, with another call by who.
Late(p, who) == IF p.backend = "open" THEN p.late ELSE p.late \cup {who}

Calls(s, who) == Becomes(s, [proc[s] EXCEPT !.late = Late(proc[s], who)])

\* Connections that were accepted stay in use when Accept has failed.
BeginRequest(s, r) ==
    /\ proc[s].listener \in {"open", "broken"} /\ r \notin proc[s].requests
    /\ Becomes(s, [proc[s] EXCEPT !.requests = proc[s].requests \cup {r}])
    /\ UNCHANGED <<storedVars, starts>>

\* The producer of a filtered list and the loader of mount grants, which only
\* requests of users start, are waited for neither by the handler that
\* started them nor by srv.Shutdown.
EndRequest(s, r) ==
    /\ r \in proc[s].requests /\ proc[s].changes[r] = None
    /\ \E l \in BOOLEAN :
           /\ proc[s].left => l
           /\ l => proc[s].left \/ ~proc[s].config.anonymous
           /\ Becomes(s, [proc[s] EXCEPT !.requests = proc[s].requests \ {r}, !.left = l])
    /\ UNCHANGED <<storedVars, starts>>

\* What a request does to no account.
CallBackend(s) ==
    /\ proc[s].requests # {}
    /\ Calls(s, "request")
    /\ UNCHANGED <<storedVars, starts>>

\* Mutant of Due: DeleteUser and UpdateUser do not look who the target is.
DueAlsoSelf(c) ==
    \/ c.of = "account" /\ accounts[c.as] = "superuser"
    \/ c.of = "credentials" /\ c.target = c.as

\* Accounts are changed by superusers, and not their own; credentials by
\* their owner.
Due(c) ==
    \/ c.of = "account" /\ accounts[c.as] = "superuser" /\ c.target # c.as
    \/ c.of = "credentials" /\ c.target = c.as

\* resolveCaller, where a superuser may name anybody, and the scope.
Authorize(s, r) ==
    /\ r \in proc[s].requests /\ proc[s].changes[r] = None
    /\ proc[s].backend # "closed" /\ ~proc[s].config.anonymous
    /\ \E c \in Changes :
           /\ c.by \in known /\ c.trusted = HasAccess(c.by)
           /\ c.as = c.by \/ (accounts[c.by] = "superuser" /\ Exists(c.as))
           /\ Due(c)
           /\ Becomes(s, [proc[s] EXCEPT !.changes = [proc[s].changes EXCEPT ![r] = c],
                                         !.late = Late(proc[s], "request")])
    /\ UNCHANGED <<storedVars, starts>>

\* CreateUser or UpdateUser; DeleteUser.
ChangeAccount(n) ==
    \/ /\ \E kind \in {"user", "superuser"} : accounts' = [accounts EXCEPT ![n] = kind]
       /\ UNCHANGED <<keys, known, deleted>>
    \/ /\ Exists(n)
       /\ accounts' = [accounts EXCEPT ![n] = "none"]
       /\ keys' = [keys EXCEPT ![n] = {}]
       /\ known' = known \ {n} /\ deleted' = deleted \cup {n}

\* IssueKey or SetPassword; RevokeKey of a bootstrap key, or of the last
\* credential.
ChangeCredentials(n) ==
    /\ Exists(n)
    /\ \/ known' = known \cup {n} /\ UNCHANGED keys
       \/ /\ keys' = [keys EXCEPT ![n] = {}]
          /\ known' \in {known, known \ {n}}
    /\ UNCHANGED <<accounts, deleted>>

\* Its author gives up its own access, which it can in two ways.
Resigns(c) == c.target = c.by /\ (c.of = "credentials" \/ c.as # c.by)

\* Its author, who had access, has lost it since.
Crosses(c) == c.target # c.by /\ c.trusted /\ ~HasAccess(c.by)

\* Why a change may leave nobody with access.
Blame(c) ==
    IF ~HasAccess(c.target) THEN {}
    ELSE IF Resigns(c) THEN {"resigned"}
    ELSE IF Crosses(c) THEN {"crossed"} ELSE {}

\* The change is made by what was true when it was authorized, or fails.
Apply(s, r) ==
    /\ r \in proc[s].requests /\ proc[s].changes[r] # None
    /\ Becomes(s, [proc[s] EXCEPT !.changes = [proc[s].changes EXCEPT ![r] = None],
                                  !.late = Late(proc[s], "request")])
    /\ LET c == proc[s].changes[r]
       IN  \/ UNCHANGED storedVars
          \/ /\ proc[s].backend # "closed"
             /\ \/ c.of = "account" /\ ChangeAccount(c.target)
                \/ c.of = "credentials" /\ ChangeCredentials(c.target)
             /\ Because(Blame(c))
    /\ UNCHANGED starts

\* A goroutine left behind lists another page, also after Shutdown, or ends.
RunLeft(s) ==
    /\ proc[s].left
    /\ Calls(s, "left") \/ Becomes(s, [proc[s] EXCEPT !.left = FALSE])
    /\ UNCHANGED <<storedVars, starts>>

\* The pass of KeyCleanup calls the backend until it ends.
RunBackground(s) ==
    /\ proc[s].background
    /\ \/ Calls(s, "background")
       \/ proc[s].cancelled /\ Becomes(s, [proc[s] EXCEPT !.background = FALSE])
    /\ UNCHANGED <<storedVars, starts>>

\* SIGINT or SIGTERM while serve listens for them; at other times they kill.
Signal(s) ==
    /\ proc[s].pc = "serve" /\ ~proc[s].signalled
    /\ Becomes(s, [proc[s] EXCEPT !.signalled = TRUE])
    /\ UNCHANGED <<storedVars, starts>>

Crash(s) ==
    /\ proc[s].pc # "off"
    /\ Becomes(s, Off)
    /\ UNCHANGED <<accounts, keys, known, deleted, starts>>
    /\ Because(IF proc[s].pc \in {"key", "log"} THEN {"interrupted"} ELSE {})

Others(s) ==
    \/ \E r \in Requests : BeginRequest(s, r) \/ EndRequest(s, r) \/ Authorize(s, r) \/ Apply(s, r)
    \/ Listen(s) \/ CallBackend(s) \/ RunLeft(s) \/ RunBackground(s) \/ Signal(s) \/ Crash(s)

ProcessNext == \E s \in Servers : Start(s) \/ Main(s) \/ Others(s)

\* Only the main goroutine must be scheduled: its calls return or time out.
ProcessSpec ==
    ProcessInit /\ [][ProcessNext]_processVars /\ \A s \in Servers : WF_processVars(Main(s))

-----------------------------------------------------------------------------
(* Properties *)

Stages ==
    {"off", "setup", "count", "create", "key", "log", "handler", "serve", "drain",
     "background", "backend", "exit"}
Listeners == {"none", "starting", "open", "failed", "broken", "closed"}
BackendStates == {"none", "open", "closing", "closed"}
ExitCodes == 0..2

Callers == {"request", "left", "background"}
Reasons == {"interrupted", "silent", "crossed", "resigned"}

Proc ==
    [pc : Stages, config : Flags \cup {None}, name : Names \cup {None}, code : ExitCodes,
     listener : Listeners, signalled : BOOLEAN, requests : SUBSET Requests,
     changes : [Requests -> Changes \cup {None}], left : BOOLEAN, background : BOOLEAN,
     cancelled : BOOLEAN, backend : BackendStates,
     expired : SUBSET {"drain", "background"}, late : SUBSET Callers]

\* Every variable has its type, and only an account has credentials.
ProcessTypeOK ==
    /\ proc \in [Servers -> Proc]
    /\ accounts \in [Names -> {"none", "user", "superuser"}]
    /\ keys \in [Names -> SUBSET Servers] /\ known \subseteq Names
    /\ \A n \in Names : n \in known \/ keys[n] # {} => Exists(n)
    /\ deleted \subseteq Names /\ starts \in 0..MaxStarts /\ reasons \subseteq Reasons

\* Contract of backend.Shutdown: no other method is called after it.  The
\* order of the deferred calls keeps it for requests, unless the shutdown of
\* the server timed out or Accept failed, and for the background process,
\* unless the wait for it timed out.  Goroutines that requests leave behind
\* break it without either, see RunLeft; no other late calls are made.
BackendOutlivesItsUsers ==
    \A s \in Servers :
        /\ "request" \in proc[s].late =>
               "drain" \in proc[s].expired \/ proc[s].listener = "broken"
        /\ "background" \in proc[s].late => "background" \in proc[s].expired

\* A process that ends with code 0 has cut off no request.
ZeroMeansNothingCutOff ==
    \A s \in Servers :
        proc[s].pc \in {"background", "backend", "exit"} /\ proc[s].code = 0 =>
            proc[s].requests = {}

\* There are accounts, and nobody can log in to one of a superuser:
\* EnsureRootUser will not act again.
LockedOut == (\E n \in Names : Exists(n)) /\ ~\E n \in Names : HasAccess(n)

\* However many servers start at once and whatever superusers do, a system is
\* locked out only while a bootstrap is between CreateUser and the logging of
\* its key, or since
\*   - one failed or was killed there ("interrupted"),
\*   - one logged its key at a level that is discarded ("silent"),
\*   - a request took effect whose author had meanwhile lost access ("crossed"),
\*   - the last superuser revoked its own last credential, or removed itself in
\*     the name of another superuser ("resigned").
LockOutsAreExplained ==
    LockedOut => reasons # {} \/ \E s \in Servers : proc[s].pc \in {"key", "log"}

\* Processes that create a superuser of one name together leave one account
\* with one bootstrap key, unless a superuser has deleted the account while it
\* was set up, and another process created it again.
OneBootstrapKey == \A n \in Names \ deleted : Cardinality(keys[n]) <= 1

\* A process that was told to stop ends, whatever its requests and its
\* background process do.
SignalsEndProcesses == \A s \in Servers : proc[s].signalled ~> proc[s].pc = "off"

=============================================================================
