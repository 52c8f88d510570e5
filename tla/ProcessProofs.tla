--------------------------- MODULE ProcessProofs ---------------------------
(***************************************************************************)
(* Proofs about the life of server processes, for any number of servers,   *)
(* starts with any flags and requests.                                     *)
(***************************************************************************)
EXTENDS Process, FiniteSetTheorems, TLAPS

Early == {"off", "setup", "count", "create", "key", "log", "handler"}

\* A process that has not reached serve has neither requests nor a
\* background process; one that has left it takes no new requests, and has
\* got rid of the old ones unless a timeout expired or Accept failed.
Stage(p) ==
    /\ p.pc # "off" => p.config \in Flags
    /\ p.pc \in {"count", "create", "key", "log"} => p.name \in Names
    /\ p.pc \in Early => p.listener = "none" /\ p.requests = {} /\ ~p.left /\ ~p.background
    /\ p.pc \in {"off", "setup"} => p.code = 0
    /\ p.pc \in {"count", "create", "key", "log", "handler", "serve", "drain", "background"} =>
           p.backend = "open"
    /\ p.pc \notin {"backend", "exit"} => p.late = {}
    /\ p.pc = "drain" => p.listener = "closed"
    /\ p.pc \in {"background", "backend", "exit"} =>
           /\ p.listener \in {"none", "failed", "broken", "closed"}
           /\ p.requests # {} => "drain" \in p.expired \/ p.listener = "broken"
           /\ p.code = 0 => p.requests = {}
           /\ p.listener = "broken" => p.code # 0
    /\ p.pc \in {"backend", "exit"} => (p.background => "background" \in p.expired)
    /\ p.listener \in {"none", "starting", "failed"} => p.requests = {}
    /\ "request" \in p.late => "drain" \in p.expired \/ p.listener = "broken"
    /\ "background" \in p.late => "background" \in p.expired

\* The calls after Shutdown that the stage of the process excuses.
Excused(p, l) ==
    /\ l \subseteq Callers
    /\ p.pc \notin {"backend", "exit"} => l = {}
    /\ "request" \in l => "drain" \in p.expired \/ p.listener = "broken"
    /\ "background" \in l => "background" \in p.expired

\* Types, and the stage of every process.
StageInv == ProcessTypeOK /\ \A s \in Servers : Stage(proc[s])

\* What processes share, with its types.
StoredOK ==
    /\ accounts \in [Names -> {"none", "user", "superuser"}]
    /\ keys \in [Names -> SUBSET Servers] /\ known \subseteq Names
    /\ \A n \in Names : n \in known \/ keys[n] # {} => Exists(n)
    /\ deleted \subseteq Names /\ starts \in 0..MaxStarts /\ reasons \subseteq Reasons

LEMMA StageInvParts ==
    StageInv <=> /\ proc \in [Servers -> Proc] /\ \A s \in Servers : Stage(proc[s])
                 /\ StoredOK
  BY DEF StageInv, ProcessTypeOK, StoredOK

\* A step that takes one process to a record of its type and stage, and what
\* is stored to something of its type.
LEMMA OneProcess ==
    ASSUME StageInv, NEW s \in Servers, NEW q \in Proc, Stage(q), Becomes(s, q), StoredOK'
    PROVE  StageInv'
  <1>1. /\ proc' \in [Servers -> Proc]
        /\ \A t \in Servers : proc'[t] = IF t = s THEN q ELSE proc[t]
    BY StageInvParts DEF Becomes
  <1>2. \A t \in Servers : Stage(proc'[t])
    BY <1>1 DEF StageInv
  <1> QED BY <1>1, <1>2 DEF StageInv, ProcessTypeOK, StoredOK, Exists

LEMMA StoredUntouched ==
    ASSUME StageInv, UNCHANGED <<storedVars, starts>> PROVE StoredOK'
  BY DEF StageInv, ProcessTypeOK, StoredOK, storedVars, Exists

\* The reasons stay reasons.
LEMMA BecauseType ==
    ASSUME StageInv, NEW why \in SUBSET Reasons, Because(why) PROVE reasons' \subseteq Reasons
  BY DEF Because, StageInv, ProcessTypeOK

LEMMA Labels ==
    /\ \A l \in {"off", "setup", "count", "create", "key", "log", "handler", "serve",
                  "drain", "background", "backend", "exit"} : l \in Stages
    /\ \A l \in {"none", "starting", "open", "failed", "broken", "closed"} : l \in Listeners
    /\ \A b \in {"none", "open", "closing", "closed"} : b \in BackendStates
    /\ \A c \in {0, 1, 2} : c \in ExitCodes
    /\ \A w \in {"request", "left", "background"} : w \in Callers
    /\ \A w \in {"interrupted", "silent", "crossed", "resigned"} : w \in Reasons
  BY DEF Stages, Listeners, BackendStates, ExitCodes, Callers, Reasons

LEMMA OffType == Off \in Proc /\ Stage(Off)
  <1>1. Off \in Proc
    BY Labels DEF Off, Proc
  <1>2. Stage(Off)
    BY DEF Off, Stage, Early
  <1> QED BY <1>1, <1>2

LEMMA BootstrapStage ==
    ASSUME StageInv, NEW s \in Servers, Bootstrap(s) PROVE StageInv'
  <1>0. proc[s] \in Proc /\ Stage(proc[s]) /\ StoredOK /\ proc \in [Servers -> Proc]
    BY StageInvParts
  <1>1. CASE EndEarly(s)
    <2>0. PICK c \in {0, 1, 2} :
              Becomes(s, [proc[s] EXCEPT !.pc = "exit", !.code = c])
      BY <1>1 DEF EndEarly
    <2> DEFINE q == [proc[s] EXCEPT !.pc = "exit", !.code = c]
    <2>1. q \in Proc
      BY <1>0, <1>1, <2>0, Labels DEF EndEarly, Proc, Flags
    <2>2. Stage(q)
      BY <1>0, <1>1, <2>0 DEF EndEarly, Proc, Flags, Stage, Early, ExitCodes
    <2>3. Becomes(s, q)
      BY <1>0, <1>1, <2>0 DEF EndEarly
    <2>4. StoredOK'
      BY <1>1, StoredUntouched DEF EndEarly
    <2> HIDE DEF q
    <2> QED BY <2>1, <2>2, <2>3, <2>4, OneProcess
  <1>2. CASE Setup(s)
    <2>0. PICK n \in Names, c \in {0, 1}, l \in {"backend", "create", "handler", "count"} :
              Becomes(s, [proc[s] EXCEPT !.backend = "open", !.name = n, !.code = c, !.pc = l])
      BY <1>0, <1>2, ProcessAssumption DEF Setup, Stage, Flags
    <2> DEFINE q == [proc[s] EXCEPT !.backend = "open", !.name = n, !.code = c, !.pc = l]
    <2>1. q \in Proc
      BY <1>0, <1>2, <2>0, Labels DEF Setup, Proc, Flags
    <2>2. Stage(q)
      BY <1>0, <1>2, <2>0 DEF Setup, Proc, Flags, Stage, Early, ExitCodes
    <2>3. Becomes(s, q)
      BY <1>0, <1>2, <2>0 DEF Setup
    <2>4. StoredOK'
      BY <1>2, StoredUntouched DEF Setup
    <2> HIDE DEF q
    <2> QED BY <2>1, <2>2, <2>3, <2>4, OneProcess
  <1>3. CASE CountUsers(s)
    <2>0. StoredOK'
      BY <1>3, StoredUntouched DEF CountUsers, GiveUp
    <2>1. CASE Becomes(s, [proc[s] EXCEPT !.pc = "backend", !.code = 1])
      <3> DEFINE q == [proc[s] EXCEPT !.pc = "backend", !.code = 1]
      <3>1. q \in Proc
        BY <1>0, <1>3, <2>1, Labels DEF CountUsers, Proc, Flags, GiveUp
      <3>2. Stage(q)
        BY <1>0, <1>3, <2>1 DEF CountUsers, Proc, Flags, Stage, Early, ExitCodes, GiveUp
      <3>3. Becomes(s, q)
        BY <2>1
      <3> HIDE DEF q
      <3> QED BY <2>0, <3>1, <3>2, <3>3, OneProcess
    <2>2. CASE Becomes(s, [proc[s] EXCEPT !.pc = "handler"])
      <3> DEFINE q == [proc[s] EXCEPT !.pc = "handler"]
      <3>1. q \in Proc
        BY <1>0, <1>3, <2>2, Labels DEF CountUsers, Proc, Flags, GiveUp
      <3>2. Stage(q)
        BY <1>0, <1>3, <2>2 DEF CountUsers, Proc, Flags, Stage, Early, ExitCodes, GiveUp
      <3>3. Becomes(s, q)
        BY <2>2
      <3> HIDE DEF q
      <3> QED BY <2>0, <3>1, <3>2, <3>3, OneProcess
    <2>3. CASE Becomes(s, [proc[s] EXCEPT !.pc = "create"])
      <3> DEFINE q == [proc[s] EXCEPT !.pc = "create"]
      <3>1. q \in Proc
        BY <1>0, <1>3, <2>3, Labels DEF CountUsers, Proc, Flags, GiveUp
      <3>2. Stage(q)
        BY <1>0, <1>3, <2>3 DEF CountUsers, Proc, Flags, Stage, Early, ExitCodes, GiveUp
      <3>3. Becomes(s, q)
        BY <2>3
      <3> HIDE DEF q
      <3> QED BY <2>0, <3>1, <3>2, <3>3, OneProcess
    <2> QED BY <1>0, <1>3, <2>1, <2>2, <2>3 DEF CountUsers, GiveUp
  <1>4. CASE CreateSuperuser(s)
    <2> DEFINE q == [proc[s] EXCEPT !.pc = "key"]
    <2>1. q \in Proc
      BY <1>0, <1>4, Labels DEF CreateSuperuser, Proc, Flags
    <2>2. Stage(q)
      BY <1>0, <1>4 DEF CreateSuperuser, Proc, Flags, Stage, Early, ExitCodes
    <2>3. Becomes(s, q)
      BY <1>0, <1>4 DEF CreateSuperuser
    <2>4. StoredOK'
      BY <1>0, <1>4 DEF CreateSuperuser, Stored, StoredOK, Exists, Stage
    <2> HIDE DEF q
    <2> QED BY <2>1, <2>2, <2>3, <2>4, OneProcess
  <1>5. CASE SuperuserExists(s)
    <2>0. StoredOK'
      BY <1>5, StoredUntouched DEF SuperuserExists, GiveUp
    <2>1. CASE Becomes(s, [proc[s] EXCEPT !.pc = "backend", !.code = 1])
      <3> DEFINE q == [proc[s] EXCEPT !.pc = "backend", !.code = 1]
      <3>1. q \in Proc
        BY <1>0, <1>5, <2>1, Labels DEF SuperuserExists, Proc, Flags, GiveUp
      <3>2. Stage(q)
        BY <1>0, <1>5, <2>1 DEF SuperuserExists, Proc, Flags, Stage, Early, ExitCodes, GiveUp
      <3>3. Becomes(s, q)
        BY <2>1
      <3> HIDE DEF q
      <3> QED BY <2>0, <3>1, <3>2, <3>3, OneProcess
    <2>2. CASE Becomes(s, [proc[s] EXCEPT !.pc = "handler"])
      <3> DEFINE q == [proc[s] EXCEPT !.pc = "handler"]
      <3>1. q \in Proc
        BY <1>0, <1>5, <2>2, Labels DEF SuperuserExists, Proc, Flags, GiveUp
      <3>2. Stage(q)
        BY <1>0, <1>5, <2>2 DEF SuperuserExists, Proc, Flags, Stage, Early, ExitCodes, GiveUp
      <3>3. Becomes(s, q)
        BY <2>2
      <3> HIDE DEF q
      <3> QED BY <2>0, <3>1, <3>2, <3>3, OneProcess
    <2> QED BY <1>0, <1>5, <2>1, <2>2 DEF SuperuserExists, GiveUp
  <1>6. CASE CreateFails(s)
    <2> DEFINE q == [proc[s] EXCEPT !.pc = "backend", !.code = 1]
    <2>1. q \in Proc
      BY <1>0, <1>6, Labels DEF CreateFails, Proc, Flags, GiveUp
    <2>2. Stage(q)
      BY <1>0, <1>6 DEF CreateFails, Proc, Flags, Stage, Early, ExitCodes, GiveUp
    <2>3. Becomes(s, q)
      BY <1>0, <1>6 DEF CreateFails, GiveUp
    <2>4. StoredOK'
      <3>1. CASE UNCHANGED <<accounts, reasons>>
        BY <1>0, <1>6, <3>1 DEF CreateFails, StoredOK, Exists
      <3>2. CASE Stored(s, "superuser") /\ Because({"interrupted"})
        <4>1. reasons' \subseteq Reasons
          BY <3>2, BecauseType, Labels
        <4> QED BY <1>0, <1>6, <3>2, <4>1 DEF CreateFails, Stored, StoredOK, Exists, Stage
      <3> QED BY <1>6, <3>1, <3>2 DEF CreateFails
    <2> HIDE DEF q
    <2> QED BY <2>1, <2>2, <2>3, <2>4, OneProcess
  <1>7. CASE IssueKey(s)
    <2> DEFINE q == [proc[s] EXCEPT !.pc = "log"]
    <2>1. q \in Proc
      BY <1>0, <1>7, Labels DEF IssueKey, Proc, Flags
    <2>2. Stage(q)
      BY <1>0, <1>7 DEF IssueKey, Proc, Flags, Stage, Early, ExitCodes
    <2>3. Becomes(s, q)
      BY <1>0, <1>7 DEF IssueKey
    <2>4. StoredOK'
      BY <1>0, <1>7 DEF IssueKey, StoredOK, Exists, Stage
    <2> HIDE DEF q
    <2> QED BY <2>1, <2>2, <2>3, <2>4, OneProcess
  <1>8. CASE IssueFails(s)
    <2> DEFINE q == [proc[s] EXCEPT !.pc = "backend", !.code = 1]
    <2>1. q \in Proc
      BY <1>0, <1>8, Labels DEF IssueFails, Proc, Flags, GiveUp
    <2>2. Stage(q)
      BY <1>0, <1>8 DEF IssueFails, Proc, Flags, Stage, Early, ExitCodes, GiveUp
    <2>3. Becomes(s, q)
      BY <1>0, <1>8 DEF IssueFails, GiveUp
    <2>4. StoredOK'
      <3>1. reasons' \subseteq Reasons
        BY <1>8, BecauseType, Labels DEF IssueFails
      <3> QED BY <1>0, <1>8, <3>1 DEF IssueFails, StoredOK, Exists, Stage
    <2> HIDE DEF q
    <2> QED BY <2>1, <2>2, <2>3, <2>4, OneProcess
  <1>9. CASE LogKey(s)
    <2>0. StoredOK'
      <3>1. reasons' \subseteq Reasons
        <4>1. (IF proc[s].config.quiet THEN {"silent"} ELSE {}) \in SUBSET Reasons
          BY Labels
        <4> QED BY <1>9, <4>1, BecauseType DEF LogKey
      <3> QED BY <1>0, <1>9, <3>1 DEF LogKey, StoredOK, Exists, Stage
    <2>1. CASE Becomes(s, [proc[s] EXCEPT !.pc = "handler"])
      <3> DEFINE q == [proc[s] EXCEPT !.pc = "handler"]
      <3>1. q \in Proc
        BY <1>0, <1>9, <2>1, Labels DEF LogKey, Proc, Flags
      <3>2. Stage(q)
        BY <1>0, <1>9, <2>1 DEF LogKey, Proc, Flags, Stage, Early, ExitCodes
      <3>3. Becomes(s, q)
        BY <2>1
      <3> HIDE DEF q
      <3> QED BY <2>0, <3>1, <3>2, <3>3, OneProcess
    <2>2. CASE Becomes(s, [proc[s] EXCEPT !.pc = "backend"])
      <3> DEFINE q == [proc[s] EXCEPT !.pc = "backend"]
      <3>1. q \in Proc
        BY <1>0, <1>9, <2>2, Labels DEF LogKey, Proc, Flags
      <3>2. Stage(q)
        BY <1>0, <1>9, <2>2 DEF LogKey, Proc, Flags, Stage, Early, ExitCodes
      <3>3. Becomes(s, q)
        BY <2>2
      <3> HIDE DEF q
      <3> QED BY <2>0, <3>1, <3>2, <3>3, OneProcess
    <2> QED BY <1>0, <1>9, <2>1, <2>2 DEF LogKey
  <1> QED BY <1>1, <1>2, <1>3, <1>4, <1>5, <1>6, <1>7, <1>8, <1>9 DEF Bootstrap

LEMMA ServeStage ==
    ASSUME StageInv, NEW s \in Servers, Serve(s) PROVE StageInv'
  <1>0. proc[s] \in Proc /\ Stage(proc[s]) /\ StoredOK /\ proc \in [Servers -> Proc]
    BY StageInvParts
  <1>1. CASE StartBackground(s)
    <2> DEFINE q == [proc[s] EXCEPT !.pc = "serve", !.listener = "starting",
                           !.background = proc[s].config.background]
    <2>1. q \in Proc
      BY <1>0, <1>1, Labels DEF StartBackground, Proc, Flags, Stage
    <2>2. Stage(q)
      BY <1>0, <1>1 DEF StartBackground, Proc, Flags, Stage, Early, ExitCodes
    <2>3. Becomes(s, q)
      BY <1>0, <1>1 DEF StartBackground
    <2>4. StoredOK'
      BY <1>1, StoredUntouched DEF StartBackground
    <2> HIDE DEF q
    <2> QED BY <2>1, <2>2, <2>3, <2>4, OneProcess
  <1>2. CASE BeginShutdown(s)
    <2> DEFINE q == [proc[s] EXCEPT !.pc = "drain", !.listener = "closed"]
    <2>1. q \in Proc
      BY <1>0, <1>2, Labels DEF BeginShutdown, Proc, Flags
    <2>2. Stage(q)
      BY <1>0, <1>2 DEF BeginShutdown, Proc, Flags, Stage, Early, ExitCodes
    <2>3. Becomes(s, q)
      BY <1>0, <1>2 DEF BeginShutdown
    <2>4. StoredOK'
      BY <1>2, StoredUntouched DEF BeginShutdown
    <2> HIDE DEF q
    <2> QED BY <2>1, <2>2, <2>3, <2>4, OneProcess
  <1>3. CASE ServeFails(s)
    <2> DEFINE q == [proc[s] EXCEPT !.pc = "background", !.code = 1]
    <2>1. q \in Proc
      BY <1>0, <1>3, Labels DEF ServeFails, Proc, Flags
    <2>2. Stage(q)
      BY <1>0, <1>3 DEF ServeFails, Proc, Flags, Stage, Early, ExitCodes
    <2>3. Becomes(s, q)
      BY <1>0, <1>3 DEF ServeFails
    <2>4. StoredOK'
      BY <1>3, StoredUntouched DEF ServeFails
    <2> HIDE DEF q
    <2> QED BY <2>1, <2>2, <2>3, <2>4, OneProcess
  <1>4. CASE Drained(s)
    <2> DEFINE q == [proc[s] EXCEPT !.pc = "background"]
    <2>1. q \in Proc
      BY <1>0, <1>4, Labels DEF Drained, Proc, Flags
    <2>2. Stage(q)
      BY <1>0, <1>4 DEF Drained, Proc, Flags, Stage, Early, ExitCodes
    <2>3. Becomes(s, q)
      BY <1>0, <1>4 DEF Drained
    <2>4. StoredOK'
      BY <1>4, StoredUntouched DEF Drained
    <2> HIDE DEF q
    <2> QED BY <2>1, <2>2, <2>3, <2>4, OneProcess
  <1>5. CASE DrainExpires(s)
    <2> DEFINE q == [proc[s] EXCEPT !.pc = "background", !.code = 1, !.expired = {"drain"}]
    <2>1. q \in Proc
      BY <1>0, <1>5, Labels DEF DrainExpires, Proc, Flags
    <2>2. Stage(q)
      BY <1>0, <1>5 DEF DrainExpires, Proc, Flags, Stage, Early, ExitCodes
    <2>3. Becomes(s, q)
      BY <1>0, <1>5 DEF DrainExpires
    <2>4. StoredOK'
      BY <1>5, StoredUntouched DEF DrainExpires
    <2> HIDE DEF q
    <2> QED BY <2>1, <2>2, <2>3, <2>4, OneProcess
  <1>6. CASE StopBackground(s)
    <2>0. StoredOK'
      BY <1>6, StoredUntouched DEF StopBackground
    <2>1. CASE Becomes(s, [proc[s] EXCEPT !.cancelled = TRUE])
      <3> DEFINE q == [proc[s] EXCEPT !.cancelled = TRUE]
      <3>1. q \in Proc
        BY <1>0, <1>6, <2>1, Labels DEF StopBackground, Proc, Flags
      <3>2. Stage(q)
        BY <1>0, <1>6, <2>1 DEF StopBackground, Proc, Flags, Stage, Early, ExitCodes
      <3>3. Becomes(s, q)
        BY <2>1
      <3> HIDE DEF q
      <3> QED BY <2>0, <3>1, <3>2, <3>3, OneProcess
    <2>2. CASE ~proc[s].background /\ Becomes(s, [proc[s] EXCEPT !.pc = "backend"])
      <3> DEFINE q == [proc[s] EXCEPT !.pc = "backend"]
      <3>1. q \in Proc
        BY <1>0, <1>6, <2>2, Labels DEF StopBackground, Proc, Flags
      <3>2. Stage(q)
        BY <1>0, <1>6, <2>2 DEF StopBackground, Proc, Flags, Stage, Early, ExitCodes
      <3>3. Becomes(s, q)
        BY <2>2
      <3> HIDE DEF q
      <3> QED BY <2>0, <3>1, <3>2, <3>3, OneProcess
    <2>3. CASE Becomes(s, [proc[s] EXCEPT !.pc = "backend",
                                     !.expired = proc[s].expired \cup {"background"}])
      <3> DEFINE q == [proc[s] EXCEPT !.pc = "backend",
                                     !.expired = proc[s].expired \cup {"background"}]
      <3>1. q \in Proc
        BY <1>0, <1>6, <2>3, Labels DEF StopBackground, Proc, Flags
      <3>2. Stage(q)
        BY <1>0, <1>6, <2>3 DEF StopBackground, Proc, Flags, Stage, Early, ExitCodes
      <3>3. Becomes(s, q)
        BY <2>3
      <3> HIDE DEF q
      <3> QED BY <2>0, <3>1, <3>2, <3>3, OneProcess
    <2> QED BY <1>0, <1>6, <2>1, <2>2, <2>3 DEF StopBackground
  <1>7. CASE ShutdownBackend(s)
    <2>0. StoredOK'
      BY <1>7, StoredUntouched DEF ShutdownBackend
    <2>1. CASE Becomes(s, [proc[s] EXCEPT !.backend = "closing"])
      <3> DEFINE q == [proc[s] EXCEPT !.backend = "closing"]
      <3>1. q \in Proc
        BY <1>0, <1>7, <2>1, Labels DEF ShutdownBackend, Proc, Flags
      <3>2. Stage(q)
        BY <1>0, <1>7, <2>1 DEF ShutdownBackend, Proc, Flags, Stage, Early, ExitCodes
      <3>3. Becomes(s, q)
        BY <2>1
      <3> HIDE DEF q
      <3> QED BY <2>0, <3>1, <3>2, <3>3, OneProcess
    <2>2. CASE Becomes(s, [proc[s] EXCEPT !.pc = "exit", !.backend = "closing"])
      <3> DEFINE q == [proc[s] EXCEPT !.pc = "exit", !.backend = "closing"]
      <3>1. q \in Proc
        BY <1>0, <1>7, <2>2, Labels DEF ShutdownBackend, Proc, Flags
      <3>2. Stage(q)
        BY <1>0, <1>7, <2>2 DEF ShutdownBackend, Proc, Flags, Stage, Early, ExitCodes
      <3>3. Becomes(s, q)
        BY <2>2
      <3> HIDE DEF q
      <3> QED BY <2>0, <3>1, <3>2, <3>3, OneProcess
    <2>3. CASE Becomes(s, [proc[s] EXCEPT !.pc = "exit", !.backend = "closed"])
      <3> DEFINE q == [proc[s] EXCEPT !.pc = "exit", !.backend = "closed"]
      <3>1. q \in Proc
        BY <1>0, <1>7, <2>3, Labels DEF ShutdownBackend, Proc, Flags
      <3>2. Stage(q)
        BY <1>0, <1>7, <2>3 DEF ShutdownBackend, Proc, Flags, Stage, Early, ExitCodes
      <3>3. Becomes(s, q)
        BY <2>3
      <3> HIDE DEF q
      <3> QED BY <2>0, <3>1, <3>2, <3>3, OneProcess
    <2> QED BY <1>0, <1>7, <2>1, <2>2, <2>3 DEF ShutdownBackend
  <1>8. CASE Exit(s)
    <2> DEFINE q == Off
    <2>1. q \in Proc
      BY OffType
    <2>2. Stage(q)
      BY OffType
    <2>3. Becomes(s, q)
      BY <1>0, <1>8 DEF Exit
    <2>4. StoredOK'
      BY <1>8, StoredUntouched DEF Exit
    <2> HIDE DEF q
    <2> QED BY <2>1, <2>2, <2>3, <2>4, OneProcess
  <1> QED BY <1>1, <1>2, <1>3, <1>4, <1>5, <1>6, <1>7, <1>8 DEF Serve

\* Whoever calls the backend after its Shutdown is excused by the stage of the
\* process.
LEMMA LateCalls ==
    ASSUME NEW p \in Proc, Stage(p), NEW who \in Callers,
           who = "request" => p.requests # {}, who = "left" => p.left,
           who = "background" => p.background
    PROVE  Excused(p, Late(p, who))
  <1>1. CASE p.backend = "open"
    BY <1>1 DEF Excused, Late, Stage, Proc
  <1>2. CASE p.backend # "open"
    <2>1. p.pc \in {"backend", "exit"}
      BY <1>2 DEF Stage, Early, Proc, Stages, Callers
    <2> QED BY <1>2, <2>1 DEF Excused, Late, Stage, Proc, Callers
  <1> QED BY <1>1, <1>2

\* A change that requests make leaves what is stored in order.
LEMMA ApplyStored ==
    ASSUME StageInv, NEW s \in Servers, NEW r \in Requests, Apply(s, r) PROVE StoredOK'
  <1> DEFINE c == proc[s].changes[r]
  <1>0. StoredOK /\ c \in Changes
    BY StageInvParts DEF Apply, Proc
  <1>1. CASE UNCHANGED storedVars
    BY <1>1, StoredUntouched DEF Apply
  <1>2. CASE Because(Blame(c)) /\ (ChangeAccount(c.target) \/ ChangeCredentials(c.target))
    <2>1. c.target \in Names
      BY <1>0 DEF Changes
    <2>2. Blame(c) \in SUBSET Reasons
      BY Labels DEF Blame
    <2>3. reasons' \subseteq Reasons /\ starts' = starts
      BY <1>2, <2>2, BecauseType DEF Apply
    <2>4. CASE ChangeAccount(c.target)
      BY <1>0, <2>1, <2>3, <2>4 DEF ChangeAccount, StoredOK, Exists
    <2>5. CASE ChangeCredentials(c.target)
      BY <1>0, <2>1, <2>3, <2>5 DEF Excused, ChangeCredentials, StoredOK, Exists
    <2> QED BY <1>2, <2>4, <2>5
  <1> QED BY <1>1, <1>2 DEF Apply

LEMMA OthersStage ==
    ASSUME StageInv, NEW s \in Servers, Others(s) PROVE StageInv'
  <1>0. proc[s] \in Proc /\ Stage(proc[s]) /\ StoredOK /\ proc \in [Servers -> Proc]
    BY StageInvParts
  <1>1. CASE Listen(s)
    <2>0. StoredOK'
      BY <1>1, StoredUntouched DEF Listen
    <2>1. CASE Becomes(s, [proc[s] EXCEPT !.listener = "open"])
      <3> DEFINE q == [proc[s] EXCEPT !.listener = "open"]
      <3>1. q \in Proc
        BY <1>0, <1>1, <2>1, Labels DEF Listen, Proc, Flags
      <3>2. Stage(q)
        BY <1>0, <1>1, <2>1 DEF Listen, Proc, Flags, Stage, Early, ExitCodes
      <3>3. Becomes(s, q)
        BY <2>1
      <3> HIDE DEF q
      <3> QED BY <2>0, <3>1, <3>2, <3>3, OneProcess
    <2>2. CASE proc[s].listener = "starting" /\ Becomes(s, [proc[s] EXCEPT !.listener = "failed"])
      <3> DEFINE q == [proc[s] EXCEPT !.listener = "failed"]
      <3>1. q \in Proc
        BY <1>0, <1>1, <2>2, Labels DEF Listen, Proc, Flags
      <3>2. Stage(q)
        BY <1>0, <1>1, <2>2 DEF Listen, Proc, Flags, Stage, Early, ExitCodes
      <3>3. Becomes(s, q)
        BY <2>2
      <3> HIDE DEF q
      <3> QED BY <2>0, <3>1, <3>2, <3>3, OneProcess
    <2>3. CASE Becomes(s, [proc[s] EXCEPT !.listener = "broken"])
      <3> DEFINE q == [proc[s] EXCEPT !.listener = "broken"]
      <3>1. q \in Proc
        BY <1>0, <1>1, <2>3, Labels DEF Listen, Proc, Flags
      <3>2. Stage(q)
        BY <1>0, <1>1, <2>3 DEF Listen, Proc, Flags, Stage, Early, ExitCodes
      <3>3. Becomes(s, q)
        BY <2>3
      <3> HIDE DEF q
      <3> QED BY <2>0, <3>1, <3>2, <3>3, OneProcess
    <2> QED BY <1>0, <1>1, <2>1, <2>2, <2>3 DEF Listen
  <1>2. ASSUME NEW r \in Requests, BeginRequest(s, r) PROVE StageInv'
    <2> DEFINE q == [proc[s] EXCEPT !.requests = proc[s].requests \cup {r}]
    <2>1. q \in Proc
      BY <1>0, <1>2, Labels DEF BeginRequest, Proc, Flags
    <2>2. Stage(q)
      BY <1>0, <1>2 DEF BeginRequest, Proc, Flags, Stage, Early, ExitCodes
    <2>3. Becomes(s, q)
      BY <1>0, <1>2 DEF BeginRequest
    <2>4. StoredOK'
      BY <1>2, StoredUntouched DEF BeginRequest
    <2> HIDE DEF q
    <2> QED BY <2>1, <2>2, <2>3, <2>4, OneProcess
  <1>3. ASSUME NEW r \in Requests, EndRequest(s, r) PROVE StageInv'
    <2>0. PICK l \in BOOLEAN :
              Becomes(s, [proc[s] EXCEPT !.requests = proc[s].requests \ {r}, !.left = l])
      BY <1>3 DEF EndRequest
    <2> DEFINE q == [proc[s] EXCEPT !.requests = proc[s].requests \ {r}, !.left = l]
    <2>1. q \in Proc
      BY <1>0, <1>3, <2>0, Labels DEF EndRequest, Proc, Flags
    <2>2. Stage(q)
      BY <1>0, <1>3, <2>0 DEF EndRequest, Proc, Flags, Stage, Early, ExitCodes
    <2>3. Becomes(s, q)
      BY <1>0, <1>3, <2>0 DEF EndRequest
    <2>4. StoredOK'
      BY <1>3, StoredUntouched DEF EndRequest
    <2> HIDE DEF q
    <2> QED BY <2>1, <2>2, <2>3, <2>4, OneProcess
  <1>4. CASE CallBackend(s)
    <2>5. Excused(proc[s], Late(proc[s], "request"))
      BY <1>0, <1>4, LateCalls, Labels DEF CallBackend
    <2> DEFINE q == [proc[s] EXCEPT !.late = Late(proc[s], "request")]
    <2>1. q \in Proc
      BY <1>0, <1>4, <2>5, Labels DEF Excused, CallBackend, Proc, Flags, Calls
    <2>2. Stage(q)
      BY <1>0, <1>4, <2>5 DEF Excused, CallBackend, Proc, Flags, Stage, Early, ExitCodes, Calls
    <2>3. Becomes(s, q)
      BY <1>0, <1>4 DEF CallBackend, Calls
    <2>4. StoredOK'
      BY <1>4, StoredUntouched DEF CallBackend
    <2> HIDE DEF q
    <2> QED BY <2>1, <2>2, <2>3, <2>4, OneProcess
  <1>5. ASSUME NEW r \in Requests, Authorize(s, r) PROVE StageInv'
    <2>0. PICK c \in Changes :
              Becomes(s, [proc[s] EXCEPT !.changes = [proc[s].changes EXCEPT ![r] = c],
                           !.late = Late(proc[s], "request")])
      BY <1>5 DEF Authorize
    <2>5. Excused(proc[s], Late(proc[s], "request"))
      BY <1>0, <1>5, LateCalls, Labels DEF Authorize
    <2> DEFINE q == [proc[s] EXCEPT !.changes = [proc[s].changes EXCEPT ![r] = c],
                           !.late = Late(proc[s], "request")]
    <2>1. q \in Proc
      BY <1>0, <1>5, <2>0, <2>5, Labels DEF Excused, Authorize, Proc, Flags
    <2>2. Stage(q)
      BY <1>0, <1>5, <2>0, <2>5 DEF Excused, Authorize, Proc, Flags, Stage, Early, ExitCodes
    <2>3. Becomes(s, q)
      BY <1>0, <1>5, <2>0 DEF Authorize
    <2>4. StoredOK'
      BY <1>5, StoredUntouched DEF Authorize
    <2> HIDE DEF q
    <2> QED BY <2>1, <2>2, <2>3, <2>4, OneProcess
  <1>6. ASSUME NEW r \in Requests, Apply(s, r) PROVE StageInv'
    <2>5. Excused(proc[s], Late(proc[s], "request"))
      BY <1>0, <1>6, LateCalls, Labels DEF Apply
    <2> DEFINE q == [proc[s] EXCEPT !.changes = [proc[s].changes EXCEPT ![r] = None],
                           !.late = Late(proc[s], "request")]
    <2>1. q \in Proc
      BY <1>0, <1>6, <2>5, Labels DEF Excused, Apply, Proc, Flags
    <2>2. Stage(q)
      BY <1>0, <1>6, <2>5 DEF Excused, Apply, Proc, Flags, Stage, Early, ExitCodes
    <2>3. Becomes(s, q)
      BY <1>0, <1>6 DEF Apply
    <2>4. StoredOK'
      BY <1>6, ApplyStored
    <2> HIDE DEF q
    <2> QED BY <2>1, <2>2, <2>3, <2>4, OneProcess
  <1>7. CASE RunLeft(s)
    <2>0. StoredOK'
      BY <1>7, StoredUntouched DEF RunLeft, Calls
    <2>1. CASE Becomes(s, [proc[s] EXCEPT !.late = Late(proc[s], "left")])
      <3>0. Excused(proc[s], Late(proc[s], "left"))
        BY <1>0, <1>7, LateCalls, Labels DEF RunLeft
      <3> DEFINE q == [proc[s] EXCEPT !.late = Late(proc[s], "left")]
      <3>1. q \in Proc
        BY <1>0, <1>7, <2>1, <3>0, Labels DEF Excused, RunLeft, Proc, Flags, Calls
      <3>2. Stage(q)
        BY <1>0, <1>7, <2>1, <3>0 DEF Excused, RunLeft, Proc, Flags, Stage, Early, ExitCodes, Calls
      <3>3. Becomes(s, q)
        BY <2>1
      <3> HIDE DEF q
      <3> QED BY <2>0, <3>1, <3>2, <3>3, OneProcess
    <2>2. CASE Becomes(s, [proc[s] EXCEPT !.left = FALSE])
      <3> DEFINE q == [proc[s] EXCEPT !.left = FALSE]
      <3>1. q \in Proc
        BY <1>0, <1>7, <2>2, Labels DEF RunLeft, Proc, Flags, Calls
      <3>2. Stage(q)
        BY <1>0, <1>7, <2>2 DEF RunLeft, Proc, Flags, Stage, Early, ExitCodes, Calls
      <3>3. Becomes(s, q)
        BY <2>2
      <3> HIDE DEF q
      <3> QED BY <2>0, <3>1, <3>2, <3>3, OneProcess
    <2> QED BY <1>0, <1>7, <2>1, <2>2 DEF RunLeft, Calls
  <1>8. CASE RunBackground(s)
    <2>0. StoredOK'
      BY <1>8, StoredUntouched DEF RunBackground, Calls
    <2>1. CASE Becomes(s, [proc[s] EXCEPT !.late = Late(proc[s], "background")])
      <3>0. Excused(proc[s], Late(proc[s], "background"))
        BY <1>0, <1>8, LateCalls, Labels DEF RunBackground
      <3> DEFINE q == [proc[s] EXCEPT !.late = Late(proc[s], "background")]
      <3>1. q \in Proc
        BY <1>0, <1>8, <2>1, <3>0, Labels DEF Excused, RunBackground, Proc, Flags, Calls
      <3>2. Stage(q)
        BY <1>0, <1>8, <2>1, <3>0 DEF Excused, RunBackground, Proc, Flags, Stage, Early,
           ExitCodes, Calls
      <3>3. Becomes(s, q)
        BY <2>1
      <3> HIDE DEF q
      <3> QED BY <2>0, <3>1, <3>2, <3>3, OneProcess
    <2>2. CASE Becomes(s, [proc[s] EXCEPT !.background = FALSE])
      <3> DEFINE q == [proc[s] EXCEPT !.background = FALSE]
      <3>1. q \in Proc
        BY <1>0, <1>8, <2>2, Labels DEF RunBackground, Proc, Flags, Calls
      <3>2. Stage(q)
        BY <1>0, <1>8, <2>2 DEF RunBackground, Proc, Flags, Stage, Early, ExitCodes, Calls
      <3>3. Becomes(s, q)
        BY <2>2
      <3> HIDE DEF q
      <3> QED BY <2>0, <3>1, <3>2, <3>3, OneProcess
    <2> QED BY <1>0, <1>8, <2>1, <2>2 DEF RunBackground, Calls
  <1>9. CASE Signal(s)
    <2> DEFINE q == [proc[s] EXCEPT !.signalled = TRUE]
    <2>1. q \in Proc
      BY <1>0, <1>9, Labels DEF Signal, Proc, Flags
    <2>2. Stage(q)
      BY <1>0, <1>9 DEF Signal, Proc, Flags, Stage, Early, ExitCodes
    <2>3. Becomes(s, q)
      BY <1>0, <1>9 DEF Signal
    <2>4. StoredOK'
      BY <1>9, StoredUntouched DEF Signal
    <2> HIDE DEF q
    <2> QED BY <2>1, <2>2, <2>3, <2>4, OneProcess
  <1>10. CASE Crash(s)
    <2> DEFINE q == Off
    <2>1. q \in Proc
      BY OffType
    <2>2. Stage(q)
      BY OffType
    <2>3. Becomes(s, q)
      BY <1>0, <1>10 DEF Crash
    <2>4. StoredOK'
      <3>1. reasons' \subseteq Reasons
        <4>1. (IF proc[s].pc \in {"key", "log"} THEN {"interrupted"} ELSE {}) \in SUBSET Reasons
          BY Labels
        <4> QED BY <1>10, <4>1, BecauseType DEF Crash
      <3> QED BY <1>0, <1>10, <3>1 DEF Crash, StoredOK, Exists
    <2> HIDE DEF q
    <2> QED BY <2>1, <2>2, <2>3, <2>4, OneProcess
  <1> QED BY <1>1, <1>2, <1>3, <1>4, <1>5, <1>6, <1>7, <1>8, <1>9, <1>10 DEF Others

LEMMA StartStage ==
    ASSUME StageInv, NEW s \in Servers, Start(s) PROVE StageInv'
  <1>0. proc[s] \in Proc /\ Stage(proc[s]) /\ StoredOK /\ proc \in [Servers -> Proc]
    BY StageInvParts
  <1>1. starts + 1 \in 1..MaxStarts
    BY <1>0, ProcessAssumption DEF Start, StoredOK
  <1>2. PICK c \in Configs[starts + 1] :
            Becomes(s, [proc[s] EXCEPT !.pc = "setup", !.config = c])
    BY DEF Start
  <1>3. c \in Flags
    BY <1>1, <1>2, ProcessAssumption
  <1> DEFINE q == [proc[s] EXCEPT !.pc = "setup", !.config = c]
  <1>4. q \in Proc
    BY <1>0, <1>3, Labels DEF Proc
  <1>5. Stage(q)
    BY <1>0, <1>3 DEF Start, Stage, Early, Proc
  <1>6. StoredOK'
    BY <1>0, <1>1, ProcessAssumption DEF Start, StoredOK, storedVars, Exists
  <1>7. Becomes(s, q)
    BY <1>2
  <1> HIDE DEF q
  <1> QED BY <1>4, <1>5, <1>6, <1>7, OneProcess

LEMMA StageInit == ProcessInit => StageInv
  <1> SUFFICES ASSUME ProcessInit PROVE StageInv
    OBVIOUS
  <1>1. StoredOK
    <2>1. starts \in 0..MaxStarts
      BY ProcessAssumption DEF ProcessInit
    <2> QED BY <2>1 DEF ProcessInit, StoredOK
  <1> QED BY <1>1, OffType, StageInvParts DEF ProcessInit

LEMMA StageNext == StageInv /\ [ProcessNext]_processVars => StageInv'
  <1>1. ASSUME StageInv, UNCHANGED processVars PROVE StageInv'
    <2>1. StoredOK'
      BY <1>1, StoredUntouched DEF processVars, storedVars
    <2>2. proc' = proc
      BY <1>1 DEF processVars
    <2> QED BY <1>1, <2>1, <2>2 DEF StageInv, ProcessTypeOK, StoredOK, Exists
  <1>2. ASSUME StageInv, NEW s \in Servers, Main(s) PROVE StageInv'
    BY <1>2, BootstrapStage, ServeStage DEF Main
  <1> QED BY <1>1, <1>2, StartStage, OthersStage DEF ProcessNext

LEMMA StageAlways == ProcessSpec => []StageInv
  BY StageInit, StageNext, PTL DEF ProcessSpec

\* Every variable of the processes and of what they share keeps its type.
THEOREM ProcessTypeCorrect == ProcessSpec => []ProcessTypeOK
  <1>1. StageInv => ProcessTypeOK
    BY DEF StageInv
  <1> QED BY <1>1, StageAlways, PTL

\* The order in which main's deferred calls run keeps the backend open for
\* requests and for the background process, unless a wait for them timed out
\* or Accept failed; goroutines that requests left behind are not protected.
THEOREM BackendIsOpen == ProcessSpec => []BackendOutlivesItsUsers
  <1>1. StageInv => BackendOutlivesItsUsers
    BY DEF StageInv, Stage, BackendOutlivesItsUsers
  <1> QED BY <1>1, StageAlways, PTL

\* A process that exits with code 0 has answered every request it took.
THEOREM ExitCodeIsHonest == ProcessSpec => []ZeroMeansNothingCutOff
  <1>1. StageInv => ZeroMeansNothingCutOff
    BY DEF StageInv, Stage, ZeroMeansNothingCutOff
  <1> QED BY <1>1, StageAlways, PTL

-----------------------------------------------------------------------------
(* Lock-outs *)

\* What Authorize has found of a change, whatever has happened since: its
\* author gives up its own access, or had superuser access then.
Founded(c) == IF c.target = c.by THEN Resigns(c) ELSE c.trusted

\* A process at work on an account: between CreateUser and the logged key.
AtWork(p) == p.pc \in {"key", "log"}

PendingInv ==
    \A s \in Servers, r \in Requests :
        proc[s].changes[r] # None => Founded(proc[s].changes[r])

\* Nobody ever had superuser access and nothing has gone wrong: requests have
\* no effect, and every account is due to a bootstrap that is at work.
Untouched ==
    /\ known = {}
    /\ \A s \in Servers, r \in Requests : proc[s].changes[r] = None
    /\ (\E n \in Names : Exists(n)) => \E s \in Servers : AtWork(proc[s])
    /\ \A s \in Servers : AtWork(proc[s]) => accounts[proc[s].name] = "superuser"
    /\ \A s \in Servers : proc[s].pc = "log" => s \in keys[proc[s].name]

AccessInv == (\E n \in Names : HasAccess(n)) \/ reasons # {} \/ Untouched

\* The steps that begin or end the work on an account, and those of changes.
Working(s) ==
    CreateSuperuser(s) \/ CreateFails(s) \/ IssueKey(s) \/ IssueFails(s) \/ LogKey(s) \/ Crash(s)

Changing(s) == \E r \in Requests : Authorize(s, r) \/ Apply(s, r)

\* The work and the changes of p go on as they are in q.
SameWork(p, q) ==
    /\ AtWork(q) <=> AtWork(p)
    /\ AtWork(p) => q.pc = p.pc /\ q.name = p.name

SameChanges(p, q) == q.changes = p.changes \/ q = Off

\* All other steps leave what is stored, and who is at work on what.
LEMMA OtherSteps ==
    ASSUME StageInv, NEW s \in Servers, Start(s) \/ Main(s) \/ Others(s),
           ~Working(s), ~Changing(s)
    PROVE  /\ UNCHANGED storedVars
           /\ \A t \in Servers : SameWork(proc[t], proc'[t]) /\ SameChanges(proc[t], proc'[t])
  <1>0. proc \in [Servers -> Proc] /\ Stage(proc[s])
    BY StageInvParts
  <1>1. UNCHANGED storedVars /\ \E q : Becomes(s, q)
    BY DEF Main, Bootstrap, Serve, Others, Working, Changing, GiveUp, Calls, Start,
       EndEarly, Setup, CountUsers, SuperuserExists, StartBackground, BeginShutdown,
       ServeFails, Drained, DrainExpires, StopBackground, ShutdownBackend, Exit, Listen,
       Signal, CallBackend, RunLeft, RunBackground, BeginRequest, EndRequest
  <1>2. SameWork(proc[s], proc'[s]) /\ SameChanges(proc[s], proc'[s])
    <2> USE <1>0 DEF Becomes, SameWork, SameChanges, AtWork, Proc
    <2>1. CASE Start(s)
      <3>1. PICK c : Becomes(s, [proc[s] EXCEPT !.pc = "setup", !.config = c])
        BY <2>1 DEF Start
      <3>2. proc[s].pc = "off"
        BY <2>1 DEF Start
      <3> QED BY <3>1, <3>2
    <2>2. CASE EndEarly(s)
      BY <2>2 DEF EndEarly
    <2>3. CASE Setup(s)
      BY <2>3 DEF Setup
    <2>4. CASE CountUsers(s)
      <3>1. CASE Becomes(s, [proc[s] EXCEPT !.pc = "backend", !.code = 1])
        BY <2>4, <3>1 DEF CountUsers
      <3>2. CASE Becomes(s, [proc[s] EXCEPT !.pc = "handler"])
        BY <2>4, <3>2 DEF CountUsers
      <3>3. CASE Becomes(s, [proc[s] EXCEPT !.pc = "create"])
        BY <2>4, <3>3 DEF CountUsers
      <3> QED BY <2>4, <3>1, <3>2, <3>3 DEF CountUsers, GiveUp
    <2>5. CASE SuperuserExists(s)
      <3>1. CASE Becomes(s, [proc[s] EXCEPT !.pc = "backend", !.code = 1])
        BY <2>5, <3>1 DEF SuperuserExists
      <3>2. CASE Becomes(s, [proc[s] EXCEPT !.pc = "handler"])
        BY <2>5, <3>2 DEF SuperuserExists
      <3> QED BY <2>5, <3>1, <3>2 DEF SuperuserExists, GiveUp
    <2>6. CASE StartBackground(s)
      BY <2>6 DEF StartBackground
    <2>7. CASE BeginShutdown(s)
      BY <2>7 DEF BeginShutdown
    <2>8. CASE ServeFails(s)
      BY <2>8 DEF ServeFails
    <2>9. CASE Drained(s)
      BY <2>9 DEF Drained
    <2>10. CASE DrainExpires(s)
      BY <2>10 DEF DrainExpires
    <2>11. CASE StopBackground(s)
      <3>1. CASE Becomes(s, [proc[s] EXCEPT !.cancelled = TRUE])
        BY <2>11, <3>1 DEF StopBackground
      <3>2. CASE Becomes(s, [proc[s] EXCEPT !.pc = "backend"])
        BY <2>11, <3>2 DEF StopBackground
      <3>3. CASE Becomes(s, [proc[s] EXCEPT !.pc = "backend",
                                             !.expired = proc[s].expired \cup {"background"}])
        BY <2>11, <3>3 DEF StopBackground
      <3> QED BY <2>11, <3>1, <3>2, <3>3 DEF StopBackground
    <2>12. CASE ShutdownBackend(s)
      <3>1. CASE Becomes(s, [proc[s] EXCEPT !.backend = "closing"])
        BY <2>12, <3>1 DEF ShutdownBackend
      <3>2. CASE Becomes(s, [proc[s] EXCEPT !.pc = "exit", !.backend = "closing"])
        BY <2>12, <3>2 DEF ShutdownBackend
      <3>3. CASE Becomes(s, [proc[s] EXCEPT !.pc = "exit", !.backend = "closed"])
        BY <2>12, <3>3 DEF ShutdownBackend
      <3> QED BY <2>12, <3>1, <3>2, <3>3 DEF ShutdownBackend
    <2>13. CASE Exit(s)
      BY <2>13 DEF Exit, Off
    <2>14. CASE Listen(s)
      BY <2>14 DEF Listen
    <2>15. CASE Signal(s)
      BY <2>15 DEF Signal
    <2>16. CASE CallBackend(s)
      BY <2>16 DEF CallBackend, Calls
    <2>17. CASE RunLeft(s)
      BY <2>17 DEF RunLeft, Calls
    <2>18. CASE RunBackground(s)
      BY <2>18 DEF RunBackground, Calls
    <2>19. CASE \E r \in Requests : BeginRequest(s, r)
      BY <2>19 DEF BeginRequest
    <2>20. CASE \E r \in Requests : EndRequest(s, r)
      BY <2>20 DEF EndRequest
    <2> QED BY <2>1, <2>2, <2>3, <2>4, <2>5, <2>6, <2>7, <2>8, <2>9, <2>10, <2>11, <2>12,
       <2>13, <2>14, <2>15, <2>16, <2>17, <2>18, <2>19, <2>20
            DEF Main, Bootstrap, Serve, Others, Working, Changing
  <1>3. \A t \in Servers \ {s} : proc'[t] = proc[t]
    BY <1>0, <1>1 DEF Becomes
  <1> QED BY <1>1, <1>2, <1>3 DEF SameWork, SameChanges

\* The steps of bootstraps take no superuser's account or access.
LEMMA WorkKeepsAccess ==
    ASSUME StageInv, NEW s \in Servers, Working(s), NEW n \in Names
    PROVE  /\ Exists(n) => accounts'[n] = accounts[n]
           /\ HasAccess(n) => HasAccess(n)'
  <1>1. CASE CreateSuperuser(s) \/ CreateFails(s)
    BY <1>1 DEF CreateSuperuser, CreateFails, Stored, Duplicate, Exists, HasAccess, StageInv,
       ProcessTypeOK
  <1>2. CASE IssueKey(s) \/ IssueFails(s) \/ LogKey(s) \/ Crash(s)
    BY <1>2 DEF IssueKey, IssueFails, LogKey, Crash, HasAccess
  <1> QED BY <1>1, <1>2 DEF Working

\* A reason stays until somebody has access.
LEMMA ReasonsStay ==
    ASSUME NEW why, Because(why), reasons # {} \/ why # {}
    PROVE  (\E n \in Names : HasAccess(n)') \/ reasons' # {}
  BY DEF Because

\* The steps of bootstraps, seen from a system nobody has access to.
LEMMA WorkStep ==
    ASSUME StageInv, Untouched, reasons = {}, ~\E n \in Names : HasAccess(n),
           NEW s \in Servers, Working(s)
    PROVE  AccessInv'
  <1>0. proc[s] \in Proc /\ Stage(proc[s]) /\ StoredOK /\ proc \in [Servers -> Proc]
    BY StageInvParts
  <1>1. CASE CreateSuperuser(s)
    <2> DEFINE q == [proc[s] EXCEPT !.pc = "key"]
    <2>1. q.pc = "key" /\ q.name = proc[s].name /\ q.changes = proc[s].changes
      BY <1>0 DEF Proc
    <2>2. \A t \in Servers : proc'[t] = IF t = s THEN q ELSE proc[t]
      BY <1>0, <1>1 DEF CreateSuperuser, Becomes
    <2> HIDE DEF q
    <2>3. /\ proc[s].name \in Names /\ ~Exists(proc[s].name) /\ UNCHANGED <<keys, known>>
          /\ \A n \in Names : accounts'[n] = IF n = proc[s].name THEN "superuser" ELSE accounts[n]
      BY <1>0, <1>1 DEF CreateSuperuser, Stored, Duplicate, Stage, StoredOK
    <2>4. \A t \in Servers : AtWork(proc[t]) => proc[t].name \in Names
      BY DEF StageInv, Stage, AtWork
    <2> QED BY <2>1, <2>2, <2>3, <2>4 DEF AccessInv, Untouched, AtWork
  <1>2. CASE CreateFails(s)
    <2>1. CASE Because({"interrupted"})
      BY <2>1, ReasonsStay DEF AccessInv
    <2>2. CASE UNCHANGED <<accounts, reasons>>
      <3> DEFINE q == [proc[s] EXCEPT !.pc = "backend", !.code = 1]
      <3>1. q.pc = "backend" /\ q.changes = proc[s].changes /\ ~AtWork(proc[s])
        BY <1>0, <1>2 DEF Proc, CreateFails, AtWork
      <3>2. \A t \in Servers : proc'[t] = IF t = s THEN q ELSE proc[t]
        BY <1>0, <1>2 DEF CreateFails, GiveUp, Becomes
      <3> HIDE DEF q
      <3>3. UNCHANGED <<keys, known>>
        BY <1>2 DEF CreateFails
      <3> QED BY <2>2, <3>1, <3>2, <3>3 DEF AccessInv, Untouched, AtWork, Exists
    <2> QED BY <1>2, <2>1, <2>2 DEF CreateFails
  <1>3. CASE IssueKey(s)
    <2> DEFINE q == [proc[s] EXCEPT !.pc = "log"]
    <2>1. q.pc = "log" /\ q.name = proc[s].name /\ q.changes = proc[s].changes
      BY <1>0 DEF Proc
    <2>2. \A t \in Servers : proc'[t] = IF t = s THEN q ELSE proc[t]
      BY <1>0, <1>3 DEF IssueKey, Becomes
    <2> HIDE DEF q
    <2>3. /\ proc[s].name \in Names /\ UNCHANGED <<accounts, known>>
          /\ s \in keys'[proc[s].name] /\ \A n \in Names : keys[n] \subseteq keys'[n]
      BY <1>0, <1>3 DEF IssueKey, Stage, StoredOK
    <2>4. \A t \in Servers : AtWork(proc[t]) => proc[t].name \in Names
      BY DEF StageInv, Stage, AtWork
    <2>5. AtWork(proc[s])
      BY <1>3 DEF IssueKey, AtWork
    <2> QED BY <2>1, <2>2, <2>3, <2>4, <2>5 DEF AccessInv, Untouched, AtWork, Exists
  <1>4. CASE IssueFails(s)
    BY <1>4, ReasonsStay DEF IssueFails, AccessInv
  <1>5. CASE LogKey(s)
    <2>1. CASE proc[s].config.quiet
      BY <1>5, <2>1, ReasonsStay DEF LogKey, AccessInv
    <2>2. CASE ~proc[s].config.quiet
      <3>1. PICK n \in Names : n = proc[s].name
        BY <1>0, <1>5 DEF LogKey, Stage
      <3>2. accounts[n] = "superuser" /\ UNCHANGED accounts /\ n \in known'
        BY <1>5, <2>2, <3>1 DEF LogKey, Untouched, AtWork
      <3> QED BY <3>2 DEF AccessInv, HasAccess
    <2> QED BY <2>1, <2>2
  <1>6. CASE Crash(s)
    <2>1. CASE AtWork(proc[s])
      BY <1>6, <2>1, ReasonsStay DEF Crash, AtWork, AccessInv
    <2>2. CASE ~AtWork(proc[s])
      <3>1. \A t \in Servers : proc'[t] = IF t = s THEN Off ELSE proc[t]
        BY <1>0, <1>6 DEF Crash, Becomes
      <3>2. ~AtWork(Off) /\ \A r \in Requests : Off.changes[r] = None
        BY DEF Off, AtWork
      <3>3. UNCHANGED <<accounts, keys, known>>
        BY <1>6 DEF Crash
      <3> QED BY <2>2, <3>1, <3>2, <3>3 DEF AccessInv, Untouched, AtWork, Exists
    <2> QED BY <2>1, <2>2
  <1> QED BY <1>1, <1>2, <1>3, <1>4, <1>5, <1>6 DEF Working

\* What a change is founded on when it is authorized.
LEMMA AuthorizedIsFounded ==
    ASSUME NEW c \in Changes, c.by \in known, c.trusted = HasAccess(c.by), Due(c),
           c.as = c.by \/ (accounts[c.by] = "superuser" /\ Exists(c.as))
    PROVE  Founded(c)
  BY DEF Founded, Due, HasAccess, Resigns, Changes

\* Authorize adds a founded change of somebody who can log in.
LEMMA AuthorizeStep ==
    ASSUME StageInv, NEW s \in Servers, NEW r \in Requests, Authorize(s, r)
    PROVE  /\ UNCHANGED storedVars /\ known # {}
           /\ PendingInv => PendingInv'
  <1>0. proc[s] \in Proc /\ proc \in [Servers -> Proc]
    BY StageInvParts
  <1>1. PICK c \in Changes :
            /\ c.by \in known /\ Founded(c)
            /\ Becomes(s, [proc[s] EXCEPT !.changes = [proc[s].changes EXCEPT ![r] = c],
                                          !.late = Late(proc[s], "request")])
    BY AuthorizedIsFounded DEF Authorize
  <1> DEFINE q == [proc[s] EXCEPT !.changes = [proc[s].changes EXCEPT ![r] = c],
                                  !.late = Late(proc[s], "request")]
  <1>2. \A i \in Requests : q.changes[i] = IF i = r THEN c ELSE proc[s].changes[i]
    BY <1>0 DEF Proc
  <1>3. \A t \in Servers : proc'[t] = IF t = s THEN q ELSE proc[t]
    BY <1>0, <1>1 DEF Becomes
  <1> HIDE DEF q
  <1>4. PendingInv => PendingInv'
    BY <1>1, <1>2, <1>3 DEF PendingInv
  <1> QED BY <1>1, <1>4 DEF Authorize

\* Apply takes a pending change away; if it takes the last access, it says
\* why: its author is left when it is another superuser.
LEMMA ApplyStep ==
    ASSUME StageInv, PendingInv, NEW s \in Servers, NEW r \in Requests, Apply(s, r)
    PROVE  /\ PendingInv'
           /\ ~Untouched
           /\ reasons # {} \/ (\E n \in Names : HasAccess(n)) =>
                  reasons' # {} \/ \E n \in Names : HasAccess(n)'
  <1>0. proc[s] \in Proc /\ proc \in [Servers -> Proc] /\ StoredOK
    BY StageInvParts
  <1> DEFINE q == [proc[s] EXCEPT !.changes = [proc[s].changes EXCEPT ![r] = None],
                                  !.late = Late(proc[s], "request")]
  <1>1. \A i \in Requests : q.changes[i] = IF i = r THEN None ELSE proc[s].changes[i]
    BY <1>0 DEF Proc
  <1>2. \A t \in Servers : proc'[t] = IF t = s THEN q ELSE proc[t]
    BY <1>0 DEF Becomes, Apply
  <1> HIDE DEF q
  <1>3. PendingInv'
    BY <1>1, <1>2 DEF PendingInv
  <1>4. ~Untouched
    BY DEF Apply, Untouched
  <1> SUFFICES ASSUME reasons # {} \/ \E n \in Names : HasAccess(n)
               PROVE  reasons' # {} \/ \E n \in Names : HasAccess(n)'
    BY <1>3, <1>4
  <1>5. PICK c \in Changes : c = proc[s].changes[r] /\ Founded(c)
    BY <1>0 DEF Apply, Proc, PendingInv
  <1>6. CASE UNCHANGED storedVars
    BY <1>6 DEF storedVars, HasAccess
  <1>7. CASE Because(Blame(c)) /\ (ChangeAccount(c.target) \/ ChangeCredentials(c.target))
    <2>1. CASE reasons # {} \/ Blame(c) # {}
      BY <1>7, <2>1, ReasonsStay
    <2>2. ASSUME Blame(c) = {}, NEW n \in Names, HasAccess(n)
          PROVE  \E m \in Names : HasAccess(m)'
      <3>1. c.by \in Names /\ c.target \in Names
        BY DEF Changes
      <3>2. \A m \in Names \ {c.target} : HasAccess(m) => HasAccess(m)'
        BY <1>0, <1>7, <3>1 DEF ChangeAccount, ChangeCredentials, HasAccess, StoredOK
      <3>3. CASE ~HasAccess(c.target)
        BY <2>2, <3>2, <3>3
      <3>4. CASE HasAccess(c.target)
        BY <1>5, <2>2, <3>1, <3>2, <3>4 DEF Blame, Resigns, Crosses, Founded
      <3> QED BY <3>3, <3>4
    <2> QED BY <2>1, <2>2
  <1> QED BY <1>5, <1>6, <1>7 DEF Apply

LEMMA AccessStep ==
    ASSUME StageInv, PendingInv, AccessInv, NEW s \in Servers, Start(s) \/ Main(s) \/ Others(s)
    PROVE  PendingInv' /\ AccessInv'
  <1>0. proc \in [Servers -> Proc]
    BY StageInvParts
  <1>1. CASE Working(s)
    <2>1. PendingInv'
      <3>1. proc'[s].changes = proc[s].changes \/ proc'[s] = Off
        <4>1. CASE CreateSuperuser(s)
          BY <1>0, <4>1 DEF CreateSuperuser, Becomes, Proc
        <4>2. CASE IssueKey(s)
          BY <1>0, <4>2 DEF IssueKey, Becomes, Proc
        <4>3. CASE CreateFails(s) \/ IssueFails(s)
          <5>1. Becomes(s, [proc[s] EXCEPT !.pc = "backend", !.code = 1])
            BY <4>3 DEF CreateFails, IssueFails, GiveUp
          <5> QED BY <1>0, <5>1 DEF Becomes, Proc
        <4>4. CASE LogKey(s)
          <5>1. \E l : Becomes(s, [proc[s] EXCEPT !.pc = l])
            BY <4>4 DEF LogKey
          <5> QED BY <1>0, <5>1 DEF Becomes, Proc
        <4>5. CASE Crash(s)
          BY <1>0, <4>5 DEF Crash, Becomes
        <4> QED BY <1>1, <4>1, <4>2, <4>3, <4>4, <4>5 DEF Working
      <3>2. \A t \in Servers \ {s} : proc'[t] = proc[t]
        BY <1>0, <1>1 DEF Working, CreateSuperuser, CreateFails, IssueKey, IssueFails, LogKey,
           Crash, GiveUp, Becomes
      <3>3. \A r \in Requests : Off.changes[r] = None
        BY DEF Off
      <3> QED BY <3>1, <3>2, <3>3 DEF PendingInv
    <2> SUFFICES AccessInv'
      BY <2>1
    <2>2. CASE \E n \in Names : HasAccess(n)
      BY <1>1, <2>2, WorkKeepsAccess DEF AccessInv
    <2>3. CASE reasons # {}
      <3>1. UNCHANGED reasons \/ \E why : Because(why)
        BY <1>1 DEF Working, CreateSuperuser, CreateFails, IssueKey, IssueFails, LogKey, Crash
      <3> QED BY <2>3, <3>1, ReasonsStay DEF AccessInv
    <2>4. CASE Untouched /\ reasons = {} /\ ~\E n \in Names : HasAccess(n)
      BY <1>1, <2>4, WorkStep
    <2> QED BY <2>2, <2>3, <2>4 DEF AccessInv
  <1>2. ASSUME NEW r \in Requests, Authorize(s, r) PROVE PendingInv' /\ AccessInv'
    BY <1>2, AuthorizeStep DEF AccessInv, Untouched, storedVars, HasAccess
  <1>3. ASSUME NEW r \in Requests, Apply(s, r) PROVE PendingInv' /\ AccessInv'
    BY <1>3, ApplyStep DEF AccessInv
  <1>4. CASE ~Working(s) /\ ~Changing(s)
    <2>1. /\ UNCHANGED storedVars
          /\ \A t \in Servers : SameWork(proc[t], proc'[t]) /\ SameChanges(proc[t], proc'[t])
      BY <1>4, OtherSteps
    <2>2. \A r \in Requests : Off.changes[r] = None
      BY DEF Off
    <2>3. PendingInv'
      BY <2>1, <2>2 DEF PendingInv, SameChanges
    <2>4. Untouched => Untouched'
      BY <2>1, <2>2 DEF Untouched, SameWork, SameChanges, AtWork, storedVars, Exists
    <2> QED BY <2>1, <2>3, <2>4 DEF AccessInv, storedVars, HasAccess
  <1> QED BY <1>1, <1>2, <1>3, <1>4 DEF Changing

\* Where accounts exist and nobody has superuser access, a bootstrap is at
\* work, or one was interrupted or logged its key at a discarded level, or
\* the last superuser gave up its own access, or a request took effect after
\* its author had lost the access it was authorized by.
THEOREM LockOutsExplained == ProcessSpec => []LockOutsAreExplained
  <1>1. ProcessInit => PendingInv /\ AccessInv
    BY DEF ProcessInit, PendingInv, AccessInv, Untouched, AtWork, Exists, Off
  <1>2. StageInv /\ PendingInv /\ AccessInv /\ [ProcessNext]_processVars =>
            PendingInv' /\ AccessInv'
    <2>1. ASSUME PendingInv, AccessInv, UNCHANGED processVars PROVE PendingInv' /\ AccessInv'
      BY <2>1 DEF processVars, PendingInv, AccessInv, Untouched, Exists, HasAccess
    <2> QED BY <2>1, AccessStep DEF ProcessNext
  <1>3. AccessInv => LockOutsAreExplained
    BY DEF AccessInv, Untouched, AtWork, LockOutsAreExplained, LockedOut
  <1> QED BY <1>1, <1>2, <1>3, StageAlways, PTL DEF ProcessSpec

-----------------------------------------------------------------------------
(* Bootstrap keys *)

\* Process s has stored a key of account n, or is about to.
Claims(s, n) == s \in keys[n] \/ (proc[s].pc = "key" /\ proc[s].name = n)

\* Whoever claims an account that was never deleted has created it, and
\* creates it alone.
ClaimsInv ==
    \A n \in Names \ deleted :
        /\ \A s \in Servers : Claims(s, n) => Exists(n)
        /\ \A s, t \in Servers : Claims(s, n) /\ Claims(t, n) => s = t

\* No step but CreateSuperuser makes a claim: the others leave accounts that
\* exist and were never deleted where they are.
LEMMA ClaimsOnlyEnd ==
    ASSUME ClaimsInv, deleted \subseteq deleted',
           \A n \in Names \ deleted' : Exists(n) => Exists(n)',
           \A t \in Servers, n \in Names \ deleted' : Claims(t, n)' => Claims(t, n)
    PROVE  ClaimsInv'
  BY DEF ClaimsInv

LEMMA ClaimsStep ==
    ASSUME StageInv, ClaimsInv, NEW s \in Servers, Start(s) \/ Main(s) \/ Others(s)
    PROVE  ClaimsInv'
  <1>0. proc[s] \in Proc /\ Stage(proc[s]) /\ StoredOK /\ proc \in [Servers -> Proc]
    BY StageInvParts
  <1>1. CASE CreateSuperuser(s)
    <2> DEFINE q == [proc[s] EXCEPT !.pc = "key"]
    <2>1. q.pc = "key" /\ q.name = proc[s].name
      BY <1>0 DEF Proc
    <2>2. \A t \in Servers : proc'[t] = IF t = s THEN q ELSE proc[t]
      BY <1>0, <1>1 DEF CreateSuperuser, Becomes
    <2> HIDE DEF q
    <2>3. /\ proc[s].name \in Names /\ ~Exists(proc[s].name) /\ UNCHANGED <<keys, deleted>>
          /\ \A n \in Names : accounts'[n] = IF n = proc[s].name THEN "superuser" ELSE accounts[n]
      BY <1>0, <1>1 DEF CreateSuperuser, Stored, Duplicate, Stage, StoredOK
    <2> QED BY <2>1, <2>2, <2>3 DEF ClaimsInv, Claims, Exists
  <1>2. CASE CreateFails(s) \/ IssueFails(s)
    <2> DEFINE q == [proc[s] EXCEPT !.pc = "backend", !.code = 1]
    <2>1. q.pc = "backend"
      BY <1>0 DEF Proc
    <2>2. \A t \in Servers : proc'[t] = IF t = s THEN q ELSE proc[t]
      BY <1>0, <1>2 DEF CreateFails, IssueFails, GiveUp, Becomes
    <2> HIDE DEF q
    <2>3. \A n \in Names : Exists(n) => Exists(n)'
      BY <1>0, <1>2 DEF CreateFails, IssueFails, Stored, Exists, StoredOK
    <2>4. \A t \in Servers, n \in Names :
              t \in keys'[n] => t \in keys[n] \/ (t = s /\ IssueFails(s) /\ n = proc[s].name)
      BY <1>0, <1>2 DEF CreateFails, IssueFails, StoredOK
    <2>5. IssueFails(s) => proc[s].pc = "key"
      BY DEF IssueFails
    <2>6. deleted' = deleted
      BY <1>2 DEF CreateFails, IssueFails
    <2>7. \A t \in Servers, n \in Names : Claims(t, n)' => Claims(t, n)
      BY <2>1, <2>2, <2>4, <2>5 DEF Claims
    <2> QED BY <2>3, <2>6, <2>7, ClaimsOnlyEnd
  <1>3. CASE IssueKey(s)
    <2> DEFINE q == [proc[s] EXCEPT !.pc = "log"]
    <2>1. q.pc = "log"
      BY <1>0 DEF Proc
    <2>2. \A t \in Servers : proc'[t] = IF t = s THEN q ELSE proc[t]
      BY <1>0, <1>3 DEF IssueKey, Becomes
    <2> HIDE DEF q
    <2>3. /\ UNCHANGED <<accounts, deleted>> /\ proc[s].pc = "key"
          /\ \A t \in Servers, n \in Names :
                 t \in keys'[n] => t \in keys[n] \/ (t = s /\ n = proc[s].name)
      BY <1>0, <1>3 DEF IssueKey, StoredOK
    <2>4. \A t \in Servers, n \in Names : Claims(t, n)' => Claims(t, n)
      BY <2>1, <2>2, <2>3 DEF Claims
    <2> QED BY <2>3, <2>4, ClaimsOnlyEnd DEF Exists
  <1>4. CASE LogKey(s) \/ Crash(s)
    <2>1. PICK q : Becomes(s, q) /\ q.pc # "key"
      BY <1>0, <1>4 DEF LogKey, Crash, Off, Proc
    <2>2. \A t \in Servers : proc'[t] = IF t = s THEN q ELSE proc[t]
      BY <1>0, <2>1 DEF Becomes
    <2>3. UNCHANGED <<accounts, keys, deleted>>
      BY <1>4 DEF LogKey, Crash
    <2>4. \A t \in Servers, n \in Names : Claims(t, n)' => Claims(t, n)
      BY <2>1, <2>2, <2>3 DEF Claims
    <2> QED BY <2>3, <2>4, ClaimsOnlyEnd DEF Exists
  <1>5. ASSUME NEW r \in Requests, Authorize(s, r) PROVE ClaimsInv'
    <2>1. proc'[s].pc = proc[s].pc /\ proc'[s].name = proc[s].name
      BY <1>0, <1>5 DEF Authorize, Becomes, Proc
    <2>2. \A t \in Servers \ {s} : proc'[t] = proc[t]
      BY <1>0, <1>5 DEF Authorize, Becomes
    <2>3. UNCHANGED <<accounts, keys, deleted>>
      BY <1>5 DEF Authorize, storedVars
    <2> QED BY <2>1, <2>2, <2>3 DEF ClaimsInv, Claims, Exists
  <1>6. ASSUME NEW r \in Requests, Apply(s, r) PROVE ClaimsInv'
    <2>1. proc'[s].pc = proc[s].pc /\ proc'[s].name = proc[s].name
      BY <1>0, <1>6 DEF Apply, Becomes, Proc
    <2>2. \A t \in Servers \ {s} : proc'[t] = proc[t]
      BY <1>0, <1>6 DEF Apply, Becomes
    <2>3. PICK m \in Names :
              \/ UNCHANGED storedVars
              \/ ChangeAccount(m) \/ ChangeCredentials(m)
      BY <1>0, <1>6 DEF Apply, Proc, Changes
    <2>4. /\ deleted \subseteq deleted'
          /\ \A n \in Names \ deleted' : Exists(n) => Exists(n)'
          /\ \A n \in Names : keys'[n] \subseteq keys[n]
      BY <1>0, <2>3 DEF storedVars, ChangeAccount, ChangeCredentials, Exists, StoredOK
    <2>5. \A t \in Servers, n \in Names : Claims(t, n)' => Claims(t, n)
      BY <2>1, <2>2, <2>4 DEF Claims
    <2> QED BY <2>4, <2>5, ClaimsOnlyEnd
  <1>7. CASE ~Working(s) /\ ~Changing(s)
    <2>1. \A t \in Servers, n \in Names : Claims(t, n)' => Claims(t, n)
      BY <1>7, OtherSteps DEF Claims, SameWork, AtWork, storedVars
    <2> QED BY <1>7, <2>1, OtherSteps, ClaimsOnlyEnd DEF Exists, storedVars
  <1> QED BY <1>1, <1>2, <1>3, <1>4, <1>5, <1>6, <1>7 DEF Working, Changing

\* However many processes create a superuser of one name at once, one of them
\* creates it and gives it its only bootstrap key, as long as the account is
\* not deleted meanwhile.
THEOREM BootstrapKeysAreUnique == ProcessSpec => []OneBootstrapKey
  <1>1. ProcessInit => ClaimsInv
    BY DEF ProcessInit, ClaimsInv, Claims, Off
  <1>2. StageInv /\ ClaimsInv /\ [ProcessNext]_processVars => ClaimsInv'
    <2>1. ASSUME ClaimsInv, UNCHANGED processVars PROVE ClaimsInv'
      BY <2>1 DEF processVars, ClaimsInv, Claims, Exists
    <2> QED BY <2>1, ClaimsStep DEF ProcessNext
  <1>3. StageInv /\ ClaimsInv => OneBootstrapKey
    <2> SUFFICES ASSUME StageInv, ClaimsInv, NEW n \in Names \ deleted
                 PROVE  Cardinality(keys[n]) <= 1
      BY DEF OneBootstrapKey
    <2>1. keys[n] = {} \/ \E s : keys[n] = {s}
      BY DEF ClaimsInv, Claims, StageInv, ProcessTypeOK
    <2>2. CASE keys[n] = {}
      BY <2>2, FS_EmptySet
    <2>3. CASE \E s : keys[n] = {s}
      <3>1. Cardinality(keys[n]) = 1
        BY <2>3, FS_Singleton
      <3> QED BY <3>1
    <2> QED BY <2>1, <2>2, <2>3
  <1> QED BY <1>1, <1>2, <1>3, StageAlways, PTL DEF ProcessSpec

=============================================================================
