--------------------------- MODULE PIDAllocation ---------------------------
(***************************************************************************)
(* service.CreateResource and service.BatchCreateResources: concurrent     *)
(* requests draw candidate PIDs from the runtime's generator and insert    *)
(* them into the shared Store, retrying when the store reports that a PID  *)
(* is in use.  Each backend call and each pull from the generator is a     *)
(* step; requests share nothing but the store.                             *)
(*                                                                         *)
(* The approximate total passed to the generator is left out: the shipped  *)
(* runtime ignores it and nothing else reads it.                           *)
(***************************************************************************)
EXTENDS Store

CONSTANTS
    Requests,        \* request handlers running allocatePIDs
    MaxPIDAttempts,  \* Limits.MaxPIDAttempts, at least 1
    MaxBatchItems    \* Limits.MaxBatchItems, 0 is no limit

\* single: CreateResource, not the batch call; size: the number of PIDs.
Jobs == [single : BOOLEAN, ns : NamespaceIDs, size : 0..MaxBatch]

ASSUME AllocationAssumption ==
    /\ MaxPIDAttempts \in Nat \ {0}
    /\ MaxBatchItems \in Nat
    /\ None \notin Jobs

VARIABLES       \* the local variables of request handler r
    pc,         \* what it does next
    job,        \* its arguments, or None
    format,     \* the PID format read by GetNamespace, or None
    chosen,     \* pids, as far as chosen in this round
    tries,      \* repeated candidates for the PID being chosen
    round,      \* inserts that collided
    drawn,      \* pulls from the generator so far
    result      \* how the request ended

counters == <<tries, round, drawn>>
handlerVars == <<pc, job, format, chosen, counters, result>>
allVars == <<vars, handlerVars>>

\* The values result takes once a request has ended: success, one of the
\* error codes, or a Go panic.
Codes == {"nil", "ItemLimitExceeded", "NamespaceNotFound", "DatabaseError",
          "BadIDGeneration", "InsufficientEntropy", "panic"}

\* The local variables of every handler have their types, over a well-typed
\* store.
AllocTypeOK ==
    /\ TypeOK
    /\ pc \in [Requests -> {"idle", "lookup", "draw", "insert", "done"}]
    /\ job \in [Requests -> Optional(Jobs)]
    /\ format \in [Requests -> Optional(Formats)]
    /\ chosen \in [Requests -> Seq(PIDs)]
    /\ tries \in [Requests -> Nat]
    /\ round \in [Requests -> Nat]
    /\ drawn \in [Requests -> Nat]
    /\ result \in [Requests -> Codes \cup {"none"}]

AllocInit ==
    /\ Init
    /\ pc = [r \in Requests |-> "idle"]
    /\ job = [r \in Requests |-> None]
    /\ format = [r \in Requests |-> None]
    /\ chosen = [r \in Requests |-> <<>>]
    /\ tries = [r \in Requests |-> 0]
    /\ round = [r \in Requests |-> 0]
    /\ drawn = [r \in Requests |-> 0]
    /\ result = [r \in Requests |-> "none"]

-----------------------------------------------------------------------------

GoTo(r, label) == pc' = [pc EXCEPT ![r] = label]

Finish(r, code) == GoTo(r, "done") /\ result' = [result EXCEPT ![r] = code]

Receive(r, single, n, size) ==
    /\ pc[r] = "idle"
    /\ single => size = 1
    /\ GoTo(r, "lookup")
    /\ job' = [job EXCEPT ![r] = [single |-> single, ns |-> n, size |-> size]]
    /\ UNCHANGED <<vars, format, chosen, counters, result>>

TooLarge(r) ==
    ~job[r].single /\ MaxBatchItems > 0 /\ job[r].size > MaxBatchItems

\* The batch limit, then GetNamespace.
LookupErr(r) ==
    IF TooLarge(r) THEN "ItemLimitExceeded"
    ELSE IF NamespaceErr(job[r].ns) # "nil" THEN "NamespaceNotFound"
    ELSE "nil"

\* Mutant of LookupFails: a missing namespace is not answered.
LookupFailsOnLimit(r) ==
    /\ pc[r] = "lookup"
    /\ LookupErr(r) = "ItemLimitExceeded"
    /\ Finish(r, LookupErr(r))
    /\ UNCHANGED <<vars, job, format, chosen, counters>>

LookupFails(r) ==
    /\ pc[r] = "lookup"
    /\ LookupErr(r) # "nil"
    /\ Finish(r, LookupErr(r))
    /\ UNCHANGED <<vars, job, format, chosen, counters>>

\* allocatePIDs returns at once when n = 0.
LookupOk(r) ==
    /\ pc[r] = "lookup"
    /\ LookupErr(r) = "nil"
    /\ format' = [format EXCEPT ![r] = namespaces[job[r].ns].pidFormat]
    /\ IF job[r].size = 0 THEN Finish(r, "nil")
       ELSE GoTo(r, "draw") /\ UNCHANGED result
    /\ UNCHANGED <<vars, job, chosen, counters>>

Chosen(r) == {chosen[r][i] : i \in DOMAIN chosen[r]}

\* Mutants of Acceptable: no format check; no check against the batch.
AcceptAny(r, c) == c \notin Chosen(r)
AcceptRepeated(r, c) == c \in format[r]

\* Candidate c is new in this batch and of the namespace's format.
Acceptable(r, c) == c \notin Chosen(r) /\ c \in format[r]

\* nextPID is called.
Pull(r) == pc[r] = "draw" /\ drawn' = [drawn EXCEPT ![r] = @ + 1]

DrawFresh(r, c) ==
    /\ Pull(r)
    /\ Acceptable(r, c)
    /\ chosen' = [chosen EXCEPT ![r] = Append(@, c)]
    /\ tries' = [tries EXCEPT ![r] = 0]
    /\ GoTo(r, IF Len(chosen[r]) + 1 = job[r].size THEN "insert" ELSE "draw")
    /\ UNCHANGED <<vars, job, format, round, result>>

\* A repetition within the batch costs one of the attempts for this PID.
DrawDuplicate(r, c) ==
    /\ Pull(r)
    /\ c \in Chosen(r)
    /\ tries[r] + 1 < MaxPIDAttempts
    /\ tries' = [tries EXCEPT ![r] = @ + 1]
    /\ UNCHANGED <<vars, pc, job, format, chosen, round, result>>

\* The last attempt repeated too: pids[i] keeps its zero value, and String()
\* of an invalid ValidPID panics in the format check.
DrawExhausted(r, c) ==
    /\ Pull(r)
    /\ c \in Chosen(r)
    /\ tries[r] + 1 >= MaxPIDAttempts
    /\ Finish(r, "panic")
    /\ UNCHANGED <<vars, job, format, chosen, tries, round>>

\* The candidate does not have the namespace's format.
DrawInvalid(r, c) ==
    /\ Pull(r)
    /\ c \notin Chosen(r) /\ ~Acceptable(r, c)
    /\ Finish(r, "BadIDGeneration")
    /\ UNCHANGED <<vars, job, format, chosen, tries, round>>

\* nextPID returned an error (the generator failed or ran dry), or a string
\* that api.NewPID refuses.
DrawFails(r) ==
    /\ Pull(r)
    /\ Finish(r, "BadIDGeneration")
    /\ UNCHANGED <<vars, job, format, chosen, tries, round>>

InsertErr(r) ==
    IF job[r].single THEN CreateResourceErr(job[r].ns, chosen[r][1])
    ELSE BatchCreateResourcesErr(job[r].ns, chosen[r])

InsertOk(r, contents, now) ==
    /\ pc[r] = "insert"
    /\ InsertErr(r) = "nil"
    /\ IF job[r].single
       THEN CreateResource(job[r].ns, chosen[r][1], contents[1], now)
       ELSE BatchCreateResources(job[r].ns, chosen[r], contents, now)
    /\ Finish(r, "nil")
    /\ UNCHANGED <<job, format, chosen, counters>>

\* Mutant of LastRound: one round more than the limit.
LastRoundPlusOne(r) == round[r] + 1 > MaxPIDAttempts

LastRound(r) == round[r] + 1 >= MaxPIDAttempts

\* The store reports a collision: a new round draws every PID afresh.
InsertCollides(r) ==
    /\ pc[r] = "insert"
    /\ InsertErr(r) = "ErrPIDAllocationFailed"
    /\ round' = [round EXCEPT ![r] = @ + 1]
    /\ chosen' = [chosen EXCEPT ![r] = <<>>]
    /\ IF LastRound(r) THEN Finish(r, "InsufficientEntropy")
       ELSE GoTo(r, "draw") /\ UNCHANGED result
    /\ UNCHANGED <<vars, job, format, tries, drawn>>

\* A backend call fails for a reason of its own; its transaction is undone.
BackendFails(r) ==
    /\ pc[r] \in {"lookup", "insert"}
    /\ Finish(r, "DatabaseError")
    /\ UNCHANGED <<vars, job, format, chosen, counters>>

\* What the handler does when the generator and the backend work.
Progress(r) ==
    \/ LookupFails(r)
    \/ LookupOk(r)
    \/ \E c \in PIDs : \/ DrawDuplicate(r, c)
                       \/ DrawExhausted(r, c)
                       \/ DrawFresh(r, c)
                       \/ DrawInvalid(r, c)
    \/ \E contents \in [DOMAIN chosen[r] -> Contents], now \in Times :
           InsertOk(r, contents, now)
    \/ InsertCollides(r)

RequestStep(r) == Progress(r) \/ DrawFails(r) \/ BackendFails(r)

Arrival ==
    \E r \in Requests, single \in BOOLEAN, n \in NamespaceIDs,
       size \in 0..MaxBatch : Receive(r, single, n, size)

\* Other clients: namespaces appear, resources are updated and marked deleted.
OtherClients ==
    /\ \/ \E n \in NamespaceIDs, f \in Formats, c \in Contents, now \in Times :
              CreateNamespace(n, None, f, c, now)
       \/ \E n \in NamespaceIDs, p \in PIDs, c \in Optional(Contents),
             d \in Optional(BOOLEAN), now \in Times :
              UpdateResource(n, p, c, d, now)
    /\ UNCHANGED handlerVars

AllocNext == Arrival \/ OtherClients \/ \E r \in Requests : RequestStep(r)

AllocSpec == AllocInit /\ [][AllocNext]_allVars

\* A handler goroutine keeps running.  Failures of the generator and the
\* backend may happen and need not.
FairAllocSpec ==
    AllocSpec /\ \A r \in Requests : WF_allVars(Progress(r))

-----------------------------------------------------------------------------
(* Properties *)

Succeeded(r) == pc[r] = "done" /\ result[r] = "nil"

Holds(r, n, p) == Succeeded(r) /\ job[r].ns = n /\ p \in Chosen(r)

\* The PIDs in the store are exactly those the successful requests were told
\* about, and no two requests were told the same one: a collision never hands
\* a PID out twice, and a batch that fails leaves no part of itself behind.
EveryPIDHasOneOwner ==
    \A n \in NamespaceIDs, p \in PIDs :
        /\ resources[n][p] # None => \E r \in Requests : Holds(r, n, p)
        /\ \A r, s \in Requests :
               Holds(r, n, p) /\ Holds(s, n, p) =>
                   r = s /\ resources[n][p] # None

\* Every stored PID has the format its namespace was created with, whatever
\* the generator returns.
PIDsMatchFormat ==
    \A n \in NamespaceIDs, p \in PIDs :
        resources[n][p] # None => NamespaceExists(n) /\ p \in namespaces[n].pidFormat

\* InsufficientEntropy means that other requests took PIDs of the namespace:
\* a batch never gives up by colliding with itself.
GivingUpMeansTaken ==
    \A r \in Requests :
        result[r] = "InsufficientEntropy" =>
            \E s \in Requests \ {r} :
                Succeeded(s) /\ job[s].ns = job[r].ns /\ job[s].size > 0

\* A request stops pulling after a bounded number of candidates: per round
\* one for the first PID and MaxPIDAttempts for each of the others.  (This is
\* more than the MaxPIDAttempts * n that allocatePIDs announces to Generate.)
PullsAreBounded ==
    \A r \in Requests :
        pc[r] # "idle" /\ job[r].size > 0 =>
            drawn[r] <=
                MaxPIDAttempts * (1 + (job[r].size - 1) * MaxPIDAttempts)

\* The documented outcomes of BatchCreateResources: collisions end in
\* InsufficientEntropy, never in a panic.
OnlyDocumentedOutcomes == \A r \in Requests : result[r] # "panic"

\* Every request is answered, however other requests interfere.
RequestsEnd ==
    \A r \in Requests : pc[r] = "lookup" ~> pc[r] = "done"

-----------------------------------------------------------------------------
(* The abstract registry this implements. *)

Registry == INSTANCE PIDRegistry WITH
    issued <- [n \in NamespaceIDs |-> {p \in PIDs : resources[n][p] # None}],
    asked  <- job,
    answer <- [r \in Requests |-> IF pc[r] # "done" THEN "pending"
                                  ELSE IF result[r] = "nil" THEN "issued"
                                  ELSE "refused"],
    handed <- [r \in Requests |-> IF Succeeded(r) THEN chosen[r] ELSE <<>>]

\* Concurrent allocation over the store implements the registry: each request
\* is refused without a trace or gets as many unused PIDs as it asked for.
ImplementsRegistry == Registry!Spec

=============================================================================
