-------------------------- MODULE AllocationProofs --------------------------
(***************************************************************************)
(* Concurrent allocation hands out every PID once, for any number of       *)
(* requests, PIDs and attempts.                                            *)
(***************************************************************************)
EXTENDS PIDAllocation, StoreProofs

-----------------------------------------------------------------------------
(* The inductive invariant *)

\* What a request handler knows at each label.  A handler that draws or
\* inserts has seen its namespace, whose format it keeps a copy of; the PIDs
\* it has chosen are different and of that format.
HandlerOK(r) ==
    /\ pc[r] = "idle" <=> job[r] = None
    /\ pc[r] = "done" <=> result[r] # "none"
    /\ pc[r] \in {"idle", "lookup"} => chosen[r] = <<>>
    /\ \A i, j \in DOMAIN chosen[r] : chosen[r][i] = chosen[r][j] => i = j
    /\ pc[r] # "idle" /\ job[r].single => job[r].size = 1
    /\ pc[r] \in {"draw", "insert"} =>
           /\ job[r].size > 0
           /\ NamespaceExists(job[r].ns)
           /\ format[r] = namespaces[job[r].ns].pidFormat
           /\ \A i \in DOMAIN chosen[r] : chosen[r][i] \in format[r]
    /\ pc[r] = "draw" => Len(chosen[r]) < job[r].size
    /\ pc[r] = "insert" \/ Succeeded(r) => Len(chosen[r]) = job[r].size

AllocInv ==
    /\ AllocTypeOK
    /\ \A r \in Requests : HandlerOK(r)
    /\ EveryPIDHasOneOwner
    /\ PIDsMatchFormat

\* The bounds on the constants.
LEMMA ConstantFacts ==
    /\ MaxBatch \in Nat
    /\ MaxPIDAttempts \in Nat \ {0}
    /\ MaxBatchItems \in Nat
    /\ None \notin Jobs
  BY StoreAssumption, AllocationAssumption DEF StoreAssumption, AllocationAssumption

-----------------------------------------------------------------------------
(* What the steps do to the store *)

\* Other clients leave the set of PIDs in use alone and keep the formats.
LEMMA ClientsEffect ==
    ASSUME AllocInv, OtherClients
    PROVE  /\ TypeOK'
           /\ \A n \in NamespaceIDs, p \in PIDs :
                  resources'[n][p] # None <=> resources[n][p] # None
           /\ \A n \in NamespaceIDs : NamespaceExists(n) =>
                  /\ namespaces'[n] # None
                  /\ namespaces'[n].pidFormat = namespaces[n].pidFormat
           /\ UNCHANGED handlerVars
  <1> USE DEF AllocInv, AllocTypeOK
  <1>1. ASSUME NEW n \in NamespaceIDs, NEW f \in Formats, NEW c \in Contents,
               NEW now \in Times, CreateNamespace(n, None, f, c, now)
        PROVE  /\ TypeOK'
               /\ \A m \in NamespaceIDs, p \in PIDs :
                      resources'[m][p] # None <=> resources[m][p] # None
               /\ \A m \in NamespaceIDs : NamespaceExists(m) =>
                      /\ namespaces'[m] # None
                      /\ namespaces'[m].pidFormat = namespaces[m].pidFormat
    <2>1. NamespaceStep
      BY <1>1 DEF NamespaceStep, Optional
    <2>2. TypeOK'
      BY <2>1, NamespaceStepType
    <2>3. ~NamespaceExists(n)
      BY <1>1 DEF CreateNamespace, CreateNamespaceErr
    <2>4. \A p \in PIDs : resources[n][p] = None /\ resources'[n][p] = None
      BY <1>1, <2>3 DEF CreateNamespace, NoResources, TypeOK, PIDsMatchFormat
    <2>5. \A m \in NamespaceIDs \ {n} :
              namespaces'[m] = namespaces[m] /\ resources'[m] = resources[m]
      BY <1>1 DEF CreateNamespace, TypeOK
    <2> QED BY <2>2, <2>3, <2>4, <2>5 DEF NamespaceExists
  <1>2. ASSUME NEW n \in NamespaceIDs, NEW p \in PIDs, NEW c \in Optional(Contents),
               NEW d \in Optional(BOOLEAN), NEW now \in Times,
               UpdateResource(n, p, c, d, now)
        PROVE  /\ TypeOK'
               /\ \A m \in NamespaceIDs, q \in PIDs :
                      resources'[m][q] # None <=> resources[m][q] # None
               /\ \A m \in NamespaceIDs : NamespaceExists(m) =>
                      /\ namespaces'[m] # None
                      /\ namespaces'[m].pidFormat = namespaces[m].pidFormat
    <2>1. ResourceStep
      BY <1>2 DEF ResourceStep
    <2>2. TypeOK'
      BY <2>1, ResourceStepType
    <2>3. PICK new \in ResourceRecord :
              /\ resources' = [resources EXCEPT ![n][p] = new]
              /\ resources[n][p] # None
              /\ new.dateCreated = resources[n][p].dateCreated
      BY <1>2, UpdateEffect
    <2>4. new # None
      BY NoneIsNoRecord DEF NoneIsNoRecord
    <2>5. \A m \in NamespaceIDs, q \in PIDs :
              resources'[m][q] = IF m = n /\ q = p THEN new ELSE resources[m][q]
      BY <2>3 DEF TypeOK
    <2>6. namespaces' = namespaces
      BY <1>2 DEF UpdateResource
    <2> QED BY <2>2, <2>3, <2>4, <2>5, <2>6 DEF NamespaceExists
  <1> QED BY <1>1, <1>2 DEF OtherClients

\* The batch a handler inserts is one the store accepts as an argument.
LEMMA ChosenIsBatch ==
    ASSUME AllocInv, NEW r \in Requests, pc[r] = "insert"
    PROVE  /\ job[r] \in Jobs
           /\ chosen[r] \in Batches
           /\ DOMAIN chosen[r] = 1..job[r].size
           /\ 1 \in DOMAIN chosen[r]
           /\ chosen[r] \in [1..job[r].size -> PIDs]
  <1>1. job[r] \in Jobs
    BY DEF AllocInv, AllocTypeOK, HandlerOK, Optional
  <1>2. job[r].size \in 0..MaxBatch /\ job[r].size > 0
    BY <1>1 DEF Jobs, AllocInv, HandlerOK
  <1>3. chosen[r] \in Seq(PIDs) /\ Len(chosen[r]) = job[r].size
    BY DEF AllocInv, AllocTypeOK, HandlerOK
  <1>4. chosen[r] \in [1..job[r].size -> PIDs]
    BY <1>3
  <1>5. chosen[r] \in Batches
    BY <1>2, <1>4 DEF Batches
  <1> QED BY <1>1, <1>2, <1>4, <1>5, ConstantFacts

\* A successful insert adds exactly the chosen PIDs, none of which was in use.
LEMMA InsertEffect ==
    ASSUME AllocInv, NEW r \in Requests,
           NEW contents \in [DOMAIN chosen[r] -> Contents], NEW now \in Times,
           InsertOk(r, contents, now)
    PROVE  /\ TypeOK'
           /\ \A n \in NamespaceIDs, p \in PIDs :
                  resources'[n][p] # None <=>
                      \/ resources[n][p] # None
                      \/ n = job[r].ns /\ p \in Chosen(r)
           /\ \A p \in Chosen(r) : resources[job[r].ns][p] = None
           /\ namespaces' = namespaces
  <1> DEFINE n == job[r].ns
  <1>1. /\ job[r] \in Jobs
        /\ chosen[r] \in Batches
        /\ DOMAIN chosen[r] = 1..job[r].size
        /\ 1 \in DOMAIN chosen[r]
        /\ chosen[r] \in [1..job[r].size -> PIDs]
    BY ChosenIsBatch DEF InsertOk
  <1>2. n \in NamespaceIDs
    BY <1>1 DEF Jobs
  <1>3. TypeOK
    BY DEF AllocInv, AllocTypeOK
  <1>4. CASE job[r].single
    <2>1. CreateResource(n, chosen[r][1], contents[1], now)
      BY <1>4 DEF InsertOk
    <2>2. chosen[r][1] \in PIDs /\ contents[1] \in Contents
      BY <1>1
    <2>3. ResourceStep
      BY <1>2, <2>1, <2>2 DEF ResourceStep
    <2>4. TypeOK'
      BY <1>3, <2>3, ResourceStepType
    <2>5. job[r].size = 1
      BY <1>4 DEF AllocInv, HandlerOK, InsertOk
    <2>6. DOMAIN chosen[r] = {1}
      BY <1>1, <2>5
    <2>7. Chosen(r) = {chosen[r][1]}
      BY <2>6 DEF Chosen
    <2>8. NewResource(contents[1], now) # None
      BY <2>2, NewResourceType
    <2>9. \A m \in NamespaceIDs, q \in PIDs :
              resources'[m][q] = IF m = n /\ q = chosen[r][1]
                                 THEN NewResource(contents[1], now)
                                 ELSE resources[m][q]
      BY <1>2, <1>3, <2>1, <2>2 DEF CreateResource, TypeOK
    <2>10. resources[n][chosen[r][1]] = None /\ namespaces' = namespaces
      BY <2>1 DEF CreateResource, CreateResourceErr
    <2> QED BY <2>4, <2>7, <2>8, <2>9, <2>10
  <1>5. CASE ~job[r].single
    <2>1. BatchCreateResources(n, chosen[r], contents, now)
      BY <1>5 DEF InsertOk
    <2>2. ResourceStep
      BY <1>1, <1>2, <2>1 DEF ResourceStep
    <2>3. TypeOK'
      BY <1>3, <2>2, ResourceStepType
    <2>4. /\ \A p \in PIDs :
                  IF \E i \in DOMAIN chosen[r] : chosen[r][i] = p
                  THEN resources[n][p] = None /\ resources'[n][p] \in ResourceRecord
                  ELSE resources'[n][p] = resources[n][p]
          /\ \A m \in NamespaceIDs \ {n} : resources'[m] = resources[m]
      BY <1>2, <1>3, <2>1, BatchEffect
    <2>5. \A p : p \in Chosen(r) <=> \E i \in DOMAIN chosen[r] : chosen[r][i] = p
      BY DEF Chosen
    <2>6. \A p \in Chosen(r) : p \in PIDs
      BY <1>1, <2>5
    <2>7. namespaces' = namespaces
      BY <2>1 DEF BatchCreateResources
    <2> HIDE DEF n
    <2> QED BY <2>3, <2>4, <2>5, <2>6, <2>7, NoneIsNoRecord DEF NoneIsNoRecord, n
  <1> QED BY <1>4, <1>5

-----------------------------------------------------------------------------
(* Steps of one handler *)

\* A handler that is not moved keeps what it knows, since namespaces and
\* their formats stay.
LEMMA RestingHandler ==
    ASSUME AllocInv, NEW s \in Requests, HandlerOK(s),
           pc'[s] = pc[s], job'[s] = job[s], format'[s] = format[s],
           chosen'[s] = chosen[s], result'[s] = result[s],
           \A n \in NamespaceIDs : NamespaceExists(n) =>
               /\ namespaces'[n] # None
               /\ namespaces'[n].pidFormat = namespaces[n].pidFormat
    PROVE  HandlerOK(s)'
  <1>1. pc[s] # "idle" => job[s].ns \in NamespaceIDs
    BY DEF HandlerOK, AllocInv, AllocTypeOK, Optional, Jobs
  <1> QED BY <1>1 DEF HandlerOK, NamespaceExists, Succeeded

\* As long as the store is not written and the same requests hold the same
\* PIDs, the two agree as before.
LEMMA StoreUntouched ==
    ASSUME AllocInv, UNCHANGED vars,
           \A s \in Requests, n \in NamespaceIDs, p \in PIDs :
               Holds(s, n, p)' <=> Holds(s, n, p)
    PROVE  EveryPIDHasOneOwner' /\ PIDsMatchFormat'
  <1>1. resources' = resources /\ namespaces' = namespaces
    BY DEF vars
  <1>2. PIDsMatchFormat'
    BY <1>1 DEF AllocInv, PIDsMatchFormat, NamespaceExists
  <1>3. EveryPIDHasOneOwner'
    <2> HIDE DEF Holds
    <2> QED BY <1>1 DEF AllocInv, EveryPIDHasOneOwner
  <1> QED BY <1>2, <1>3

\* The same, for a step in which r does not succeed.
LEMMA NoSuccess ==
    ASSUME AllocInv, UNCHANGED vars, NEW r \in Requests,
           ~Succeeded(r), ~Succeeded(r)',
           \A s \in Requests \ {r} :
               /\ pc'[s] = pc[s] /\ job'[s] = job[s]
               /\ chosen'[s] = chosen[s] /\ result'[s] = result[s]
    PROVE  EveryPIDHasOneOwner' /\ PIDsMatchFormat'
  <1>1. \A s \in Requests, n \in NamespaceIDs, p \in PIDs :
            Holds(s, n, p)' <=> Holds(s, n, p)
    BY DEF Holds, Succeeded, Chosen
  <1> QED BY <1>1, StoreUntouched

\* A request that arrives has chosen nothing.
LEMMA ReceiveInv ==
    ASSUME AllocInv, NEW r \in Requests, NEW single \in BOOLEAN,
           NEW n \in NamespaceIDs, NEW size \in 0..MaxBatch,
           Receive(r, single, n, size)
    PROVE  AllocInv'
  <1> DEFINE j == [single |-> single, ns |-> n, size |-> size]
  <1>1. j \in Jobs /\ j # None
    BY ConstantFacts DEF Jobs
  <1>2. TypeOK'
    BY DEF AllocInv, AllocTypeOK, Receive, TypeOK, vars
  <1>3. AllocTypeOK'
    BY <1>1, <1>2 DEF AllocInv, AllocTypeOK, Receive, GoTo, counters, Optional
  <1>4. /\ pc[r] = "idle" /\ pc'[r] = "lookup" /\ job'[r] = j
        /\ UNCHANGED <<vars, format, chosen, result>>
        /\ \A s \in Requests \ {r} : pc'[s] = pc[s] /\ job'[s] = job[s]
    BY DEF AllocInv, AllocTypeOK, Receive, GoTo
  <1>5. j.single => j.size = 1
    BY DEF Receive
  <1>6. HandlerOK(r)'
    BY <1>1, <1>4, <1>5 DEF AllocInv, HandlerOK, Succeeded
  <1>7. \A s \in Requests \ {r} : HandlerOK(s)'
    BY <1>4, RestingHandler DEF AllocInv, vars, NamespaceExists
  <1>8. EveryPIDHasOneOwner' /\ PIDsMatchFormat'
    BY <1>4, NoSuccess DEF Succeeded
  <1> QED BY <1>3, <1>6, <1>7, <1>8 DEF AllocInv

\* A request that is refused stores nothing, whatever it has chosen.
LEMMA RefuseInv ==
    ASSUME AllocInv, NEW r \in Requests, NEW code \in Codes \ {"nil"},
           pc[r] \in {"lookup", "draw", "insert"},
           Finish(r, code), UNCHANGED <<vars, job, format>>,
           chosen' = chosen \/ chosen' = [chosen EXCEPT ![r] = <<>>],
           tries' \in [Requests -> Nat], round' \in [Requests -> Nat],
           drawn' \in [Requests -> Nat]
    PROVE  AllocInv'
  <1>1. TypeOK'
    BY DEF AllocInv, AllocTypeOK, TypeOK, vars
  <1>2. chosen' \in [Requests -> Seq(PIDs)] /\ chosen'[r] \in {chosen[r], <<>>}
    <2>1. chosen \in [Requests -> Seq(PIDs)] /\ <<>> \in Seq(PIDs)
      BY DEF AllocInv, AllocTypeOK
    <2>2. CASE chosen' = chosen
      BY <2>1, <2>2
    <2>3. CASE chosen' = [chosen EXCEPT ![r] = <<>>]
      BY <2>1, <2>3, Zenon
    <2> QED BY <2>2, <2>3
  <1>3. AllocTypeOK'
    BY <1>1, <1>2 DEF AllocInv, AllocTypeOK, Finish, GoTo, Codes
  <1>4. /\ pc'[r] = "done" /\ result'[r] = code
        /\ \A s \in Requests \ {r} : /\ pc'[s] = pc[s] /\ result'[s] = result[s]
                                     /\ chosen'[s] = chosen[s]
    BY DEF AllocInv, AllocTypeOK, Finish, GoTo
  <1>5. code # "none"
    BY DEF Codes
  <1>6. HandlerOK(r)'
    BY <1>2, <1>4, <1>5 DEF AllocInv, HandlerOK, Succeeded
  <1>7. \A s \in Requests \ {r} : HandlerOK(s)'
    BY <1>4, RestingHandler DEF AllocInv, vars, NamespaceExists
  <1>8. EveryPIDHasOneOwner' /\ PIDsMatchFormat'
    BY <1>4, NoSuccess DEF Succeeded
  <1> QED BY <1>3, <1>6, <1>7, <1>8 DEF AllocInv

\* A request for nothing succeeds at once and holds nothing; the others keep
\* a copy of the format of their namespace.
LEMMA LookupOkInv ==
    ASSUME AllocInv, NEW r \in Requests, LookupOk(r)
    PROVE  AllocInv'
  <1> DEFINE n == job[r].ns
  <1>1. /\ job[r] \in Jobs /\ n \in NamespaceIDs
        /\ NamespaceExists(n) /\ chosen[r] = <<>> /\ result[r] = "none"
    BY DEF LookupOk, LookupErr, NamespaceErr, AllocInv, AllocTypeOK, HandlerOK,
           Optional, Jobs
  <1>2. namespaces[n].pidFormat \in Formats
    BY <1>1 DEF AllocInv, AllocTypeOK, TypeOK, NamespaceExists, NamespaceRecord,
                Optional
  <1>3. TypeOK'
    BY DEF AllocInv, AllocTypeOK, TypeOK, vars, LookupOk
  <1>4. AllocTypeOK'
    BY <1>2, <1>3 DEF AllocInv, AllocTypeOK, LookupOk, GoTo, Finish, counters,
       Codes, Optional
  <1>5. /\ IF job[r].size = 0 THEN pc'[r] = "done" /\ result'[r] = "nil"
           ELSE pc'[r] = "draw" /\ result'[r] = "none"
        /\ format'[r] = namespaces[n].pidFormat
        /\ UNCHANGED <<vars, job, chosen>>
        /\ \A s \in Requests \ {r} : /\ pc'[s] = pc[s] /\ result'[s] = result[s]
                                     /\ format'[s] = format[s]
    BY <1>1 DEF AllocInv, AllocTypeOK, LookupOk, GoTo, Finish
  <1>6. job[r].size \in Nat
    BY <1>1, ConstantFacts DEF Jobs
  <1>7. HandlerOK(r)'
    BY <1>1, <1>5, <1>6 DEF AllocInv, HandlerOK, Succeeded, NamespaceExists, vars,
       LookupOk
  <1>8. \A s \in Requests \ {r} : HandlerOK(s)'
    BY <1>5, RestingHandler DEF AllocInv, vars, NamespaceExists
  <1>9. \A s \in Requests, m \in NamespaceIDs, p \in PIDs :
            Holds(s, m, p)' <=> Holds(s, m, p)
    <2>1. Chosen(r) = {} /\ Chosen(r)' = {}
      BY <1>1, <1>5 DEF Chosen
    <2> QED BY <1>5, <2>1 DEF Holds, Succeeded, Chosen
  <1>10. EveryPIDHasOneOwner' /\ PIDsMatchFormat'
    BY <1>5, <1>9, StoreUntouched
  <1> QED BY <1>4, <1>7, <1>8, <1>10 DEF AllocInv

\* A candidate is added only when it is new in the batch and of the format.
LEMMA DrawFreshInv ==
    ASSUME AllocInv, NEW r \in Requests, NEW c \in PIDs, DrawFresh(r, c)
    PROVE  AllocInv'
  <1>1. TypeOK'
    BY DEF AllocInv, AllocTypeOK, TypeOK, vars, DrawFresh
  <1>2. AllocTypeOK'
    BY <1>1 DEF AllocInv, AllocTypeOK, DrawFresh, Pull, GoTo
  <1>3. /\ pc[r] = "draw"
        /\ pc'[r] = IF Len(chosen[r]) + 1 = job[r].size THEN "insert" ELSE "draw"
        /\ chosen'[r] = Append(chosen[r], c)
        /\ UNCHANGED <<vars, job, format, result>>
        /\ \A s \in Requests \ {r} : pc'[s] = pc[s] /\ chosen'[s] = chosen[s]
    BY DEF AllocInv, AllocTypeOK, DrawFresh, Pull, GoTo
  <1>4. /\ chosen[r] \in Seq(PIDs)
        /\ \A i, j \in DOMAIN chosen[r] : chosen[r][i] = chosen[r][j] => i = j
        /\ \A i \in DOMAIN chosen[r] : chosen[r][i] \in format[r]
        /\ Len(chosen[r]) < job[r].size /\ job[r] \in Jobs
    BY <1>3 DEF AllocInv, AllocTypeOK, HandlerOK, Optional
  <1>5. c \in format[r] /\ \A i \in DOMAIN chosen[r] : chosen[r][i] # c
    BY DEF DrawFresh, Acceptable, Chosen
  <1>6. /\ \A i, j \in DOMAIN chosen'[r] : chosen'[r][i] = chosen'[r][j] => i = j
        /\ \A i \in DOMAIN chosen'[r] : chosen'[r][i] \in format[r]
        /\ Len(chosen'[r]) = Len(chosen[r]) + 1
    BY <1>3, <1>4, <1>5
  <1>7. job[r].size \in Nat /\ Len(chosen[r]) \in Nat
    BY <1>4, ConstantFacts DEF Jobs
  <1>8. HandlerOK(r)'
    BY <1>3, <1>4, <1>6, <1>7 DEF AllocInv, HandlerOK, Succeeded,
       NamespaceExists, vars
  <1>9. \A s \in Requests \ {r} : HandlerOK(s)'
    BY <1>3, RestingHandler DEF AllocInv, vars, NamespaceExists
  <1>10. EveryPIDHasOneOwner' /\ PIDsMatchFormat'
    BY <1>3, NoSuccess DEF Succeeded
  <1> QED BY <1>2, <1>8, <1>9, <1>10 DEF AllocInv

\* A repeated candidate only costs an attempt.
LEMMA DrawDuplicateInv ==
    ASSUME AllocInv, NEW r \in Requests, NEW c \in PIDs, DrawDuplicate(r, c)
    PROVE  AllocInv'
  <1>1. UNCHANGED <<vars, pc, job, format, chosen, round, result>>
    BY DEF DrawDuplicate
  <1>2. TypeOK'
    BY <1>1 DEF AllocInv, AllocTypeOK, TypeOK, vars
  <1>3. AllocTypeOK'
    BY <1>2 DEF AllocInv, AllocTypeOK, DrawDuplicate, Pull
  <1>4. \A s \in Requests : HandlerOK(s)'
    BY <1>1, RestingHandler DEF AllocInv, vars, NamespaceExists
  <1>5. EveryPIDHasOneOwner' /\ PIDsMatchFormat'
    BY <1>1, StoreUntouched DEF Holds, Succeeded, Chosen
  <1> QED BY <1>3, <1>4, <1>5 DEF AllocInv

\* A collision that is retried starts the round with nothing chosen.
LEMMA RetryInv ==
    ASSUME AllocInv, NEW r \in Requests, InsertCollides(r), ~LastRound(r)
    PROVE  AllocInv'
  <1>1. /\ pc[r] = "insert"
        /\ round' = [round EXCEPT ![r] = @ + 1]
        /\ chosen' = [chosen EXCEPT ![r] = <<>>]
        /\ pc' = [pc EXCEPT ![r] = "draw"]
        /\ UNCHANGED <<vars, job, format, tries, drawn, result>>
    BY DEF InsertCollides, GoTo
  <1>2. TypeOK'
    BY <1>1 DEF AllocInv, AllocTypeOK, TypeOK, vars
  <1>3. chosen' \in [Requests -> Seq(PIDs)]
    <2>1. chosen \in [Requests -> Seq(PIDs)] /\ <<>> \in Seq(PIDs)
      BY DEF AllocInv, AllocTypeOK
    <2> QED BY <1>1, <2>1, Zenon
  <1>4. AllocTypeOK'
    BY <1>1, <1>2, <1>3 DEF AllocInv, AllocTypeOK
  <1>5. /\ pc'[r] = "draw" /\ chosen'[r] = <<>>
        /\ \A s \in Requests \ {r} : pc'[s] = pc[s] /\ chosen'[s] = chosen[s]
    BY <1>1 DEF AllocInv, AllocTypeOK
  <1>6. job[r].size \in Nat
    BY <1>1, ChosenIsBatch, ConstantFacts DEF Jobs
  <1>7. HandlerOK(r)'
    BY <1>1, <1>5, <1>6 DEF AllocInv, HandlerOK, Succeeded, NamespaceExists, vars
  <1>8. \A s \in Requests \ {r} : HandlerOK(s)'
    BY <1>1, <1>5, RestingHandler DEF AllocInv, vars, NamespaceExists
  <1>9. EveryPIDHasOneOwner' /\ PIDsMatchFormat'
    BY <1>1, <1>5, NoSuccess DEF Succeeded
  <1> QED BY <1>4, <1>7, <1>8, <1>9 DEF AllocInv

\* A successful insert makes r the one owner of the PIDs it chose.
LEMMA InsertOkInv ==
    ASSUME AllocInv, NEW r \in Requests,
           NEW contents \in [DOMAIN chosen[r] -> Contents], NEW now \in Times,
           InsertOk(r, contents, now)
    PROVE  AllocInv'
  <1> DEFINE n == job[r].ns
  <1>1. /\ TypeOK'
        /\ \A m \in NamespaceIDs, p \in PIDs :
               resources'[m][p] # None <=>
                   resources[m][p] # None \/ (m = n /\ p \in Chosen(r))
        /\ \A p \in Chosen(r) : resources[n][p] = None
        /\ namespaces' = namespaces
    BY InsertEffect
  <1>2. AllocTypeOK'
    BY <1>1 DEF AllocInv, AllocTypeOK, InsertOk, Finish, GoTo, Codes, counters
  <1>3. /\ pc[r] = "insert" /\ pc'[r] = "done" /\ result'[r] = "nil"
        /\ UNCHANGED <<job, format, chosen>>
        /\ \A s \in Requests \ {r} : pc'[s] = pc[s] /\ result'[s] = result[s]
    BY DEF AllocInv, AllocTypeOK, InsertOk, Finish, GoTo
  <1>4. HandlerOK(r)'
    BY <1>3 DEF AllocInv, HandlerOK, Succeeded
  <1>5. \A s \in Requests \ {r} : HandlerOK(s)'
    BY <1>1, <1>3, RestingHandler DEF AllocInv, NamespaceExists
  <1>6. PIDsMatchFormat'
    <2>1. NamespaceExists(n) /\ \A p \in Chosen(r) : p \in namespaces[n].pidFormat
      BY <1>3 DEF AllocInv, HandlerOK, Chosen
    <2> QED BY <1>1, <2>1 DEF AllocInv, PIDsMatchFormat, NamespaceExists
  <1>7. EveryPIDHasOneOwner'
    <2>1. \A s \in Requests, m \in NamespaceIDs, p \in PIDs :
              Holds(s, m, p)' <=>
                  Holds(s, m, p) \/ (s = r /\ m = n /\ p \in Chosen(r))
      BY <1>3 DEF Holds, Succeeded, Chosen
    <2>2. \A s \in Requests, m \in NamespaceIDs, p \in PIDs :
              Holds(s, m, p) => resources[m][p] # None
      <3> TAKE s \in Requests, m \in NamespaceIDs, p \in PIDs
      <3>1. \A q, t \in Requests :
                Holds(q, m, p) /\ Holds(t, m, p) => q = t /\ resources[m][p] # None
        BY Zenon DEF AllocInv, EveryPIDHasOneOwner
      <3> QED BY <3>1
    <2>3. \A m \in NamespaceIDs, p \in PIDs :
              resources'[m][p] # None => \E s \in Requests : Holds(s, m, p)'
      <3> TAKE m \in NamespaceIDs, p \in PIDs
      <3>1. resources[m][p] # None => \E s \in Requests : Holds(s, m, p)
        BY DEF AllocInv, EveryPIDHasOneOwner
      <3>2. \A s \in Requests : Holds(s, m, p)' <=>
                Holds(s, m, p) \/ (s = r /\ m = n /\ p \in Chosen(r))
        BY <2>1
      <3>3. resources'[m][p] # None => resources[m][p] # None \/ (m = n /\ p \in Chosen(r))
        BY <1>1
      <3> HIDE DEF n
      <3> QED BY <3>1, <3>2, <3>3
    <2>4. \A m \in NamespaceIDs, p \in PIDs, s \in Requests, t \in Requests :
              Holds(s, m, p)' /\ Holds(t, m, p)' => s = t /\ resources'[m][p] # None
      BY <1>1, <2>1, <2>2 DEF AllocInv, EveryPIDHasOneOwner
    <2> QED BY <2>3, <2>4 DEF EveryPIDHasOneOwner
  <1> QED BY <1>2, <1>4, <1>5, <1>6, <1>7 DEF AllocInv

\* Other clients take no PID and change no format.
LEMMA ClientsInv ==
    ASSUME AllocInv, OtherClients
    PROVE  AllocInv'
  <1>1. /\ TypeOK'
        /\ \A n \in NamespaceIDs, p \in PIDs :
               resources'[n][p] # None <=> resources[n][p] # None
        /\ \A n \in NamespaceIDs : NamespaceExists(n) =>
               /\ namespaces'[n] # None
               /\ namespaces'[n].pidFormat = namespaces[n].pidFormat
        /\ UNCHANGED handlerVars
    BY ClientsEffect
  <1>2. UNCHANGED <<pc, job, format, chosen, tries, round, drawn, result>>
    BY <1>1 DEF handlerVars, counters
  <1>3. AllocTypeOK'
    BY <1>1, <1>2 DEF AllocInv, AllocTypeOK
  <1>4. \A s \in Requests : HandlerOK(s)'
    BY <1>1, <1>2, RestingHandler DEF AllocInv
  <1>5. PIDsMatchFormat'
    BY <1>1 DEF AllocInv, PIDsMatchFormat, NamespaceExists
  <1>6. EveryPIDHasOneOwner'
    BY <1>1, <1>2 DEF AllocInv, EveryPIDHasOneOwner, Holds, Succeeded, Chosen
  <1> QED BY <1>3, <1>4, <1>5, <1>6 DEF AllocInv

\* Every step keeps the invariant.
LEMMA StepInv == AllocInv /\ [AllocNext]_allVars => AllocInv'
  <1> SUFFICES ASSUME AllocInv, [AllocNext]_allVars PROVE AllocInv'
    OBVIOUS
  <1>1. CASE UNCHANGED allVars
    <2>1. /\ UNCHANGED <<users, namespaces, resources, roles, mounts, mountGrants>>
          /\ UNCHANGED <<pc, job, format, chosen, tries, round, drawn, result>>
      BY <1>1 DEF allVars, vars, handlerVars, counters
    <2> QED BY <2>1 DEF AllocInv, AllocTypeOK, TypeOK, HandlerOK, Succeeded,
               NamespaceExists, EveryPIDHasOneOwner, PIDsMatchFormat, Holds, Chosen
  <1>2. CASE Arrival
    BY <1>2, ReceiveInv DEF Arrival
  <1>3. CASE OtherClients
    BY <1>3, ClientsInv
  <1>4. ASSUME NEW r \in Requests, RequestStep(r) PROVE AllocInv'
    <2>1. /\ tries \in [Requests -> Nat] /\ round \in [Requests -> Nat]
          /\ drawn \in [Requests -> Nat]
      BY DEF AllocInv, AllocTypeOK
    <2>2. CASE LookupFails(r)
      <3>1. LookupErr(r) \in Codes \ {"nil"}
        BY <2>2 DEF LookupFails, LookupErr, Codes
      <3>2. /\ pc[r] = "lookup" /\ Finish(r, LookupErr(r))
            /\ UNCHANGED <<vars, job, format, chosen, tries, round, drawn>>
        BY <2>2 DEF LookupFails, counters
      <3> QED BY <2>1, <3>1, <3>2, RefuseInv
    <2>3. CASE LookupOk(r)
      BY <2>3, LookupOkInv
    <2>4. ASSUME NEW c \in PIDs,
                 \/ DrawDuplicate(r, c) \/ DrawExhausted(r, c)
                 \/ DrawFresh(r, c)     \/ DrawInvalid(r, c)
          PROVE  AllocInv'
      <3>1. CASE DrawExhausted(r, c)
        <4>1. /\ pc[r] = "draw" /\ Finish(r, "panic")
              /\ UNCHANGED <<vars, job, format, chosen, tries, round>>
              /\ drawn' \in [Requests -> Nat]
          BY <2>1, <3>1 DEF DrawExhausted, Pull
        <4>2. "panic" \in Codes \ {"nil"}
          BY DEF Codes
        <4> QED BY <2>1, <4>1, <4>2, RefuseInv
      <3>2. CASE DrawInvalid(r, c)
        <4>1. /\ pc[r] = "draw" /\ Finish(r, "BadIDGeneration")
              /\ UNCHANGED <<vars, job, format, chosen, tries, round>>
              /\ drawn' \in [Requests -> Nat]
          BY <2>1, <3>2 DEF DrawInvalid, Pull
        <4>2. "BadIDGeneration" \in Codes \ {"nil"}
          BY DEF Codes
        <4> QED BY <2>1, <4>1, <4>2, RefuseInv
      <3> QED BY <2>4, <3>1, <3>2, DrawFreshInv, DrawDuplicateInv
    <2>5. CASE DrawFails(r)
      <3>1. /\ pc[r] = "draw" /\ Finish(r, "BadIDGeneration")
            /\ UNCHANGED <<vars, job, format, chosen, tries, round>>
            /\ drawn' \in [Requests -> Nat]
        BY <2>1, <2>5 DEF DrawFails, Pull
      <3>2. "BadIDGeneration" \in Codes \ {"nil"}
        BY DEF Codes
      <3> QED BY <2>1, <3>1, <3>2, RefuseInv
    <2>6. CASE InsertCollides(r)
      <3>1. CASE LastRound(r)
        <4>1. /\ pc[r] = "insert" /\ Finish(r, "InsufficientEntropy")
              /\ UNCHANGED <<vars, job, format, tries, drawn>>
              /\ chosen' = [chosen EXCEPT ![r] = <<>>]
              /\ round' \in [Requests -> Nat]
          BY <2>1, <2>6, <3>1 DEF InsertCollides
        <4>2. "InsufficientEntropy" \in Codes \ {"nil"}
          BY DEF Codes
        <4> QED BY <2>1, <4>1, <4>2, RefuseInv
      <3> QED BY <2>6, <3>1, RetryInv
    <2>7. CASE BackendFails(r)
      <3>1. /\ pc[r] \in {"lookup", "insert"} /\ Finish(r, "DatabaseError")
            /\ UNCHANGED <<vars, job, format, chosen, tries, round, drawn>>
        BY <2>7 DEF BackendFails, counters
      <3>2. "DatabaseError" \in Codes \ {"nil"}
        BY DEF Codes
      <3> QED BY <2>1, <3>1, <3>2, RefuseInv
    <2>8. ASSUME NEW contents \in [DOMAIN chosen[r] -> Contents], NEW now \in Times,
                 InsertOk(r, contents, now)
          PROVE  AllocInv'
      BY <2>8, InsertOkInv
    <2> QED BY <1>4, <2>2, <2>3, <2>4, <2>5, <2>6, <2>7, <2>8
            DEF RequestStep, Progress
  <1> QED BY <1>1, <1>2, <1>3, <1>4 DEF AllocNext

\* Before the first request no PID is in use.
LEMMA InitInv == AllocInit => AllocInv
  <1> SUFFICES ASSUME AllocInit PROVE AllocInv
    OBVIOUS
  <1>1. TypeOK
    BY DEF AllocInit, Init, TypeOK, Optional, NoResources, Roles
  <1>2. AllocTypeOK
    BY <1>1 DEF AllocInit, AllocTypeOK, Optional, Codes
  <1>3. \A r \in Requests : HandlerOK(r)
    BY DEF AllocInit, HandlerOK, Succeeded
  <1>4. EveryPIDHasOneOwner /\ PIDsMatchFormat
    BY DEF AllocInit, Init, NoResources, EveryPIDHasOneOwner, PIDsMatchFormat,
           Holds, Succeeded
  <1> QED BY <1>2, <1>3, <1>4 DEF AllocInv

\* Whatever the generator returns and however requests interleave, every PID
\* in the store has exactly one request that was told about it, and has the
\* format of its namespace.
THEOREM AllocationSafe ==
    AllocSpec => [](AllocTypeOK /\ EveryPIDHasOneOwner /\ PIDsMatchFormat)
  <1>1. AllocInv => AllocTypeOK /\ EveryPIDHasOneOwner /\ PIDsMatchFormat
    BY DEF AllocInv
  <1> QED BY <1>1, InitInv, StepInv, PTL DEF AllocSpec

\* The handlers of concurrent requests always work on values of their types.
THEOREM AllocationTypeCorrect == AllocSpec => []AllocTypeOK
  BY AllocationSafe, PTL

\* A PID in the store has the format its namespace was created with, although
\* the handler read the format before it drew and inserted.
THEOREM PIDsHaveTheirFormat == AllocSpec => []PIDsMatchFormat
  BY AllocationSafe, PTL

-----------------------------------------------------------------------------
(* Refinement of the registry *)

\* A step that ends r without success refuses it.
LEMMA RefuseMaps ==
    ASSUME AllocInv, NEW r \in Requests, NEW code \in Codes \ {"nil"},
           pc[r] \in {"lookup", "draw", "insert"},
           Finish(r, code), UNCHANGED <<vars, job>>,
           chosen' = chosen \/ chosen' = [chosen EXCEPT ![r] = <<>>]
    PROVE  Registry!Refuse(r)
  <1>1. job[r] # None
    BY DEF AllocInv, HandlerOK
  <1>2. /\ pc'[r] = "done" /\ result'[r] = code /\ code # "nil"
        /\ \A s \in Requests \ {r} : /\ pc'[s] = pc[s] /\ result'[s] = result[s]
                                     /\ chosen'[s] = chosen[s]
    BY DEF AllocInv, AllocTypeOK, Finish, GoTo
  <1>3. resources' = resources /\ job' = job
    BY DEF vars
  <1> QED BY <1>1, <1>2, <1>3 DEF Registry!Refuse, Succeeded

\* A step that moves a handler without ending it is invisible.
LEMMA InvisibleMaps ==
    ASSUME AllocInv, NEW r \in Requests, UNCHANGED <<vars, job, result>>,
           pc[r] # "done", pc'[r] # "done",
           \A s \in Requests \ {r} : pc'[s] = pc[s] /\ chosen'[s] = chosen[s]
    PROVE  UNCHANGED Registry!registryVars
  <1>1. resources' = resources /\ job' = job /\ result' = result
    BY DEF vars
  <1> QED BY <1>1 DEF Registry!registryVars, Succeeded

\* A request that arrives asks for its job.
LEMMA ReceiveMaps ==
    ASSUME AllocInv, NEW r \in Requests, NEW single \in BOOLEAN,
           NEW n \in NamespaceIDs, NEW size \in 0..MaxBatch,
           Receive(r, single, n, size)
    PROVE  \E j \in Jobs : Registry!Ask(r, j)
  <1> DEFINE j == [single |-> single, ns |-> n, size |-> size]
  <1>1. j \in Jobs
    BY DEF Jobs
  <1>2. /\ pc[r] = "idle" /\ pc'[r] = "lookup"
        /\ job[r] = None /\ job' = [job EXCEPT ![r] = j]
        /\ resources' = resources /\ chosen' = chosen /\ result' = result
        /\ \A s \in Requests \ {r} : pc'[s] = pc[s]
    BY DEF AllocInv, AllocTypeOK, HandlerOK, Receive, GoTo, vars
  <1>3. Registry!Ask(r, j)
    BY <1>2 DEF Registry!Ask, Succeeded
  <1> QED BY <1>1, <1>3

\* The success of a request for nothing issues nothing.
LEMMA LookupOkMaps ==
    ASSUME AllocInv, NEW r \in Requests, LookupOk(r), job[r].size = 0
    PROVE  Registry!Issue(r, <<>>)
  <1>1. /\ job[r] # None /\ job[r] \in Jobs /\ chosen[r] = <<>>
        /\ pc[r] = "lookup" /\ pc'[r] = "done" /\ result'[r] = "nil"
        /\ \A s \in Requests \ {r} : pc'[s] = pc[s] /\ result'[s] = result[s]
    BY DEF AllocInv, AllocTypeOK, HandlerOK, LookupOk, Finish, GoTo, Optional
  <1>2. resources' = resources /\ job' = job /\ chosen' = chosen
    BY DEF LookupOk, vars
  <1>3. job[r].ns \in NamespaceIDs
    BY <1>1 DEF Jobs
  <1>4. <<>> \in [1..job[r].size -> PIDs] /\ DOMAIN <<>> = {}
    <2>1. <<>> \in Seq(PIDs) /\ Len(<<>>) = 0
      OBVIOUS
    <2> QED BY <2>1
  <1>5. {<<>>[i] : i \in DOMAIN <<>>} = {}
    BY <1>4
  <1> DEFINE issued == [n \in NamespaceIDs |-> {p \in PIDs : resources[n][p] # None}]
  <1>6. issued' = [issued EXCEPT ![job[r].ns] = @ \cup {<<>>[i] : i \in DOMAIN <<>>}]
    BY <1>2, <1>3, <1>5
  <1> HIDE DEF issued
  <1> QED BY <1>1, <1>2, <1>4, <1>6 DEF Registry!Issue, Succeeded, issued

\* A successful insert issues the PIDs that were chosen.
LEMMA InsertOkMaps ==
    ASSUME AllocInv, NEW r \in Requests,
           NEW contents \in [DOMAIN chosen[r] -> Contents], NEW now \in Times,
           InsertOk(r, contents, now), NEW pids, pids = chosen[r]
    PROVE  Registry!Issue(r, pids)
  <1>1. /\ job[r] # None /\ pc[r] = "insert"
        /\ pc'[r] = "done" /\ result'[r] = "nil"
        /\ job' = job /\ chosen' = chosen
        /\ \A s \in Requests \ {r} : pc'[s] = pc[s] /\ result'[s] = result[s]
        /\ \A i, j \in DOMAIN chosen[r] : chosen[r][i] = chosen[r][j] => i = j
    BY DEF AllocInv, AllocTypeOK, HandlerOK, InsertOk, Finish, GoTo
  <1>2. /\ job[r] \in Jobs /\ job[r].ns \in NamespaceIDs
        /\ chosen[r] \in [1..job[r].size -> PIDs]
    BY <1>1, ChosenIsBatch DEF Jobs
  <1>3. /\ \A n \in NamespaceIDs, p \in PIDs :
               resources'[n][p] # None <=>
                   resources[n][p] # None \/ (n = job[r].ns /\ p \in Chosen(r))
        /\ \A p \in Chosen(r) : resources[job[r].ns][p] = None
    BY InsertEffect
  <1> DEFINE issued == [n \in NamespaceIDs |-> {p \in PIDs : resources[n][p] # None}]
  <1>4. Chosen(r) \subseteq PIDs /\ Chosen(r) = {chosen[r][i] : i \in DOMAIN chosen[r]}
    BY <1>2 DEF Chosen
  <1>5. issued' = [issued EXCEPT ![job[r].ns] = @ \cup Chosen(r)]
    <2>1. \A n \in NamespaceIDs :
              {p \in PIDs : resources'[n][p] # None} =
                  IF n = job[r].ns THEN issued[n] \cup Chosen(r) ELSE issued[n]
      BY <1>2, <1>3, <1>4
    <2> QED BY <1>2, <2>1
  <1>6. \A i \in DOMAIN chosen[r] : chosen[r][i] \notin issued[job[r].ns]
    BY <1>2, <1>3, <1>4
  <1>7. issued' = [issued EXCEPT ![job[r].ns] =
                      @ \cup {chosen[r][i] : i \in DOMAIN chosen[r]}]
    BY <1>4, <1>5
  <1> DEFINE handed == [s \in Requests |-> IF Succeeded(s) THEN chosen[s] ELSE <<>>]
             answer == [s \in Requests |-> IF pc[s] # "done" THEN "pending"
                                           ELSE IF result[s] = "nil" THEN "issued"
                                           ELSE "refused"]
  <1>8. handed' = [handed EXCEPT ![r] = chosen[r]]
    BY <1>1 DEF Succeeded
  <1>9. answer[r] = "pending" /\ answer' = [answer EXCEPT ![r] = "issued"]
    BY <1>1
  <1> HIDE DEF issued, handed, answer
  <1>10. /\ pids \in [1..job[r].size -> PIDs]
         /\ \A i, j \in DOMAIN pids : pids[i] = pids[j] => i = j
         /\ \A i \in DOMAIN pids : pids[i] \notin issued[job[r].ns]
         /\ issued' = [issued EXCEPT ![job[r].ns] =
                          @ \cup {pids[i] : i \in DOMAIN pids}]
         /\ handed' = [handed EXCEPT ![r] = pids]
    BY <1>1, <1>2, <1>6, <1>7, <1>8
  <1> QED BY <1>1, <1>9, <1>10 DEF Registry!Issue, issued, handed, answer

\* Other clients do nothing the registry could see.
LEMMA ClientsMaps ==
    ASSUME AllocInv, OtherClients
    PROVE  UNCHANGED Registry!registryVars
  <1>1. /\ \A n \in NamespaceIDs, p \in PIDs :
               resources'[n][p] # None <=> resources[n][p] # None
        /\ UNCHANGED <<pc, job, chosen, result>>
    BY ClientsEffect DEF handlerVars
  <1> QED BY <1>1 DEF Registry!registryVars, Succeeded

\* Every step of a handler is a step of the registry or invisible to it.
LEMMA RequestMaps ==
    ASSUME AllocInv, NEW r \in Requests, RequestStep(r)
    PROVE  \/ \E pids \in UNION {[1..j.size -> PIDs] : j \in Jobs} :
                  Registry!Issue(r, pids)
           \/ Registry!Refuse(r)
           \/ UNCHANGED Registry!registryVars
  <1>1. CASE LookupFails(r)
    <2>1. LookupErr(r) \in Codes \ {"nil"}
      BY <1>1 DEF LookupFails, LookupErr, Codes
    <2>2. pc[r] = "lookup" /\ Finish(r, LookupErr(r)) /\ UNCHANGED <<vars, job, chosen>>
      BY <1>1 DEF LookupFails
    <2> QED BY <2>1, <2>2, RefuseMaps
  <1>2. CASE LookupOk(r)
    <2>1. CASE job[r].size = 0
      <3>1. job[r] \in Jobs
        BY <1>2 DEF LookupOk, AllocInv, AllocTypeOK, HandlerOK, Optional
      <3>2. <<>> \in [1..job[r].size -> PIDs]
        <4>1. <<>> \in Seq(PIDs) /\ Len(<<>>) = 0
          OBVIOUS
        <4> QED BY <2>1, <4>1
      <3>3. <<>> \in UNION {[1..j.size -> PIDs] : j \in Jobs}
        BY <3>1, <3>2
      <3> QED BY <1>2, <2>1, <3>3, LookupOkMaps
    <2>2. CASE job[r].size # 0
      <3>1. /\ UNCHANGED <<vars, job, result>>
            /\ pc[r] # "done" /\ pc'[r] # "done"
            /\ \A s \in Requests \ {r} : pc'[s] = pc[s] /\ chosen'[s] = chosen[s]
        BY <1>2, <2>2 DEF LookupOk, GoTo, AllocInv, AllocTypeOK
      <3> QED BY <3>1, InvisibleMaps
    <2> QED BY <2>1, <2>2
  <1>3. ASSUME NEW c \in PIDs, DrawDuplicate(r, c) \/ DrawFresh(r, c)
        PROVE  UNCHANGED Registry!registryVars
    <2>1. /\ UNCHANGED <<vars, job, result>>
          /\ pc[r] # "done" /\ pc'[r] # "done"
          /\ \A s \in Requests \ {r} : pc'[s] = pc[s] /\ chosen'[s] = chosen[s]
      BY <1>3 DEF DrawDuplicate, DrawFresh, Pull, GoTo, AllocInv, AllocTypeOK
    <2> QED BY <2>1, InvisibleMaps
  <1>4. ASSUME NEW c \in PIDs, DrawExhausted(r, c) PROVE Registry!Refuse(r)
    <2>1. pc[r] = "draw" /\ Finish(r, "panic") /\ UNCHANGED <<vars, job, chosen>>
      BY <1>4 DEF DrawExhausted, Pull
    <2>2. "panic" \in Codes \ {"nil"}
      BY DEF Codes
    <2> QED BY <2>1, <2>2, RefuseMaps
  <1>5. ASSUME DrawFails(r) \/ \E c \in PIDs : DrawInvalid(r, c)
        PROVE  Registry!Refuse(r)
    <2>1. /\ pc[r] = "draw" /\ Finish(r, "BadIDGeneration")
          /\ UNCHANGED <<vars, job, chosen>>
      BY <1>5 DEF DrawFails, DrawInvalid, Pull
    <2>2. "BadIDGeneration" \in Codes \ {"nil"}
      BY DEF Codes
    <2> QED BY <2>1, <2>2, RefuseMaps
  <1>6. CASE InsertCollides(r)
    <2>1. CASE LastRound(r)
      <3>1. /\ pc[r] = "insert" /\ Finish(r, "InsufficientEntropy")
            /\ UNCHANGED <<vars, job>>
            /\ chosen' = [chosen EXCEPT ![r] = <<>>]
        BY <1>6, <2>1 DEF InsertCollides
      <3>2. "InsufficientEntropy" \in Codes \ {"nil"}
        BY DEF Codes
      <3> QED BY <3>1, <3>2, RefuseMaps
    <2>2. CASE ~LastRound(r)
      <3>1. /\ UNCHANGED <<vars, job, result>>
            /\ pc[r] # "done" /\ pc'[r] # "done"
            /\ \A s \in Requests \ {r} : pc'[s] = pc[s] /\ chosen'[s] = chosen[s]
        BY <1>6, <2>2 DEF InsertCollides, GoTo, AllocInv, AllocTypeOK
      <3> QED BY <3>1, InvisibleMaps
    <2> QED BY <2>1, <2>2
  <1>7. CASE BackendFails(r)
    <2>1. /\ pc[r] \in {"lookup", "insert"} /\ Finish(r, "DatabaseError")
          /\ UNCHANGED <<vars, job, chosen>>
      BY <1>7 DEF BackendFails
    <2>2. "DatabaseError" \in Codes \ {"nil"}
      BY DEF Codes
    <2> QED BY <2>1, <2>2, RefuseMaps
  <1>8. ASSUME NEW contents \in [DOMAIN chosen[r] -> Contents], NEW now \in Times,
               InsertOk(r, contents, now)
        PROVE  \E pids \in UNION {[1..j.size -> PIDs] : j \in Jobs} :
                   Registry!Issue(r, pids)
    <2>1. job[r] \in Jobs /\ chosen[r] \in [1..job[r].size -> PIDs]
      BY <1>8, ChosenIsBatch DEF InsertOk
    <2>2. chosen[r] \in UNION {[1..j.size -> PIDs] : j \in Jobs}
      BY <2>1
    <2>3. PICK pids \in UNION {[1..j.size -> PIDs] : j \in Jobs} : pids = chosen[r]
      BY <2>2
    <2>4. Registry!Issue(r, pids)
      BY <1>8, <2>3, InsertOkMaps
    <2> QED BY <2>4
  <1> QED BY <1>1, <1>2, <1>3, <1>4, <1>5, <1>6, <1>7, <1>8
          DEF RequestStep, Progress

\* The allocation loop over the store implements the registry: a request is
\* refused without a trace, or handed as many PIDs as it asked for, all of
\* them different and unused until then.
THEOREM AllocationImplementsRegistry == AllocSpec => ImplementsRegistry
  <1>1. AllocInit => Registry!Init
    BY DEF AllocInit, Init, NoResources, Registry!Init, Succeeded
  <1>2. AllocInv /\ [AllocNext]_allVars => [Registry!Next]_(Registry!registryVars)
    <2> SUFFICES ASSUME AllocInv, [AllocNext]_allVars
                 PROVE  Registry!Next \/ UNCHANGED Registry!registryVars
      OBVIOUS
    <2>1. CASE UNCHANGED allVars
      BY <2>1 DEF allVars, vars, handlerVars, Registry!registryVars, Succeeded
    <2>2. CASE Arrival
      BY <2>2, ReceiveMaps DEF Arrival, Registry!Next
    <2>3. CASE OtherClients
      BY <2>3, ClientsMaps
    <2>4. ASSUME NEW r \in Requests, RequestStep(r)
          PROVE  Registry!Next \/ UNCHANGED Registry!registryVars
      BY <2>4, RequestMaps DEF Registry!Next
    <2> QED BY <2>1, <2>2, <2>3, <2>4 DEF AllocNext
  <1> QED BY <1>1, <1>2, InitInv, StepInv, PTL
          DEF AllocSpec, ImplementsRegistry, Registry!Spec

-----------------------------------------------------------------------------
(* Giving up *)

\* A handler keeps its job, and one that has ended stays as it is.
LEMMA HandlersKeep ==
    ASSUME AllocInv, [AllocNext]_allVars, NEW s \in Requests
    PROVE  /\ pc[s] # "idle" => job'[s] = job[s]
           /\ pc[s] = "done" => /\ pc'[s] = "done"
                                /\ result'[s] = result[s]
  <1> USE DEF AllocInv, AllocTypeOK
  <1>1. CASE UNCHANGED allVars \/ OtherClients
    BY <1>1 DEF allVars, handlerVars, OtherClients
  <1>2. CASE Arrival
    BY <1>2 DEF Arrival, Receive, GoTo
  <1>3. ASSUME NEW r \in Requests, RequestStep(r)
        PROVE  /\ job' = job
               /\ pc[s] = "done" => pc'[s] = "done" /\ result'[s] = result[s]
    <2>1. CASE LookupFails(r) \/ LookupOk(r) \/ InsertCollides(r) \/ BackendFails(r)
      BY <2>1 DEF LookupFails, LookupOk, InsertCollides, BackendFails, GoTo, Finish
    <2>2. CASE \/ DrawFails(r)
               \/ \E c \in PIDs : \/ DrawDuplicate(r, c) \/ DrawExhausted(r, c)
                                  \/ DrawFresh(r, c)     \/ DrawInvalid(r, c)
      BY <2>2 DEF DrawFails, DrawDuplicate, DrawExhausted, DrawFresh, DrawInvalid,
         Pull, GoTo, Finish
    <2>3. CASE \E contents \in [DOMAIN chosen[r] -> Contents], now \in Times :
                   InsertOk(r, contents, now)
      BY <2>3 DEF InsertOk, GoTo, Finish
    <2> QED BY <1>3, <2>1, <2>2, <2>3 DEF RequestStep, Progress
  <1> QED BY <1>1, <1>2, <1>3 DEF AllocNext

\* A collision is always with a PID another request was handed: the PIDs of
\* one batch are different from each other.
LEMMA CollisionMeansTaken ==
    ASSUME AllocInv, NEW r \in Requests, InsertCollides(r)
    PROVE  \E s \in Requests \ {r} :
               Succeeded(s) /\ job[s].ns = job[r].ns /\ job[s].size > 0
  <1>1. /\ job[r].ns \in NamespaceIDs
        /\ DOMAIN chosen[r] = 1..job[r].size
        /\ 1 \in DOMAIN chosen[r]
        /\ chosen[r] \in [1..job[r].size -> PIDs]
    BY ChosenIsBatch DEF InsertCollides, Jobs
  <1>2. PICK i \in DOMAIN chosen[r] : resources[job[r].ns][chosen[r][i]] # None
    BY <1>1 DEF InsertCollides, InsertErr, CreateResourceErr,
       BatchCreateResourcesErr, AllocInv, HandlerOK
  <1>3. PICK s \in Requests : Holds(s, job[r].ns, chosen[r][i])
    BY <1>1, <1>2 DEF AllocInv, EveryPIDHasOneOwner
  <1>4. Succeeded(s) /\ job[s].ns = job[r].ns /\ DOMAIN chosen[s] # {}
    BY <1>3 DEF Holds, Chosen
  <1>5. s # r
    BY <1>4 DEF Succeeded, InsertCollides
  <1>6. job[s] \in Jobs /\ chosen[s] \in Seq(PIDs) /\ Len(chosen[s]) = job[s].size
    BY <1>4 DEF AllocInv, AllocTypeOK, HandlerOK, Succeeded, Optional
  <1>7. job[s].size > 0
    BY <1>4, <1>6
  <1> QED BY <1>4, <1>5, <1>7

\* InsufficientEntropy is never reported for collisions of a batch with
\* itself: some other request took PIDs of the namespace.
THEOREM GivingUpIsHonest == AllocSpec => []GivingUpMeansTaken
  <1>1. AllocInit => GivingUpMeansTaken
    BY DEF AllocInit, GivingUpMeansTaken
  <1>2. AllocInv /\ GivingUpMeansTaken /\ [AllocNext]_allVars => GivingUpMeansTaken'
    <2> SUFFICES ASSUME AllocInv, GivingUpMeansTaken, [AllocNext]_allVars,
                        NEW r \in Requests, result'[r] = "InsufficientEntropy"
                 PROVE  \E s \in Requests \ {r} :
                            /\ Succeeded(s)'
                            /\ job'[s].ns = job'[r].ns
                            /\ job'[s].size > 0
      BY DEF GivingUpMeansTaken
    <2>1. pc[r] # "idle" /\ \E s \in Requests \ {r} :
              Succeeded(s) /\ job[s].ns = job[r].ns /\ job[s].size > 0
      <3>1. CASE result[r] = "InsufficientEntropy"
        BY <3>1 DEF GivingUpMeansTaken, AllocInv, HandlerOK
      <3>2. CASE InsertCollides(r)
        BY <3>2, CollisionMeansTaken DEF InsertCollides
      <3>3. ASSUME result[r] # "InsufficientEntropy" PROVE InsertCollides(r)
        <4> USE DEF AllocInv, AllocTypeOK
        <4>1. result'[r] # result[r]
          BY <3>3
        <4>2. PICK s \in Requests : RequestStep(s)
          BY <4>1 DEF AllocNext, Arrival, Receive, OtherClients, handlerVars, allVars
        <4>3. CASE LookupFails(s) \/ LookupOk(s) \/ BackendFails(s)
          BY <4>1, <4>3 DEF LookupFails, LookupErr, LookupOk, BackendFails, Finish
        <4>4. CASE \/ DrawFails(s)
                   \/ \E c \in PIDs : \/ DrawDuplicate(s, c) \/ DrawExhausted(s, c)
                                      \/ DrawFresh(s, c)     \/ DrawInvalid(s, c)
          BY <4>1, <4>4 DEF DrawFails, DrawDuplicate, DrawExhausted, DrawFresh,
             DrawInvalid, Finish
        <4>5. CASE \E contents \in [DOMAIN chosen[s] -> Contents], now \in Times :
                       InsertOk(s, contents, now)
          BY <4>1, <4>5 DEF InsertOk, Finish
        <4>6. CASE InsertCollides(s)
          BY <4>1, <4>6 DEF InsertCollides, Finish
        <4> QED BY <4>2, <4>3, <4>4, <4>5, <4>6 DEF RequestStep, Progress
      <3> QED BY <3>1, <3>2, <3>3
    <2>2. PICK s \in Requests \ {r} :
              Succeeded(s) /\ job[s].ns = job[r].ns /\ job[s].size > 0
      BY <2>1
    <2>3. job'[r] = job[r] /\ job'[s] = job[s] /\ Succeeded(s)'
      BY <2>1, <2>2, HandlersKeep DEF Succeeded
    <2> QED BY <2>2, <2>3
  <1> QED BY <1>1, <1>2, InitInv, StepInv, PTL DEF AllocSpec

-----------------------------------------------------------------------------
(* How often a request pulls from the generator *)

\* The most pulls one round of r can take.
PerRound(r) == 1 + (job[r].size - 1) * MaxPIDAttempts

\* The most pulls r can have made: those of the finished rounds, one for the
\* first PID of this round, MaxPIDAttempts for each of the others so far, and
\* the repetitions of the current one.
PullsOK(r) ==
    /\ pc[r] \in {"idle", "lookup"} => drawn[r] = 0 /\ tries[r] = 0 /\ round[r] = 0
    /\ pc[r] \in {"draw", "insert"} =>
           /\ round[r] < MaxPIDAttempts
           /\ tries[r] < MaxPIDAttempts
           /\ chosen[r] = <<>> => tries[r] = 0 /\ drawn[r] <= round[r] * PerRound(r)
           /\ chosen[r] # <<>> =>
                  drawn[r] <= round[r] * PerRound(r) + 1
                              + (Len(chosen[r]) - 1) * MaxPIDAttempts + tries[r]
    /\ pc[r] = "insert" => tries[r] = 0
    /\ pc[r] = "done" /\ job[r].size > 0 =>
           drawn[r] <= MaxPIDAttempts * PerRound(r)

PullsInv == \A r \in Requests : PullsOK(r)

\* Multiplication is monotonic, and a further factor adds one more term.
LEMMA Products ==
    ASSUME NEW a \in Nat, NEW b \in Nat, NEW c \in Nat
    PROVE  /\ a * b \in Nat
           /\ (a + 1) * b = a * b + b
           /\ a <= c => a * b <= c * b
  <1>1. a * b \in Nat /\ (a + 1) * b = a * b + b
    OBVIOUS
  <1>2. ASSUME a <= c PROVE a * b <= c * b
    <2>1. c - a \in Nat
      BY <1>2
    <2>2. (c - a) * b >= 0
      BY <2>1
    <2>3. (c - a) * b = c * b - a * b
      OBVIOUS
    <2> QED BY <2>2, <2>3
  <1> QED BY <1>1, <1>2

\* The number of pulls in a running round, after one more pull, stays within
\* the rounds that are left.
LEMMA RoundFits ==
    ASSUME AllocInv, PullsInv, NEW r \in Requests, pc[r] = "draw"
    PROVE  /\ PerRound(r) \in Nat \ {0}
           /\ round[r] * PerRound(r) \in Nat
           /\ Len(chosen[r]) * MaxPIDAttempts \in Nat
           /\ chosen[r] # <<>> =>
                  (Len(chosen[r]) - 1) * MaxPIDAttempts + MaxPIDAttempts
                      = Len(chosen[r]) * MaxPIDAttempts
           /\ drawn[r] + 1 <= round[r] * PerRound(r) + 1
                                + Len(chosen[r]) * MaxPIDAttempts
           /\ 1 + Len(chosen[r]) * MaxPIDAttempts <= PerRound(r)
           /\ round[r] * PerRound(r) + PerRound(r) <= MaxPIDAttempts * PerRound(r)
  <1> DEFINE M == MaxPIDAttempts
             L == Len(chosen[r])
             K == job[r].size - 1
             P == PerRound(r)
  <1>1. /\ M \in Nat \ {0} /\ L \in Nat /\ K \in Nat /\ L <= K
        /\ tries[r] \in Nat /\ round[r] \in Nat /\ drawn[r] \in Nat
        /\ chosen[r] \in Seq(PIDs)
    <2>1. /\ job[r] \in Jobs /\ chosen[r] \in Seq(PIDs) /\ Len(chosen[r]) < job[r].size
          /\ tries[r] \in Nat /\ round[r] \in Nat /\ drawn[r] \in Nat
      BY DEF AllocInv, AllocTypeOK, HandlerOK, Optional
    <2>2. job[r].size \in Nat /\ L \in Nat
      BY <2>1, ConstantFacts DEF Jobs
    <2> QED BY <2>1, <2>2, ConstantFacts
  <1>2. chosen[r] # <<>> => L >= 1
    BY <1>1
  <1>3. P = 1 + K * M
    BY DEF PerRound
  <1>4. K * M \in Nat /\ L * M \in Nat /\ L * M <= K * M
    BY <1>1, Products
  <1>5. P \in Nat \ {0}
    BY <1>3, <1>4
  <1>6. chosen[r] # <<>> => (L - 1) * M + M = L * M
    <2>1. ASSUME L >= 1 PROVE (L - 1) * M + M = L * M
      <3>1. L - 1 \in Nat /\ (L - 1) + 1 = L
        BY <1>1, <2>1
      <3>2. ((L - 1) + 1) * M = (L - 1) * M + M
        BY <1>1, <3>1, Products
      <3> QED BY <3>1, <3>2
    <2> QED BY <1>2, <2>1
  <1>7. /\ round[r] < M /\ tries[r] < M
        /\ chosen[r] = <<>> => drawn[r] <= round[r] * P
        /\ chosen[r] # <<>> => drawn[r] <= round[r] * P + 1 + (L - 1) * M + tries[r]
    BY DEF PullsInv, PullsOK
  <1> HIDE DEF P, M, L, K
  <1>8. /\ round[r] * P \in Nat
        /\ round[r] * P + P <= M * P
    <2>1. round[r] + 1 \in Nat /\ round[r] + 1 <= M
      BY <1>1, <1>7
    <2>2. (round[r] + 1) * P = round[r] * P + P /\ round[r] * P \in Nat
      BY <1>1, <1>5, Products
    <2>3. (round[r] + 1) * P <= M * P
      BY <1>1, <1>5, <2>1, Products
    <2> QED BY <2>2, <2>3
  <1>9. drawn[r] + 1 <= round[r] * P + 1 + L * M
    <2>1. CASE chosen[r] = <<>>
      BY <1>1, <1>4, <1>7, <1>8, <2>1
    <2>2. CASE chosen[r] # <<>>
      <3> DEFINE Q == (L - 1) * M
                 R == round[r] * P
                 S == L * M
      <3>1. Q + M = S /\ drawn[r] <= R + 1 + Q + tries[r]
        BY <1>6, <1>7, <2>2
      <3>2. Q \in Nat /\ R \in Nat /\ S \in Nat
        <4>1. L - 1 \in Nat
          BY <1>1, <1>2, <2>2
        <4> QED BY <1>1, <1>4, <1>8, <4>1, Products
      <3> HIDE DEF Q, R, S
      <3>3. drawn[r] + 1 <= R + 1 + S
        BY <1>1, <1>7, <3>1, <3>2
      <3> QED BY <3>3 DEF R, S
    <2> QED BY <2>1, <2>2
  <1>10. 1 + L * M <= P
    BY <1>3, <1>4
  <1> QED BY <1>4, <1>5, <1>6, <1>8, <1>9, <1>10, Zenon DEF P, M, L, K

\* A handler that is not moved keeps its counts.
LEMMA RestingPulls ==
    ASSUME NEW s \in Requests, PullsOK(s), pc'[s] = pc[s], job'[s] = job[s],
           chosen'[s] = chosen[s], tries'[s] = tries[s], round'[s] = round[s],
           drawn'[s] = drawn[s]
    PROVE  PullsOK(s)'
  BY DEF PullsOK, PerRound

\* Every pull is accounted for.
LEMMA DrawPulls ==
    ASSUME AllocInv, PullsInv, NEW r \in Requests, Pull(r),
           \/ DrawFails(r)
           \/ \E c \in PIDs : \/ DrawDuplicate(r, c) \/ DrawExhausted(r, c)
                              \/ DrawFresh(r, c)     \/ DrawInvalid(r, c)
    PROVE  PullsOK(r)'
  <1> DEFINE M == MaxPIDAttempts
             L == Len(chosen[r])
             P == PerRound(r)
             A == round[r] * P
             B == L * M
             C == (L - 1) * M
             D == M * P
  <1>1. /\ pc[r] = "draw" /\ drawn'[r] = drawn[r] + 1
        /\ drawn[r] \in Nat /\ tries[r] \in Nat /\ round[r] \in Nat
        /\ chosen[r] \in Seq(PIDs) /\ L \in Nat /\ M \in Nat \ {0}
    BY ConstantFacts DEF Pull, AllocInv, AllocTypeOK
  <1>2. job' = job /\ round' = round /\ PerRound(r)' = P
    BY DEF DrawFails, DrawDuplicate, DrawExhausted, DrawFresh, DrawInvalid, PerRound
  <1>3. /\ P \in Nat \ {0} /\ A \in Nat /\ B \in Nat
        /\ chosen[r] # <<>> => C + M = B
        /\ drawn[r] + 1 <= A + 1 + B
        /\ 1 + B <= P /\ A + P <= D
    BY <1>1, RoundFits
  <1>4. /\ round[r] < M /\ tries[r] < M
        /\ chosen[r] # <<>> => drawn[r] <= A + 1 + C + tries[r]
    BY <1>1 DEF PullsInv, PullsOK
  <1> HIDE DEF M, L, P, A, B, C, D
  <1>5. drawn'[r] <= D
    <2>1. D \in Nat
      BY <1>1, <1>3, Products DEF D
    <2> QED BY <1>1, <1>3, <2>1
  <1>6. ASSUME pc'[r] = "done" PROVE PullsOK(r)'
    BY <1>2, <1>5, <1>6 DEF PullsOK, D, M
  <1>7. CASE \/ DrawFails(r)
             \/ \E c \in PIDs : DrawExhausted(r, c) \/ DrawInvalid(r, c)
    BY <1>6, <1>7 DEF DrawFails, DrawExhausted, DrawInvalid, Finish, GoTo,
       AllocInv, AllocTypeOK
  <1>8. ASSUME NEW c \in PIDs, DrawDuplicate(r, c) PROVE PullsOK(r)'
    <2>1. /\ pc' = pc /\ chosen' = chosen /\ tries'[r] = tries[r] + 1
          /\ tries[r] + 1 < M /\ chosen[r] # <<>>
      BY <1>8 DEF DrawDuplicate, Chosen, AllocInv, AllocTypeOK, M
    <2>2. C \in Nat
      <3>1. L - 1 \in Nat
        BY <1>1, <2>1 DEF L
      <3> QED BY <1>1, <3>1, Products DEF C
    <2>3. drawn'[r] <= A + 1 + C + tries'[r]
      BY <1>1, <1>3, <1>4, <2>1, <2>2
    <2>4. /\ pc'[r] = "draw" /\ chosen'[r] # <<>> /\ round'[r] < M /\ tries'[r] < M
          /\ drawn'[r] <= round'[r] * P + 1 + (Len(chosen'[r]) - 1) * M + tries'[r]
      BY <1>1, <1>2, <1>4, <2>1, <2>3 DEF A, C, L
    <2> QED BY <1>2, <2>4 DEF PullsOK, M
  <1>9. ASSUME NEW c \in PIDs, DrawFresh(r, c) PROVE PullsOK(r)'
    <2>1. /\ pc'[r] \in {"draw", "insert"} /\ chosen'[r] = Append(chosen[r], c)
          /\ tries'[r] = 0
      BY <1>9 DEF DrawFresh, GoTo, AllocInv, AllocTypeOK
    <2>2. Len(chosen'[r]) - 1 = L /\ chosen'[r] # <<>>
      <3>1. Len(Append(chosen[r], c)) = Len(chosen[r]) + 1 /\ Len(chosen[r]) \in Nat
        BY <1>1
      <3>2. Len(<<>>) = 0
        OBVIOUS
      <3> QED BY <2>1, <3>1, <3>2 DEF L
    <2>3. drawn'[r] <= A + 1 + B + tries'[r]
      BY <1>1, <1>3, <2>1
    <2>4. /\ round'[r] < M /\ tries'[r] < M
          /\ drawn'[r] <= round'[r] * P + 1 + (Len(chosen'[r]) - 1) * M + tries'[r]
      <3>1. (Len(chosen'[r]) - 1) * M = B /\ round'[r] * P = A
        BY <1>2, <2>2 DEF A, B
      <3> QED BY <1>1, <1>2, <1>4, <2>1, <2>3, <3>1
    <2> QED BY <1>2, <2>1, <2>2, <2>4 DEF PullsOK, M
  <1> QED BY <1>7, <1>8, <1>9

\* A request that has chosen all its PIDs has pulled no more than a round may
\* in this round, and has pulled within the overall bound.
LEMMA InsertPulls ==
    ASSUME AllocInv, PullsInv, NEW r \in Requests, pc[r] = "insert"
    PROVE  /\ drawn[r] <= (round[r] + 1) * PerRound(r)
           /\ drawn[r] <= MaxPIDAttempts * PerRound(r)
  <1> DEFINE M == MaxPIDAttempts
             P == PerRound(r)
             A == round[r] * P
             K == job[r].size - 1
             N == K * M
  <1>2. /\ drawn[r] \in Nat /\ round[r] \in Nat /\ M \in Nat \ {0}
        /\ chosen[r] \in Seq(PIDs) /\ Len(chosen[r]) = job[r].size
        /\ job[r].size > 0 /\ job[r] \in Jobs
    BY ConstantFacts DEF AllocInv, AllocTypeOK, HandlerOK, Optional
  <1>3. job[r].size \in Nat /\ K \in Nat /\ chosen[r] # <<>>
    BY <1>2, ConstantFacts DEF Jobs
  <1>4. /\ round[r] < M /\ tries[r] = 0
        /\ drawn[r] <= A + 1 + (Len(chosen[r]) - 1) * M + tries[r]
    BY <1>3 DEF PullsInv, PullsOK
  <1>5. P = 1 + N /\ N \in Nat
    BY <1>2, <1>3, Products DEF PerRound
  <1>6. drawn[r] <= A + 1 + N + tries[r]
    BY <1>2, <1>4
  <1>7. P \in Nat
    BY <1>5
  <1> HIDE DEF M, P, A, K, N
  <1>8. A \in Nat /\ (round[r] + 1) * P = A + P /\ (round[r] + 1) * P <= M * P
    <2>1. round[r] + 1 \in Nat /\ round[r] + 1 <= M
      BY <1>2, <1>4
    <2>2. A \in Nat /\ (round[r] + 1) * P = A + P
      BY <1>2, <1>7, Products DEF A
    <2>3. (round[r] + 1) * P <= M * P
      BY <1>2, <1>7, <2>1, Products
    <2> QED BY <2>2, <2>3
  <1>9. drawn[r] <= A + P
    BY <1>2, <1>4, <1>5, <1>6, <1>8
  <1>10. M * P \in Nat
    BY <1>2, <1>7, Products
  <1>11. drawn[r] <= (round[r] + 1) * P /\ drawn[r] <= M * P
    <2> DEFINE X == (round[r] + 1) * P
               Y == M * P
    <2>1. X = A + P /\ X <= Y /\ Y \in Nat
      BY <1>8, <1>10
    <2> HIDE DEF X, Y
    <2>2. drawn[r] <= X /\ drawn[r] <= Y
      BY <1>2, <1>7, <1>8, <1>9, <2>1
    <2> QED BY <2>2 DEF X, Y
  <1> QED BY <1>11, Zenon DEF M, P

\* A collision ends a round that has pulled no more than a round may.
LEMMA CollisionPulls ==
    ASSUME AllocInv, PullsInv, NEW r \in Requests, InsertCollides(r)
    PROVE  PullsOK(r)'
  <1>1. /\ pc[r] = "insert" /\ chosen'[r] = <<>> /\ round'[r] = round[r] + 1
        /\ drawn' = drawn /\ tries' = tries /\ job' = job
        /\ pc'[r] = IF LastRound(r) THEN "done" ELSE "draw"
    BY DEF InsertCollides, Finish, GoTo, AllocInv, AllocTypeOK
  <1>2. round[r] \in Nat /\ MaxPIDAttempts \in Nat \ {0} /\ tries[r] = 0
    BY <1>1, ConstantFacts DEF AllocInv, AllocTypeOK, PullsInv, PullsOK
  <1>3. PerRound(r)' = PerRound(r)
    BY <1>1 DEF PerRound
  <1>4. /\ drawn[r] <= (round[r] + 1) * PerRound(r)
        /\ drawn[r] <= MaxPIDAttempts * PerRound(r)
    BY <1>1, InsertPulls
  <1>5. CASE LastRound(r)
    <2>1. pc'[r] = "done"
      BY <1>1, <1>5
    <2> QED BY <1>1, <1>3, <1>4, <2>1 DEF PullsOK
  <1>6. CASE ~LastRound(r)
    <2>1. pc'[r] = "draw" /\ round'[r] < MaxPIDAttempts
      BY <1>1, <1>2, <1>6 DEF LastRound
    <2>2. /\ tries'[r] = 0 /\ tries'[r] < MaxPIDAttempts
          /\ drawn'[r] <= round'[r] * PerRound(r)
      BY <1>1, <1>2, <1>4
    <2> QED BY <1>1, <1>3, <2>1, <2>2 DEF PullsOK
  <1> QED BY <1>5, <1>6

\* A request ends after a bounded number of pulls, however unlucky it is.
THEOREM PullsBounded == AllocSpec => []PullsAreBounded
  <1>1. AllocInit => PullsInv
    BY DEF AllocInit, PullsInv, PullsOK
  <1>2. AllocInv /\ PullsInv /\ [AllocNext]_allVars => PullsInv'
    <2> SUFFICES ASSUME AllocInv, PullsInv, [AllocNext]_allVars, NEW s \in Requests
                 PROVE  PullsOK(s)'
      BY DEF PullsInv
    <2> USE DEF AllocInv, AllocTypeOK
    <2>1. PullsOK(s)
      BY DEF PullsInv
    <2>2. CASE UNCHANGED allVars \/ OtherClients
      <3>1. UNCHANGED <<pc, job, chosen, tries, round, drawn>>
        BY <2>2 DEF allVars, handlerVars, counters, OtherClients
      <3> QED BY <2>1, <3>1, RestingPulls
    <2>3. CASE Arrival
      <3>1. PICK r \in Requests, single \in BOOLEAN, n \in NamespaceIDs,
                 size \in 0..MaxBatch : Receive(r, single, n, size)
        BY <2>3 DEF Arrival
      <3>2. UNCHANGED <<chosen, tries, round, drawn>>
        BY <3>1 DEF Receive, counters
      <3>3. CASE s # r
        <4>1. pc'[s] = pc[s] /\ job'[s] = job[s]
          BY <3>1, <3>3 DEF Receive, GoTo
        <4> QED BY <2>1, <3>2, <4>1, RestingPulls
      <3>4. CASE s = r
        <4>1. pc[s] = "idle" /\ pc'[s] = "lookup"
          BY <3>1, <3>4 DEF Receive, GoTo
        <4> QED BY <2>1, <3>2, <4>1 DEF PullsOK
      <3> QED BY <3>3, <3>4
    <2>4. ASSUME NEW r \in Requests, RequestStep(r), s # r PROVE PullsOK(s)'
      <3>1. /\ pc'[s] = pc[s] /\ job'[s] = job[s] /\ chosen'[s] = chosen[s]
            /\ tries'[s] = tries[s] /\ round'[s] = round[s] /\ drawn'[s] = drawn[s]
        <4>1. CASE LookupFails(r) \/ LookupOk(r) \/ InsertCollides(r) \/ BackendFails(r)
          BY <2>4, <4>1 DEF LookupFails, LookupOk, InsertCollides, BackendFails,
             GoTo, Finish, counters
        <4>2. CASE \/ DrawFails(r)
                   \/ \E c \in PIDs : \/ DrawDuplicate(r, c) \/ DrawExhausted(r, c)
                                      \/ DrawFresh(r, c)     \/ DrawInvalid(r, c)
          BY <2>4, <4>2 DEF DrawFails, DrawDuplicate, DrawExhausted, DrawFresh,
             DrawInvalid, Pull, GoTo, Finish
        <4>3. CASE \E contents \in [DOMAIN chosen[r] -> Contents], now \in Times :
                       InsertOk(r, contents, now)
          BY <2>4, <4>3 DEF InsertOk, GoTo, Finish, counters
        <4> QED BY <2>4, <4>1, <4>2, <4>3 DEF RequestStep, Progress
      <3> QED BY <2>1, <3>1, RestingPulls
    <2>5. CASE \/ DrawFails(s)
               \/ \E c \in PIDs : \/ DrawDuplicate(s, c) \/ DrawExhausted(s, c)
                                  \/ DrawFresh(s, c)     \/ DrawInvalid(s, c)
      BY <2>5, DrawPulls DEF DrawFails, DrawDuplicate, DrawExhausted, DrawFresh,
         DrawInvalid
    <2>6. CASE InsertCollides(s)
      BY <2>6, CollisionPulls
    <2>7. CASE \/ LookupFails(s) \/ BackendFails(s) \/ LookupOk(s)
               \/ \E contents \in [DOMAIN chosen[s] -> Contents], now \in Times :
                      InsertOk(s, contents, now)
      <3>1. /\ UNCHANGED <<job, chosen, tries, round, drawn>>
            /\ pc[s] \in {"lookup", "insert"}
            /\ pc'[s] = "done" \/ (pc[s] = "lookup" /\ pc'[s] = "draw")
        BY <2>7 DEF LookupFails, BackendFails, LookupOk, InsertOk, Finish, GoTo,
           counters
      <3>2. /\ drawn[s] \in Nat /\ round[s] \in Nat /\ tries[s] \in Nat
            /\ MaxPIDAttempts \in Nat \ {0} /\ job[s] \in Jobs
            /\ job[s].size \in Nat
        BY <3>1, ConstantFacts DEF HandlerOK, Optional, Jobs
      <3>3. PerRound(s)' = PerRound(s)
        BY <3>1 DEF PerRound
      <3>4. job[s].size > 0 => PerRound(s) \in Nat
        <4>1. ASSUME job[s].size > 0 PROVE PerRound(s) \in Nat
          <5>1. job[s].size - 1 \in Nat
            BY <3>2, <4>1
          <5> QED BY <3>2, <5>1, Products DEF PerRound
        <4> QED BY <4>1
      <3>5. CASE pc[s] = "lookup" /\ pc'[s] = "draw"
        <4>1. /\ chosen[s] = <<>> /\ drawn[s] = 0 /\ tries[s] = 0 /\ round[s] = 0
          BY <2>1, <3>5 DEF HandlerOK, PullsOK
        <4>2. job[s].size > 0
          BY <2>7, <3>2, <3>5 DEF LookupOk, LookupFails, BackendFails, InsertOk,
             Finish, GoTo
        <4>3. drawn[s] <= round[s] * PerRound(s)
          BY <3>4, <4>1, <4>2
        <4> QED BY <3>1, <3>2, <3>3, <3>5, <4>1, <4>3 DEF PullsOK
      <3>6. CASE pc[s] = "lookup" /\ pc'[s] = "done"
        <4>1. drawn[s] = 0
          BY <2>1, <3>6 DEF PullsOK
        <4>2. job[s].size > 0 => drawn[s] <= MaxPIDAttempts * PerRound(s)
          <5>1. ASSUME job[s].size > 0 PROVE MaxPIDAttempts * PerRound(s) \in Nat
            BY <3>2, <3>4, <5>1, Products
          <5> QED BY <4>1, <5>1
        <4> QED BY <3>1, <3>3, <3>6, <4>2 DEF PullsOK
      <3>7. CASE pc[s] = "insert" /\ pc'[s] = "done"
        <4>1. drawn[s] <= MaxPIDAttempts * PerRound(s)
          BY <3>7, InsertPulls
        <4> QED BY <3>1, <3>3, <3>7, <4>1 DEF PullsOK
      <3> QED BY <3>1, <3>5, <3>6, <3>7
    <2> QED BY <2>2, <2>3, <2>4, <2>5, <2>6, <2>7 DEF AllocNext, RequestStep, Progress
  <1>3. AllocInv /\ PullsInv => PullsAreBounded
    <2> SUFFICES ASSUME AllocInv, PullsInv, NEW r \in Requests, pc[r] # "idle",
                        job[r].size > 0
                 PROVE  drawn[r] <= MaxPIDAttempts * PerRound(r)
      BY DEF PullsAreBounded, PerRound
    <2>1. /\ PullsOK(r) /\ drawn[r] \in Nat /\ MaxPIDAttempts \in Nat \ {0}
          /\ job[r].size - 1 \in Nat
      BY ConstantFacts DEF PullsInv, AllocInv, AllocTypeOK, HandlerOK, Optional, Jobs
    <2>2. PerRound(r) \in Nat
      BY <2>1, Products DEF PerRound
    <2>3. MaxPIDAttempts * PerRound(r) \in Nat
      BY <2>1, <2>2, Products
    <2>4. CASE pc[r] = "lookup"
      BY <2>1, <2>3, <2>4 DEF PullsOK
    <2>5. CASE pc[r] = "draw"
      <3> DEFINE A == round[r] * PerRound(r)
                 B == Len(chosen[r]) * MaxPIDAttempts
                 D == MaxPIDAttempts * PerRound(r)
      <3>1. /\ A \in Nat /\ B \in Nat /\ drawn[r] + 1 <= A + 1 + B
            /\ 1 + B <= PerRound(r) /\ A + PerRound(r) <= D
        BY <2>5, RoundFits
      <3>2. D \in Nat
        BY <2>3
      <3> HIDE DEF A, B, D
      <3>3. drawn[r] <= D
        BY <2>1, <2>2, <3>1, <3>2
      <3> QED BY <3>3 DEF D
    <2>6. CASE pc[r] = "insert"
      BY <2>6, InsertPulls
    <2>7. CASE pc[r] = "done"
      BY <2>1, <2>7 DEF PullsOK
    <2> QED BY <2>4, <2>5, <2>6, <2>7 DEF AllocInv, AllocTypeOK
  <1> QED BY <1>1, <1>2, <1>3, InitInv, StepInv, PTL DEF AllocSpec
=============================================================================
