# quickpid in TLA+

quickpid is a resolver for persistent identifiers: an HTTP server that hands
out PIDs in namespaces, keeps the resource behind each PID, and resolves mounts
(base URIs) to namespaces.  This directory models the parts of it in which
order, failure and concurrency decide whether the answers are right, checks
them with TLC on small instances, and proves the central facts with TLAPS for
every value of the constants.

Paths below are relative to the repository root.

## 1. The system

### Components

| component | source | state | operations | correct if |
|---|---|---|---|---|
| storage contract | `backend/`, `backend/memory` | users (superuser flag, password hash, API keys), namespaces, resources, roles, mounts, mount grants | the methods of `backend.Backend`, each under one mutex | PIDs are never taken back; a raw key opens one account; nothing outlives or precedes its owner |
| database backend | `backend/gorm` | the same, as tables | the same, each a transaction or a statement | it implements the storage contract at its isolation level |
| PID allocation | `service/resources.go`, `internal/idgen` | candidates, attempts and rounds of each running request | draw, check, insert, retry | each PID goes to one request; a failed batch leaves nothing; requests end |
| API services | `service/*.go` | options behind a mutex | account, key, role, namespace, mount and grant operations, each a sequence of backend calls | errors are translated to the codes documented; no request alone removes the last superuser |
| request pipeline | `server/internal/lowlevel`, `server/*.go`, `api/caller.go` | the caller of each request | authenticate, load, impersonate, check scope, check grant, act, redact | no answer without authority; no undeclared error (it is a panic) |
| scopes | `api/scopes*.go`, `api/roles.go`, `api/credentials.go` | constant tables | evaluate a scope for a caller | a restricted key never widens its owner |
| background process | `server/background.go`, `service/credentials.go` | page, offset, clock reading, context | revoke expired keys in passes | expired keys go, others stay, shutdown is heeded |
| options lock | `server/server.go` | read-write mutex | `ServeHTTP`, `SetOptions`, documentation handler | options change between requests; nobody waits for ever |
| filtered lists | `internal/filter`, `service/{credentials,namespaces,mounts,mount_grants}.go` | two goroutines, a buffered and an unbuffered channel | filter a paged source, match a base URI against grants | right page and total; no wrong refusal; the goroutines end |
| bootstrap, shutdown | `cmd/cmd.go`, `service/user.go` | flags, lifecycle | `EnsureRootUser`, serve, shut down | a fresh system can be entered; the backend outlives its users |
| PID formats | `pid/`, `internal/seekzero` | none | generate, validate, lay out | an index and a PID correspond one to one |

### Interactions, and what makes them hard

* A request runs in a goroutine of its own.  The service calls the backend
  several times per request and holds no lock between the calls, so requests,
  the background process and (with a database) other servers interleave at
  every backend call.  The caller's account, its superuser flag, its role, its
  mount grants and the thing acted on are read in *different* calls.
* A name, unlike a PID, can be deleted and registered again, so what was read
  about a user may be about its predecessor.
* PIDs and key ids come from an injected generator that may repeat itself, may
  yield a PID of another format and may fail.
* Any backend call may fail.  A failed request has already done what its
  earlier calls did.
* The background pass pages users and keys by offset while they change, and
  decides by one reading of the clock.
* `SetOptions` switches between anonymous mode and accounts in a running
  server.  `ServeHTTP` holds the read lock for a whole request, so the mode is
  constant within one; a waiting `SetOptions` holds back new readers.
* On a database, a backend call is itself a transaction of several statements,
  and the transactions of all requests and servers interleave between them.
* A list that a service filters is fetched by a goroutine of its own, which
  must end when the caller returns early or the client goes away.
* Several servers may start on one empty database at once, and any of them may
  be killed between creating the first account and logging its only key.
  A shutdown has timeouts, so it may go on over requests that still run.

The list of hazards, each at its line and with the properties aimed at it, is
in `PROJECT.json`.

## 2. The modules

```
Store ── PIDAllocation ── MCPIDAllocation      PIDRegistry (abstract)
  │            └────────── AllocationProofs ───────┘
  ├──── KeyCleanup ─┬──── MCKeyCleanup
  │                 └──── CleanupProofs
  ├──── Scopes ── Routes ── Requests ─┬─ MCRequests
  │                                   └─ RequestsProofs
  ├──── StoreProofs       (whose lemmas CleanupProofs and RequestsProofs use)
  ├──── MCStore
  └ ┄ ┄ Gorm ─┬─ MCGorm        (Store as the contract, by INSTANCE)
              └─ GormProofs

Pages (used by KeyCleanup and Listing) ── PageProofs

Listing ── ListingProofs       Process ─┬─ MCProcess
                                        └─ ProcessProofs
```

### `Store`: the storage contract

The six variables are the six maps of `memory.Backend`: `users` (with the keys
inside the account, as in the code), `namespaces`, `resources`, `roles`,
`mounts`, `mountGrants`.  A missing entry is `None`, or `"none"` for a role,
which is how the code itself represents the absence of one.  A method holds the
mutex from beginning to end, so each writing method is one action.  Its
sentinel error is an operator `<Op>Err` that yields `"nil"` or the name of the
error, in the order of the code's checks; the action requires `"nil"`, and a
caller that meets an error decides what to do with it.  Reads are state
functions.  Secrets are hashed: `Digest` and `PasswordHash` are injective and
distinct from their argument, keys carry the prefix in clear and `Verify`
compares prefix and digest as `internal/apikey` does.  A PID format is the set
of PIDs it accepts.  Tags, metadata, titles and comments are one opaque value
from `Contents`; `nil` fields of an update are `None`.

`LookupUserByKey` is the *set* of accounts a raw key opens, because the code
returns the first match of a map iteration.

### `PIDRegistry`, `PIDAllocation`: handing out identifiers

`PIDRegistry` is the promise: a request is refused without a trace, or gets as
many different, unused PIDs as it asked for, and an issued PID stays issued.

`PIDAllocation` adds the local variables of any number of handlers that run
`CreateResource` or `BatchCreateResources`: `pc`, the `job`, the `format` read
from the namespace, the candidates `chosen` so far, `tries` for the current PID
(inner loop of `allocatePIDs`), `round` (outer loop), `drawn` (pulls from the
generator) and `result`.  The batch limit is checked before the namespace is
looked up; then `Draw*` pulls one candidate per step (fresh, duplicate within
the batch, exhausted, of the wrong format, generator error), and the insertion
is one call to the store, which takes the whole batch or nothing and sends the
request to another round on a collision.  The generator may yield any PID at
every pull.  Other clients create namespaces and update resources meanwhile.
A candidate that is exhausted in a batch leaves the zero PID, whose `String`
panics: the model has that outcome.

### `KeyCleanup`: the background process

`pc` follows `doBackground` and the two nested loops of
`CleanupExpiredAPIKeys`: the page of users and its offset, the page of keys of
one user and its offset, whether each page was the last.  `passNow` is the
clock reading that a pass takes when it meets its first expiring key and keeps.
Every list and every revocation is a backend call of its own.  Concurrently a
request issues a key in two steps (compare the expiry, create the key), and
others register and delete accounts, revoke keys, let time pass, make the
backend fail, or cancel the context.  `due` (what had expired when the pass
began) and `disturbed` (somebody deleted something during the pass) are history
variables that only properties read.  Users and keys are numbers here because
pages are sorted; `Pages` defines the sorted list and the page at an offset, for
`Listing` as well.

### `Scopes`, `Routes`, `Requests`: a request from headers to answer

`Scopes` holds the tables of `api/` as sets and a map from scope to least role,
the intersection of an API key's scopes with its owner's, and
`EvaluateUserScope`/`EvaluateNamespaceScope`.  `Routes` holds, for each route of
`server.NewServer` that needs a caller, the scope it demands, the error codes
it declares and the codes its parsing produces.

In `Requests` a handler goes through
`resolve -> load -> impersonate -> check -> grant -> act -> (reread | read -> redact) -> done`,
one backend call per step.  The request's credentials, target user, namespace
and base URI are chosen when it arrives, all further input when it acts.
`<Op>Act` is the implementation of one route: the nil dereference of
`caller.Username` where the handler has one, the checks of the service, the
store operation and the translation of its sentinel error (`CodeOf`,
`Untranslated`).  `BadInput`, `BackendFails` and `GeneratorFails` are the error
paths.  A result that the route does not declare is what `writeHandledError`
panics on.  `seen` is a history variable: which accounts the credentials opened,
who was a superuser, held which role or grant, or did not exist, at some moment
*during the request*.

The read-write mutex of `Server` is `waiting` together with the handlers that
are being served: a `SetOptions` that waits (`RequestOptions`) keeps new
requests out (`MayRLock`) and goes ahead when no request is left
(`ApplyOptions`).  The documentation page is a request of its own kind, whose
handler (`ServeDocumentation`) takes the read lock a second time.  A handler's
step is `Proceed` when it advances by its own doing, as opposed to failing.

Two abstractions are stated in the module: whether a namespace exists is not
re-read separately (nothing deletes a namespace), and a PID is drawn in one
step, its allocation being the subject of `PIDAllocation`.

### `Gorm`: the backend on a database

Each writing operation of `backend/gorm` is a *program*: the sequence of the
statements its function sends, in the order of the code, each with the error it
ends the operation with.  `Program(o)` is that translation; the rest of the
module is one interpreter for statements.  The database is external and is
PostgreSQL at READ COMMITTED as the code opens it: a statement sees committed
rows and those of its own transaction, rows written by an open transaction are
locked until it ends, a new row locks the row its foreign key names against
deletion, a cycle of waits costs a member of it an error, statements may fail,
and the answer to a commit may be lost after the commit.  SQLite serialises
writers and has fewer interleavings.  Foreign keys are those of the gorm models:
roles and mount grants refer to *no* user.

`Contract == INSTANCE Store WITH ...` reads the committed tables as the maps of
`Store`.  `ImplementsContract` says which transactions act like one step of it.
Known differences, each stated where the property makes its exception:

* a secret in use is accepted for another key, since no unique constraint
  forbids it (`OnlySecretTaken`);
* roles and grants written while `DeleteUser` runs can survive it, hence
  `RowsHaveOwners` speaks of passwords, keys, tags, resources, mounts and of
  roles by their namespace only;
* operations that read first and write later (updates, password, grants) can be
  overtaken by an overlapping transaction, hence `Atomic`, which names the
  operations that act like one step whatever overlaps them.  Setting the role
  `none` is not among them, because it locks nothing when there is no row, and
  neither is a `DELETE` that finds nothing: it may have waited for another one,
  and there may be a new row by then.

The columns of users, passwords, keys, namespaces and resources have the sets of
their values (`UserValue` and so on), so that it can be said that no `NULL`
reaches them.

### `Listing`: lists that services filter

One call of `ListKeys`, `ListNamespaces`, `ListMounts` or `MountGrantMatches`
with its goroutines: the `loader` of `loadCompiledMountGrants`, which sends
grants over an unbuffered channel and selects on its context, and the
`producer` of `PaginatedGetterFunc.all`, which sends items over a channel of
one page and does not look at the context when it sends.  The `caller` receives,
filters, counts and may return early.  Others change the lists and the client
may go away.  `first` and `shrunk` are history variables.

### `Process`: start, bootstrap, shutdown

The `pc` of a process follows `run` and `serve` of `cmd/cmd.go` and the deferred
calls in their order: `setup -> count -> create -> key -> log -> handler ->
serve -> drain -> background -> backend -> exit`.  `EnsureRootUser` and
`CreateSuperuser` are a step per backend call, each of which may fail before or
after it took effect.  `LogKey` shows a key only when the log level lets a
warning through.

Requests and the background process are reduced to calling the backend.  A
request that changes accounts or credentials does so in two steps, as the code
does: `Authorize` (`resolveCaller`, impersonation, the scope and the check
against acting on oneself) and later `Apply`, by what was true at the first.
`EndRequest` may leave goroutines behind, the producer of a filtered list or the
loader of mount grants, for which neither the handler nor `srv.Shutdown` waits;
`RunLeft` is what they do.  They are one flag, since a process either has such
goroutines or not.  `late` records who has called a backend that was shut down.

Processes share `accounts`, `keys` and `known` (the accounts somebody can log in
to), may crash at any step and are started again with the flags `Configs` gives
the first, second and further start.  Two history variables: `deleted`, the
names whose account was deleted at some time, and `reasons`, why nobody has
access; a step that gives somebody access clears it.

## 3. The runs

| run | question | bounds | result |
|---|---|---|---|
| `store` | Can an order of operations make a secret ambiguous, pass grants and credentials to a name's next owner, file something under a missing namespace, or take a PID back? | 2 users, 2 key ids over 1 secret, 1 namespace, 1 mount, batches of 2, 2 times | holds |
| `alloc` | Do concurrent allocations implement the registry, keep the namespace's format, give up honestly, stop pulling, and end? | 2 requests of up to 3 of 3 PIDs, 2 attempts, limit of 2 items, 2 formats | holds |
| `alloc_panic` | Does a batch end in one of its documented codes? | 1 request | **no** |
| `cleanup` | Does a pass revoke only expired keys, and all of them when nobody else deletes; do expired keys disappear although passes fail; does the goroutine stop? | 2 users, 2 keys, pages of 1, 2 times, 3 events | holds |
| `cleanup_skip` | Does a successful pass skip nothing even when others delete? | 2 users, 1 key, pages of 1, 3 events | **no** |
| `requests` | Is every answer authorized by what was true during the request, do deleted resources stay hidden, are the panics known, does the last superuser stay, can every handler go on? | 2 users, 2 namespaces, 1 PID, 1 mount, 1 request on any of the 34 routes or the documentation, 1 foreign write or change of options | holds |
| `requests_issue` | Does `POST /user/key` return only codes it lists? | the same, that route | **no** |
| `requests_options` | Does a `SetOptions` that was called return? | the same, the documentation page | **no** |
| `gorm` | Do transactions keep the storage contract, leave no orphans, and where do they deadlock? | 2 connections, 2 operations of any kind; tables empty, filled, with a user and a namespace alone, or met while a password is being set; 3 PIDs, batches of 2 | holds |
| `gorm_update` | Does an update of a resource leave the fields it omits? | the same | **no** |
| `listing` | Are totals, pages and grant decisions those of the whole list, do calls return and goroutines end? | all lists of up to 4 items, pages of 2, limit 2, offsets 0 and 1, 1 change | holds |
| `process` | What can bootstraps, crashes, shutdowns and superusers of several servers leave behind, and does every signal end its process? | 2 places, 3 starts, 2 accounts, 1 request per process; one thing at a time, see below | holds |

Deadlock checking is off in the `alloc`, `cleanup`, `gorm`, `listing` and
`process` runs: there every request has been answered, the goroutine has
stopped, the transactions or the call are over, or the starts are used up, and
the system may rest.  What the code can wait for is stated as properties
instead (`OnlyDocumentationWaits`, `OnlyRivalsDeadlock`, `CallsReturn`,
`GoroutinesEnd`, `SignalsEndProcesses`).

### What the properties say

*Store.*  `LookupIsUnambiguous`: a raw key opens at most one account, so the
random iteration order cannot show.  `GrantsBelongToUsers`,
`NewAccountsAreClean`: a name that is registered again has no credentials and
no grants of its predecessor.  (`DeleteUser` drops the roles too, but a role may
be set for the name afterwards; see section 5.)  `FiledUnderNamespaces`: mounts,
roles and resources have a namespace.  `PIDsArePermanent`: no step removes or
reissues a PID or changes its namespace's format.

*Allocation.*  `EveryPIDHasOneOwner`: the stored PIDs are exactly those of the
successful requests, each of one request.  `PIDsMatchFormat` whatever the
generator yields.  `GivingUpMeansTaken`: `InsufficientEntropy` blames other
requests only when there are some.  `PullsAreBounded`: the true bound of the
nested retry loops.  `ImplementsRegistry`, `RequestsEnd`.

*Clean-up.*  `RevokesOnlyExpired`, `PassIsComplete`, `ExpiredKeysGo`,
`StopIsHeeded`.

*Requests.*  `AnsweredMeansAuthorized`: for every answer (and for the write of
`SetNamespaceRole`, which precedes its answer) some account that the
credentials opened during the request, or the one it impersonated with the
right to, was due that route by what was true during the request.  The facts
may stem from different moments of the request, since the code reads them one
after the other; never from before it, nor from another namespace or a wider
key.  What is due is the table of the code, under which nobody who reads a
resource that is not deleted needs credentials; the specification wants them
(section 5).  `DeletedStaysHidden`: on every route
that can show it (reading, also through a mount, listing and updating), the
content of a deleted resource goes only to editors of its namespace and to
superusers, in the namespace that the mount led to.  Reading also asks whether
the key allows `seeDeletedResource`; listing and updating do not (section 5).
`PanicsAreKnown`: a handler panics in the two cases the findings describe and
no other; in particular no route dereferences a missing caller, in either mode.
`LastSuperuserStays`: no request of a lasting superuser removes the last one.
`OnlyDocumentationWaits`: a handler that is being served always has a step that
needs no failure, whatever was deleted or changed under it and although
`SetOptions` waits, with the second read lock of the documentation page as the
only exception.

*Database.*  `ImplementsContract`: transactions that nobody overlaps, and those
that are `Atomic` whatever overlaps them, do what the memory backend does in one
locked step, error for error; an error of the database leaves everything or
nothing.  `StoredPIDsStay`: also when an update writes back all the columns it
read earlier, no PID is taken back and no date of creation or format changes.
`RowsHaveOwners`: what `DeleteUser` does not see when it deletes the
associations goes by the foreign key.  `OnlyRivalsDeadlock`: in every set of
transactions each of which waits for another of them and is waited for, those
that wait for each other are batches of one namespace, which may insert the same
PIDs in different orders, or deletions of one user, one of which meets a
credential that was added after it deleted those; all other operations lock
their rows in one order.

*Lists.*  `PageIsRight`: total and page are those of the whole list wherever
page boundaries fall, and additions hide nothing.  `RefusalsAreRight`: a base
URI granted all along is refused only to a request that was cancelled or while
grants were removed.  `CallsReturn`.  `GoroutinesEnd`: with one exception, the
state `Leaked` (section 5).

*Processes.*  `BackendOutlivesItsUsers`: a handler calls a backend whose
`Shutdown` began only after the drain timed out or `Accept` failed, the
background pass only after the wait for it timed out.  The third kind of late
caller, a goroutine that a finished request left behind, needs neither
(section 5).  `ZeroMeansNothingCutOff`: exit
code 0 is given only when no request was cut off.  `LockOutsAreExplained`: there
are accounts and nobody can log in as a superuser only while a bootstrap is
between creating the account and logging its key, or for one of four reasons:
a bootstrap failed or was killed there; it logged its key at a level that is
discarded (`-log-level error` or `none`); a request took effect whose author
had lost access since it was authorized, as when two superusers delete or
demote each other; or the last superuser gave up its own access, by revoking
its last credential or by acting on itself in the name of another superuser.
Starting servers together is none of them.  `OneBootstrapKey`: servers that race to create an account leave it with one
bootstrap key, unless the account was deleted meanwhile.  `SignalsEndProcesses`.

### Why the bounds are enough

* Two of everything that can be confused with another: two users and two keys
  make a secret ambiguous, two requests collide, two namespaces mix up roles.
  Three candidates are needed for a batch of two to collide twice and succeed,
  and `MaxBatch = 3` exceeds `MaxBatchItems = 2` so that the limit is met.
* A page limit below the number of users and keys is what makes pages overlap
  and skip.  Two keys or two users over pages of one leave one behind a
  revocation.
* In `gorm` two transactions suffice for every read-write and lock conflict of
  two operations, and three PIDs let two batches meet in opposite orders.
  Filled tables give every operation something to change; both variants of
  credentials occur because `SetPassword` and `CreateKey` differ by them.  The
  two partly filled ones stand for a third transaction, which must have ended
  between the statements of another before two deletions of a user, or a
  password and a deletion, can meet in the critical order.
* In `listing` the leak needs a full channel and an item in the producer's hand
  while the caller returns: four items over pages of two.  `Valid` leaves out
  an item in the middle so that filtered and unfiltered positions differ.
* In `process` two servers race, and the third start is a `-create-superuser`
  beside a server or after a lock-out.  One request in each of two processes
  suffices for two superusers who remove each other.  The constraint
  `OneThingAtATime` separates two questions that share little: as long as
  accounts change and processes race, servers are killed and not shut down,
  which is the same for the accounts; and a process is shut down, or its
  listener fails, while it is alone and has at most a root.  `SignalsEndProcesses`
  is checked of the behaviours that stay within this bound.  All four reasons
  for a lock-out, and late calls of all three kinds, occur within it.
* In `requests` one request is followed and everybody else is the action
  `Others`, which may be *any* operation of the store at any moment.  Requests
  share nothing but the store and the options, so further requests are already
  contained in it.  One foreign write is enough to fall between any check and
  its use.  The store starts filled, because a store filled by a bounded number
  of requests would leave nothing for the request in question; every part of
  the initial store is reachable by `Store` operations.
* `Tick` in `Requests` may go back: the code uses wall-clock time.  In
  `KeyCleanup` time advances, since a key must stay expired for
  `ExpiredKeysGo` to be meaningful.

### Fairness

* `alloc`: weak fairness of each handler's own progress.  A goroutine that can
  run is scheduled.  Failures of generator or backend are not required.
* `cleanup`: weak fairness of the goroutine, whose ticker keeps firing, and
  strong fairness of `Quit`: Go's `select` chooses at random among ready cases,
  so it cannot ignore the cancelled context for ever.  Weak fairness would not
  do, because a pass in between disables `Quit`.  Failures are bounded by
  `MaxEvents`: with a backend that fails in every pass nothing is revoked.
* `requests_options`: weak fairness of each handler's progress and of the
  `SetOptions` that may take its lock.
* `listing`: weak fairness of each of the three goroutines.  Neither
  cancellation nor failures are required.
* `process`: weak fairness of the main goroutine only.  Its calls return or time
  out; requests, the background process and the listener owe nothing.

## 4. The theorems

All are proved for every value of the constants: any number of users, keys,
namespaces, requests, connections, servers and items, any page and batch limit.
What is assumed of the constants is the least the code justifies: limits and
bounds are natural numbers, a page or a batch holds at least one item, and
`None`, which stands for a missing entry, is none of the names, records or
values it is told apart from.  The assumptions are named in the module that
declares the constants (`StoreAssumption`, `NoneIsNoRecord`,
`AllocationAssumption`, `CleanupAssumption`, `RequestsAssumption`,
`GormAssumption`, `TimesAssumption`, `NoneIsNoValue`, `ListingAssumption`,
`ProcessAssumption`), and TLC evaluates each of them in a run.

### Store

| theorem | statement | argument |
|---|---|---|
| `TypeCorrect` | `Spec => []TypeOK` | `TypeOK` is inductive, one lemma per group of operations |
| `StoreIntegrity`, `GrantsHaveOwners` | `Spec => [](GrantsBelongToUsers /\ FiledUnderNamespaces)` | `Integrity` adds `TypeOK`; the two need each other's steps to be typed |
| `KeysAreUnambiguous` | `Spec => []LookupIsUnambiguous` | what a client presents is hashed, so the invariant is on the stored side: `KeysIdentifyOneUser`.  Only `CreateKey` adds a secret (`KeyAdded`), every other step loses keys at most (`KeysOnlyLost`) |
| `PIDsStay` | `Spec => PIDsArePermanent` | needs `Integrity`: `CreateNamespace` resets the map of resources, which is harmless only because nothing is filed under a namespace that does not exist |
| `AccountsStartClean` | `Spec => NewAccountsAreClean` | needs `Integrity`: `CreateUser` does not touch the grants, so that there are none must already be known |

### Allocation

| theorem | statement | argument |
|---|---|---|
| `AllocationSafe`, `AllocationTypeCorrect`, `PIDsHaveTheirFormat` | `AllocSpec => [](EveryPIDHasOneOwner /\ PIDsMatchFormat)`, `[]AllocTypeOK` | `AllocInv`: types, the two properties, and for each handler what its `pc` says about its candidates (different, of the format it read, and that format still the namespace's) |
| `AllocationImplementsRegistry` | `AllocSpec => ImplementsRegistry` | from `AllocInv`: only `InsertOk` maps to `Issue`, every answer else to `Refuse`, the rest stutters |
| `GivingUpIsHonest` | `AllocSpec => []GivingUpMeansTaken` | a collision on insertion means a PID with an owner, by `EveryPIDHasOneOwner`, and that owner is another request |
| `PullsBounded` | `AllocSpec => []PullsAreBounded` | a potential: pulls so far are bounded by the rounds, candidates and tries used up; the products are kept opaque and multiplied out in lemmas |

### Background process

`PageProofs` has the lemmas about pages that this and the lists rest on: the
elements before a given one in a page are those of smaller rank, a page ends the
list or is followed by larger elements, and ranks change by at most one with an
element added or removed.

| theorem | statement | argument |
|---|---|---|
| `CleanupTypeCorrect` | `CleanupSpec => []CleanupTypeOK` | part of `CleanupInv`; that offsets stay natural numbers needs `PageInv`: what was revoked of a page is no more than its length |
| `PassesAreComplete` | `CleanupSpec => []PassIsComplete` | `AheadInv`: as long as nobody else deleted, every key that is due and still there has a rank at or beyond the offset, or is in what remains of the page in hand.  Additions can push keys forward, never behind the offset; the pass subtracts its own deletions |
| `OnlyExpiredAreRevoked` | `CleanupSpec => RevokesOnlyExpired` | `IssuedInv`: key ids are not used twice, so an item listed earlier still describes the key it names, or the key is gone; `ClockInv`: the reading of the clock is not in the future |

### Requests

| theorem | statement | argument |
|---|---|---|
| `RequestsTypeCorrect` | `AnyStoreSpec => []RequestsTypeOK` | `AnyStoreSpec` begins with *any* well-typed store, so that nothing hangs on how the store was filled; `TypeCorrect` of the store carries over step by step |
| `AnswersAreAuthorized` | `AnyStoreSpec => []AnsweredMeansAuthorized` | `RequestsInv`: for each handler, by its `pc`, which part of the authority `seen` already witnesses (`ModeInv`, `RouteInv`, `CallerInv`, `DueInv`).  `seen` only grows while the mode stays, and the mode cannot change while a request is served, so what was witnessed stays witnessed |
| `DeletedIsShownToFew` | `AnyStoreSpec => []DeletedStaysHidden` | the same invariant at `redact`; for lists and updates, whoever was due their scope is, but for a restricted key, due `seeDeletedResource` too, because all three ask for an editor (`EditorsSeeDeleted`) |
| `HandlersReturnDeclaredCodes` | `AnyStoreSpec => []PanicsAreKnown` | `CodeInv`, and one lemma per route: each error its service returns is declared by the route, or is one of the two known cases |
| `RequestsLeaveASuperuser` | `AnyStoreSpec => LastSuperuserStays` | `KeepsOwn`: no route demotes or deletes the account of its caller |
| `RequestsFromEmpty` | the five for `RequestsSpec` | an empty store is well-typed |

### Database

| theorem | statement | argument |
|---|---|---|
| `GormTypeCorrect` | `GormSpec => []GormTypeOK` | `Typed`: what is stored, written or read has the type of its table.  Programs are taken apart statement by statement (`StatementOK`), whatever their length |
| `NoOrphans` | `GormSpec => []RowsHaveOwners` | `Owned`: foreign keys hold not only among the committed rows but in the view of every transaction.  That needs `Locks` (a row has one writer; who deletes a row and who shares it exclude each other) and `Placed` (no statement deletes a namespace or a resource) |
| `StoredPIDsArePermanent` | `GormSpec => StoredPIDsStay` | a transaction that saves a loaded row has read it when it was committed, and the columns in question have not changed since: part of `Typed` and `Placed` |
| `DeadlocksAreRivals` | `GormSpec => []OnlyRivalsDeadlock` | every program writes in order (`InOrder`: reads first, deletions before insertions, each row once); `AllTraced`, invariant on top of `GormInv`, ties what a transaction holds to its program.  See below |
| `GormImplementsContract` | `GormSpec => ImplementsContract` | `AllSound`, a third invariant: what a transaction has found with its statements still holds when it ends.  Then each of the 17 programs is compared with its operation of the contract.  See below |

`AllTraced` says of every transaction: each row it has written or locked was
reached by a statement it has executed (`Reached`); what it created is not
committed and what it deleted is (`Fresh`); a DELETE that waits has found only
rows of its own statement (`Scanning`).  A member of a cycle holds a row and is
not at its end, which leaves six programs.  Whoever inserts below a row it has
itself created waits for nobody, since nobody else sees that row.  An update of
a resource holds the resource before it touches its tags, so its tags are free.
An update of a namespace waits only for holders of the namespace row, and none
of those waits.  What remains are batches at a later row (`AtRow`) and deletions
of a user (`AtDelete`), and two of them meet only in one namespace or at one
user.

`AllSound` says of every statement that was executed (`Current`): a row that was
read is there, if it is a namespace or resource, which nobody deletes, or if
nobody else has committed meanwhile; under that second condition also what
`First` loaded is what is stored, an UPDATE has written the stored row with the
columns set, and a DELETE has found every row it is about.  `AtTheEnd` and
`Refusal` turn the invariants into the two ways a transaction ends by itself:
`Stores`, where the new tables are told from the statements of the program, and
`Refused`, where the old tables are told from the statement that met something.
`KeepsAtEnd` is what both owe the contract, and there is one lemma for it per
operation (`CreateUserEnds` to `UpdateResourceEnds`).  The hard ones are
`DeleteUserEnds`, where the rows that go with the user by the foreign key are to
be the ones the contract forgets; `BatchEnds`, where a PID that occurs twice, or
is in use, must stop the batch at its row and never later at its tags; and
`CreateKeyEnds`, where a secret in use is the one permitted difference.  The
operations that are `Atomic` are proved without the assumption that nobody
overlaps: their rows are locked from the statement that wrote them on, or are
lasting.  That `UpdateResource` dates a resource needs `TimesAssumption`: the
time of a request is never NULL.

### Lists

| theorem | statement | argument |
|---|---|---|
| `ListingTypeCorrect` | `ListingSpec => []ListingTypeOK` | part of `ListingInv` |
| `PagesAreRight` | `ListingSpec => []PageIsRight` | `Counting` and `Exactness`: what the caller has counted, what is in the channel, in the producer's hand and still to be fetched are together the list; without changes exactly, with additions at least |
| `GrantDecisionsAreRight` | `ListingSpec => []RefusalsAreRight` | `Loading`: unless grants were removed, a grant that was there all along is in what the caller has, in the loader's page or at or beyond its offset |

### Processes

| theorem | statement | argument |
|---|---|---|
| `ProcessTypeCorrect`, `BackendIsOpen`, `ExitCodeIsHonest` | `ProcessSpec => []...` | `StageInv`: for each stage, which of listener, requests, background process and backend are still there, and what excuses those who have called it late |
| `LockOutsExplained` | `ProcessSpec => []LockOutsAreExplained` | `PendingInv`: every authorized change is one by which its author gives up its own access, or its author had access when it was authorized.  `AccessInv`: somebody has access, or there is a reason why not, or the system is untouched: nobody can log in, no change is under way, and if there are accounts a bootstrap is at work on one.  Whoever takes the last access then either is the author itself or is an author who had access and no longer has |
| `BootstrapKeysAreUnique` | `ProcessSpec => []OneBootstrapKey` | `ClaimsInv`: of the processes that created an account of one name, at most one has not been overtaken by a deletion |

The proofs update a record once per step, `[p EXCEPT !.a = x, !.b = y]` for a
whole process, and never two fields of one element in an update of the
function, `[f EXCEPT ![s].a = x, ![s].b = y]`: version 1.4.5 of the prover
translates the latter wrongly for its SMT solver, and proves anything from it.
No module with a theorem, nor one it extends, contains that form.

Only model-checked: liveness (`RequestsEnd`, `ExpiredKeysGo`, `StopIsHeeded`,
`CallsReturn`, `GoroutinesEnd`, `SignalsEndProcesses`) and
`OnlyDocumentationWaits`, because the prover has no support for fairness and
`ENABLED`.

## 5. Where code and text disagree

Shown by a run:

1. `alloc_panic`: when every attempt for one PID of a batch repeats a PID of the
   same batch, the zero `ValidPID` reaches the format check
   (`service/resources.go:226`) and panics instead of `InsufficientEntropy`.
2. `cleanup_skip`: `service/credentials.go:343` says deletions skip nothing;
   that is true of the pass's own deletions, not of those of others, and a
   pass that skipped an expired key still reports success.  `ExpiredKeysGo`
   shows that a later pass takes it.
3. `requests_issue`: an account deleted while it issues a key makes
   `POST /user/key` return `UserNotFound`, which neither the service's comment
   nor the route lists, and the handler panics.  `GET /user/key` shares this.
4. `requests_options`: `server/server.go:639` says `SetOptions` is safe
   concurrently with `ServeHTTP`; the documentation handler takes the read lock
   a second time (626 under 664), and a `SetOptions` in between waits for ever,
   with the handler and every later request.
5. `gorm_update`: `spec/openapi.yaml:4064` says omitted fields of an update are
   not changed; `gorm_resources.go:249` reads the row without a lock and saves
   all columns, so a concurrent update of another field is undone.

Met on the way, with no run of their own:

* `spec/openapi.yaml:1844` and `:658` and `spec/README.md:191` ask for
  authentication to read a resource that is not deleted, in authenticated mode;
  `api/scopes_namespace.go:206` admits a request without credentials, and so
  does `getMount` (`api/scopes_user.go:156`) for the route through a mount.
  `AnsweredMeansAuthorized` follows the code.
* `backend/backend.go:24` forbids calls after `Shutdown`.  The producer of
  `internal/filter/filter.go:83` and the loader of `service/mount_grants.go:97`
  outlive their handlers and `srv.Shutdown`, and may list another page from a
  backend that is shut down although nothing timed out; after a timeout or a
  failed `Accept` requests and the background pass may call it too
  (`BackendOutlivesItsUsers`).
* `service/runtime.go:49` promises the generator at most `maxAttempts` results;
  the two nested loops pull more.  `PullsAreBounded` states the true bound.
* `backend/roles.go:23` asks for `ErrUserNotFound`; `memory_roles.go:41` stores
  a role for anybody, and whoever registers the name later has it.  Hence
  roles are not part of `NewAccountsAreClean`.
* `service/user.go:141` "ensures that there is a user named root";
  `EnsureRootUser` acts only when there is no account at all, so that a root
  without a key stays as it is (`LockOutsAreExplained`).
* `api/scopes_namespace.go:56` says that `seeDeletedResource` "gates whether a
  deleted resource is returned un-redacted when reading a resource"; a key for
  `listResources` or `updateResource` alone sees the content of deleted
  resources without it (`service/resources.go:42`, `:170`).  The role asked for
  is the same, so that this matters to restricted keys only
  (`DeletedStaysHidden`).
* `spec/README.md:185` has the role `none` not read a namespace;
  `api/scopes_namespace.go:94` and `spec/openapi.yaml:918` let everybody.
* `internal/filter/filter.go:19`: an error of the condition is to stop the
  iteration; it stops the consumer, and the producer may stay blocked on the
  full channel (`Leaked` in `GoroutinesEnd`).
* Two requests that delete one user may deadlock on PostgreSQL, if a password or
  key is added between their statements: one holds the deleted credentials and
  waits for the row of the user, the other holds that row and waits for a
  credential (`gorm_user.go:164`, `Rivals`).
* `SetNamespaceRole` with the role `none` deletes what it finds
  (`gorm_roles.go:66`); a role that another transaction sets at the same time
  stays.  `DeleteMount` and `DeleteNamespaceRole` may report that there is
  nothing after waiting for a deletion, although the row was saved anew.  The
  memory backend has neither outcome (`Atomic`).

## 6. Not modelled

* PID formats and layout (`pid/`, `internal/seekzero`): in `Store` a format is
  the set of PIDs it accepts.  `Layout` is used by no server code, and its
  64-bit sums wrap only for spaces beyond TLC's integers.
* Public routes and the OpenAPI document: constants only.  Of the Swagger UI
  only its lock.
* Parsing, formatting and size limits of bodies and paths: a request is
  well-formed or is refused with one of the codes its parser can produce.
  Strict JSON decoding and the iterator helpers are part of this.
* In `Requests` a list succeeds or fails; what it contains is in `Listing`.  Of
  a list of resources it also matters there whether it shows a deleted one.
  A page limit of 0 is left out: `PageLimit` is assumed positive.
* Timing of password comparison, and the strength of hashing.
* Key scopes are normalised in place under a read lock
  (`memory_credentials.go:196`).  The write is idempotent, so the outcomes are
  the same.
* The lock around the service's own options, taken and released in one call.
* Anonymous mode of the background pass, which returns at once.
* What the memory backend holds after its `Shutdown`; when that may be called
  is in `Process`.
* Flag parsing, logging and legal notices; test harness and fixtures.

## 7. Plan

Modelled: every component of section 1 but the PID formats.  Proved: every
invariant and action property the runs check, except `OnlyDocumentationWaits`.
What is left needs more than this prover offers: liveness, and what is enabled.
When an operation of the gorm backend changes, its program in `Gorm` and its
lemma `...Ends` in `GormProofs` change with it; a new operation adds one of each
and one name to `EveryKindKeeps`.
