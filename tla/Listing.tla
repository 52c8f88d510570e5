------------------------------ MODULE Listing ------------------------------
(***************************************************************************)
(* The lists the services filter themselves: ListKeys, ListNamespaces and  *)
(* ListMounts through filter.Filter, whose goroutine fetches page by page  *)
(* and feeds the caller over a channel of one page, and MountGrantMatches  *)
(* and ListMounts over the grants of a user, whose goroutine feeds them    *)
(* over a channel without a buffer and stops when its context is done.     *)
(* One call is followed, with both goroutines, while others add and remove *)
(* what is listed and the request may be cancelled.                        *)
(*                                                                         *)
(* Items and grants are numbers; only the order by which backends sort     *)
(* their lists matters.  Grant g matches the base URI of item g and no     *)
(* other.  The memory backend ignores a cancelled context and the database *)
(* answers with an error; a backend may fail at any time.  Valid are the   *)
(* keys that have not expired, or the namespaces the caller may see.       *)
(***************************************************************************)
EXTENDS Naturals, Sequences, FiniteSets, Pages

CONSTANTS
    Items,      \* what can be listed, and grants for it
    Valid,      \* the items a filter lets through
    PageLimit,  \* Limits.InternalPageLimit(), also the buffer of the channel
    Limits,     \* limits and offsets of requests
    Offsets,
    MaxEvents   \* bound: changes by others

ASSUME ListingAssumption ==
    /\ Items \subseteq Nat \ {0} /\ IsFiniteSet(Items)
    /\ Valid \subseteq Items
    /\ PageLimit \in Nat \ {0} /\ Limits \subseteq Nat /\ Offsets \subseteq Nat
    /\ MaxEvents \in Nat

VARIABLES
    kind,       \* the call
    limit,      \* of the request
    offset,     \* of the request
    cancelled,  \* the context of the request
    source,     \* the items the backend has
    grants,     \* the grants of the caller the backend has
    caller,     \* what the calling goroutine does
    collected,  \* grants received
    total,      \* res.Total
    items,      \* res.Items
    outcome,    \* what the call returned
    abandoned,  \* it returned an error of its own
    missed,     \* a role lookup of checkAccess failed
    loader,     \* goroutine of loadCompiledMountGrants: its state,
    batch,      \* the page it sends and the offset after it,
    producer,   \* goroutine of PaginatedGetterFunc.all: the same
    page,
    channel,    \* the buffered channel
    first,      \* source and grants when the call began
    shrunk,     \* something was removed meanwhile
    events

callVars == <<kind, limit, offset, caller, collected, total, items, outcome,
              abandoned, missed>>
loaderVars == <<loader, batch>>
producerVars == <<producer, page>>
worldVars == <<cancelled, source, grants, first, shrunk, events>>
listingVars == <<callVars, loaderVars, producerVars, channel, worldVars>>

Kinds == {"ListKeys", "ListNamespaces", "ListMounts", "MountGrantMatches"}
Filtered == Kinds \ {"MountGrantMatches"}
Granted == {"ListMounts", "MountGrantMatches"}

\* The page of the list from an offset.
Fetch(S, from) == Page(Sorted(S), from, PageLimit)

NoPage == [rest |-> <<>>, size |-> 0, total |-> 0, offset |-> 0]

\* A goroutine reads what it sends next from a page; 0 stands for an error.
Got(S, from) ==
    LET p == Fetch(S, from)
    IN  [rest |-> p, size |-> Len(p), total |-> Cardinality(S), offset |-> from]
Failed == [rest |-> <<0>>, size |-> 0, total |-> 0, offset |-> 0]

Item(i) == i # 0

-----------------------------------------------------------------------------
(* The calling goroutine *)

Return(value, own) ==
    /\ caller' = "returned"
    /\ outcome' = value
    /\ abandoned' = own

\* The context of loadCompiledMountGrants ends with the function that ranges
\* over it.
LoadDone == cancelled \/ caller # "load"

\* The unbuffered channel: the loader sends while the caller receives.
ReceiveGrant ==
    /\ caller = "load" /\ loader = "send" /\ batch.rest # <<>>
    /\ LET g == Head(batch.rest)
       IN  /\ batch' = [batch EXCEPT !.rest = Tail(@)]
           /\ loader' = IF Item(g) THEN "send" ELSE "ended"
           /\ IF ~Item(g)
              THEN Return("error", FALSE) /\ UNCHANGED collected
              ELSE IF kind = "MountGrantMatches" /\ g = limit
              THEN Return("match", FALSE) /\ UNCHANGED collected
              ELSE collected' = collected \cup {g} /\ UNCHANGED <<caller, outcome, abandoned>>
    /\ UNCHANGED <<kind, limit, offset, total, items, missed, producerVars, channel, worldVars>>

\* The loader has closed its channel.
GrantsEnd ==
    /\ caller = "load" /\ loader = "ended"
    /\ IF kind = "MountGrantMatches" THEN Return("no match", FALSE) /\ UNCHANGED producer
       ELSE caller' = "filter" /\ producer' = "get" /\ UNCHANGED <<outcome, abandoned>>
    /\ UNCHANGED <<kind, limit, offset, collected, total, items, missed, loaderVars,
                   page, channel, worldVars>>

Included(i) == IF kind = "ListMounts" THEN i \in collected ELSE i \in Valid

\* Mutant of OnPage: the item at the offset counts as before it.
OnPageAfter == total + 1 > offset + 1 /\ Len(items) < limit

\* Mutant of OnPage: the limit is forgotten.
OnPageUnlimited == total + 1 > offset

OnPage == total + 1 > offset /\ Len(items) < limit

Skips == UNCHANGED <<total, items, caller, outcome, abandoned>>
Counts(i) ==
    /\ total' = total + 1
    /\ items' = IF OnPage THEN Append(items, i) ELSE items
    /\ UNCHANGED <<caller, outcome, abandoned>>

\* The condition of listValidKeys looks at the context; that of ListNamespaces
\* takes a failed role lookup for a missing one.
ReceiveItem ==
    /\ caller = "filter" /\ channel # <<>>
    /\ channel' = Tail(channel)
    /\ LET i == Head(channel)
           gone == kind = "ListKeys" /\ cancelled
       IN  \/ /\ ~Item(i) \/ gone
              /\ Return("error", Item(i))
              /\ UNCHANGED <<total, items, missed>>
           \/ /\ Item(i) /\ ~gone
              /\ IF Included(i) THEN Counts(i) ELSE Skips
              /\ UNCHANGED missed
           \/ /\ Item(i) /\ kind = "ListNamespaces"
              /\ missed' = TRUE /\ Skips
    /\ UNCHANGED <<kind, limit, offset, collected, loaderVars, producerVars, worldVars>>

ItemsEnd ==
    /\ caller = "filter" /\ channel = <<>> /\ producer = "ended"
    /\ Return("ok", FALSE)
    /\ UNCHANGED <<kind, limit, offset, collected, total, items, missed, loaderVars,
                   producerVars, channel, worldVars>>

Caller == ReceiveGrant \/ GrantsEnd \/ ReceiveItem \/ ItemsEnd

-----------------------------------------------------------------------------
(* The goroutine that loads grants *)

LoaderLists ==
    /\ loader = "list"
    /\ \/ LoadDone /\ loader' = "ended" /\ UNCHANGED batch
       \/ ~LoadDone /\ loader' = "send" /\ batch' \in {Got(grants, batch.offset), Failed}
    /\ UNCHANGED <<callVars, producerVars, channel, worldVars>>

\* Mutant of LoaderTurns: a full page is taken for the last one.
LoaderTurnsEarly ==
    /\ loader = "send" /\ batch.rest = <<>>
    /\ batch' = [batch EXCEPT !.offset = @ + batch.size]
    /\ loader' = IF batch.offset + batch.size >= batch.total \/ batch.size <= PageLimit
                 THEN "ended" ELSE "list"
    /\ UNCHANGED <<callVars, producerVars, channel, worldVars>>

\* Mutant of LoaderTurns: the offset is not advanced.
LoaderTurnsInPlace ==
    /\ loader = "send" /\ batch.rest = <<>>
    /\ loader' = IF batch.offset + batch.size >= batch.total \/ batch.size = 0
                 THEN "ended" ELSE "list"
    /\ UNCHANGED <<callVars, batch, producerVars, channel, worldVars>>

\* The page is sent: list the next one, or end when there is none.
LoaderTurns ==
    /\ loader = "send" /\ batch.rest = <<>>
    /\ batch' = [batch EXCEPT !.offset = @ + batch.size]
    /\ loader' = IF batch.offset + batch.size >= batch.total \/ batch.size = 0
                 THEN "ended" ELSE "list"
    /\ UNCHANGED <<callVars, producerVars, channel, worldVars>>

\* Mutant of LoaderGivesUp: send does not select on the context.
LoaderNeverGivesUp == FALSE

\* send selects the context, which is done, although somebody may receive.
LoaderGivesUp ==
    /\ loader = "send" /\ batch.rest # <<>> /\ LoadDone
    /\ loader' = "ended"
    /\ UNCHANGED <<callVars, batch, producerVars, channel, worldVars>>

Loader == LoaderLists \/ LoaderTurns \/ LoaderGivesUp

-----------------------------------------------------------------------------
(* The goroutine of filter.Filter *)

ProducerGets ==
    /\ producer = "get"
    /\ producer' = "yield"
    /\ page' \in {Got(source, page.offset), Failed}
    /\ UNCHANGED <<callVars, loaderVars, channel, worldVars>>

\* Blocks while the channel is full, whoever still reads it.
ProducerYields ==
    /\ producer = "yield" /\ page.rest # <<>>
    /\ Len(channel) < PageLimit
    /\ channel' = Append(channel, Head(page.rest))
    /\ page' = [page EXCEPT !.rest = Tail(@)]
    /\ producer' = IF Item(Head(page.rest)) THEN "yield" ELSE "ended"
    /\ UNCHANGED <<callVars, loaderVars, worldVars>>

\* A short or empty page is the last one.
ProducerTurns ==
    /\ producer = "yield" /\ page.rest = <<>>
    /\ producer' = IF page.size < PageLimit THEN "ended" ELSE "get"
    /\ page' = [page EXCEPT !.offset = @ + page.size]
    /\ UNCHANGED <<callVars, loaderVars, channel, worldVars>>

Producer == ProducerGets \/ ProducerYields \/ ProducerTurns

-----------------------------------------------------------------------------
(* Everybody else *)

Cancel ==
    /\ ~cancelled
    /\ cancelled' = TRUE
    /\ UNCHANGED <<callVars, loaderVars, producerVars, channel, source, grants,
                   first, shrunk, events>>

\* What others change after the call has returned is of no interest.
Change ==
    /\ events < MaxEvents /\ caller # "returned"
    /\ events' = events + 1
    /\ \E i \in Items :
           \/ /\ i \notin source /\ kind \in Filtered
              /\ source' = source \cup {i} /\ UNCHANGED <<grants, shrunk>>
           \/ /\ i \in source
              /\ source' = source \ {i} /\ shrunk' = TRUE /\ UNCHANGED grants
           \/ /\ i \notin grants /\ kind \in Granted
              /\ grants' = grants \cup {i} /\ UNCHANGED <<source, shrunk>>
           \/ /\ i \in grants
              /\ grants' = grants \ {i} /\ shrunk' = TRUE /\ UNCHANGED source
    /\ UNCHANGED <<callVars, loaderVars, producerVars, channel, cancelled, first>>

ListingNext == Caller \/ Loader \/ Producer \/ Cancel \/ Change

\* Any call on any lists.  For MountGrantMatches, limit is the base URI.
ListingInit ==
    /\ kind \in Kinds
    /\ limit \in IF kind = "MountGrantMatches" THEN Items ELSE Limits
    /\ offset \in IF kind = "MountGrantMatches" THEN {0} ELSE Offsets
    /\ source \in IF kind \in Filtered THEN SUBSET Items ELSE {{}}
    /\ grants \in IF kind \in Granted THEN SUBSET Items ELSE {{}}
    /\ caller = IF kind \in Granted THEN "load" ELSE "filter"
    /\ loader = IF kind \in Granted THEN "list" ELSE "none"
    /\ producer = IF kind \in Granted THEN "none" ELSE "get"
    /\ batch = NoPage /\ page = NoPage /\ channel = <<>>
    /\ collected = {} /\ total = 0 /\ items = <<>>
    /\ outcome = "none" /\ abandoned = FALSE /\ missed = FALSE /\ cancelled = FALSE
    /\ first = [source |-> source, grants |-> grants]
    /\ shrunk = FALSE /\ events = 0

\* Goroutines are scheduled.
ListingSpec ==
    /\ ListingInit
    /\ [][ListingNext]_listingVars
    /\ WF_listingVars(Caller)
    /\ WF_listingVars(Loader)
    /\ WF_listingVars(Producer)

-----------------------------------------------------------------------------
(* Properties *)

\* The goroutines are in one of their states; the channel holds at most a
\* page and the answer at most the limit.
ListingTypeOK ==
    /\ kind \in Kinds
    /\ caller \in {"load", "filter", "returned"}
    /\ loader \in {"none", "list", "send", "ended"}
    /\ producer \in {"none", "get", "yield", "ended"}
    /\ Len(channel) <= PageLimit /\ Len(items) <= limit
    /\ collected \subseteq Items /\ source \subseteq Items /\ grants \subseteq Items
    /\ outcome \in {"none", "match", "no match", "ok", "error"}
    /\ cancelled \in BOOLEAN /\ shrunk \in BOOLEAN /\ abandoned \in BOOLEAN /\ missed \in BOOLEAN
    /\ events \in 0..MaxEvents

\* The matching items the backend had when the call began, in order.
Matching ==
    Sorted(first.source \cap (IF kind = "ListMounts" THEN first.grants ELSE Valid))

\* A call that reports success over lists that stay as they are returns the
\* total and the page that one look at the whole list gives, wherever page
\* boundaries fall; lists that only grow hide nothing from the total.  Two
\* calls may be told less: ListMounts of a cancelled request, because the
\* loader ends without an error, and ListNamespaces when a role lookup fails.
PageIsRight ==
    outcome = "ok" /\ ~(kind = "ListMounts" /\ cancelled) /\ ~missed =>
        /\ ~shrunk => total >= Len(Matching)
        /\ events = 0 =>
               /\ total = Len(Matching)
               /\ items = Page(Matching, offset, limit)

\* MountGrantMatches refuses a base URI that was granted all along only to a
\* request that was cancelled, or when other grants were removed meanwhile;
\* as long as nobody changes the grants it accepts only what is granted.
RefusalsAreRight ==
    /\ outcome = "no match" /\ ~cancelled /\ ~shrunk => limit \notin first.grants
    /\ outcome = "match" /\ events = 0 => limit \in first.grants

\* Every call returns, also when the client has gone or a backend fails.
CallsReturn == <>(caller = "returned")

\* A producer that nobody reads any more and that cannot send.
Leaked == abandoned /\ producer = "yield" /\ page.rest # <<>> /\ Len(channel) = PageLimit

\* Once the call has returned its goroutines end, but for one case: the
\* context was cancelled while ListKeys filtered more keys than the channel
\* still held, and Filter returned without draining it.
GoroutinesEnd ==
    caller = "returned" ~>
        loader \in {"none", "ended"} /\ (producer \in {"none", "ended"} \/ Leaked)

=============================================================================
