--------------------------- MODULE ListingProofs ---------------------------
(***************************************************************************)
(* The filtered lists and the matching of grants, for any items, page      *)
(* limit, limit and offset of the request and any number of changes by     *)
(* others: what the three goroutines hand to each other over pages and     *)
(* channels amounts to one look at the whole list.                         *)
(***************************************************************************)
EXTENDS Listing, PageProofs

-----------------------------------------------------------------------------
(* The inductive invariant *)

\* What goes over a channel: an item, or 0 for an error.
Signals == Items \cup {0}
PageRecord == [rest : Seq(Signals), size : Nat, total : Nat, offset : Nat]

Typed ==
    /\ ListingTypeOK
    /\ limit \in Nat /\ offset \in Nat /\ total \in Nat
    /\ items \in Seq(Items) /\ channel \in Seq(Signals)
    /\ batch \in PageRecord /\ page \in PageRecord
    /\ first \in [source : SUBSET Items, grants : SUBSET Items]

\* Which goroutine can be in which state.
Stages ==
    /\ caller = "load" => kind \in Granted /\ producer = "none"
    /\ caller = "filter" => kind \in Filtered /\ producer # "none"
    /\ outcome = "none" <=> caller # "returned"
    /\ outcome = "ok" => kind \in Filtered
    /\ outcome \in {"match", "no match"} => kind = "MountGrantMatches"
    /\ producer = "none" => channel = <<>> /\ page = NoPage /\ total = 0 /\ items = <<>>

\* What the lists have in common with those the call began with.
World ==
    /\ ~shrunk => first.source \subseteq source /\ first.grants \subseteq grants
    /\ events = 0 => ~shrunk /\ source = first.source /\ grants = first.grants

Holds(sequence, x) == \E i \in 1..Len(sequence) : sequence[i] = x

\* The loader is about to send g or an error, or has yet to list g.
GrantAhead(g) ==
    \/ loader = "list" /\ Rank(grants, g) >= batch.offset
    \/ loader = "send" /\ (Holds(batch.rest, g) \/ Holds(batch.rest, 0))
    \/ /\ loader = "send" /\ batch.size # 0
       /\ batch.offset + batch.size < batch.total
       /\ Rank(grants, g) >= batch.offset + batch.size

\* While it loads, nothing that was granted all along is behind the caller
\* unless the caller has it; and the caller has nothing else as long as
\* nothing changes.
Loading ==
    /\ caller = "load" /\ ~cancelled /\ ~shrunk =>
           \A g \in first.grants : g \in collected \/ GrantAhead(g)
    /\ kind = "MountGrantMatches" => limit \notin collected
    /\ events = 0 =>
           /\ collected \subseteq first.grants
           /\ \A i \in 1..Len(batch.rest) : batch.rest[i] \in first.grants \cup {0}
    /\ kind = "ListMounts" /\ caller = "filter" /\ ~cancelled /\ ~shrunk =>
           first.grants \subseteq collected

\* The items of the first list that the call is to return or count.
Wanted == first.source \cap (IF kind = "ListMounts" THEN first.grants ELSE Valid)

\* The call does not fall under an exception of PageIsRight.
Told == ~(kind = "ListMounts" /\ cancelled) /\ ~missed

\* An error is on its way to the caller.
Poisoned == Holds(channel, 0) \/ (producer = "yield" /\ Holds(page.rest, 0))

\* x is on its way to the caller, or the producer has yet to list it.
ItemAhead(x) ==
    \/ Holds(channel, x)
    \/ producer = "yield" /\ Holds(page.rest, x)
    \/ producer = "get" /\ Rank(source, x) >= page.offset
    \/ /\ producer = "yield" /\ page.size = PageLimit
       /\ Rank(source, x) >= page.offset + page.size

Passed == {x \in Wanted : ~ItemAhead(x)}

\* Nothing wanted is behind the caller without having been counted.
Counting ==
    /\ caller = "filter" /\ Told /\ ~shrunk /\ ~Poisoned => Cardinality(Passed) <= total
    /\ outcome = "ok" /\ Told /\ ~shrunk => Cardinality(Wanted) <= total

\* How many items of the list were put into the channel, and received.
Sent == IF producer = "yield" THEN page.offset + page.size - Len(page.rest) ELSE page.offset
Received == Sent - Len(channel)

\* The items with the ranks from, from + 1, ...
InOrder(sequence, from) ==
    \A i \in 1..Len(sequence) : sequence[i] \in source /\ Rank(source, sequence[i]) = from + i - 1

\* The pipeline holds a section of the list.
Section ==
    /\ Sent \in Nat /\ Received \in Nat
    /\ Sent <= Cardinality(source)
    /\ InOrder(channel, Received)
    /\ producer = "yield" =>
           /\ InOrder(page.rest, Sent)
           /\ page.offset + page.size <= Cardinality(source)
           /\ page.size < PageLimit => page.offset + page.size = Cardinality(source)
    /\ producer = "ended" => Sent = Cardinality(source)

\* The answer to the wanted items in W.
AnswerFor(W) ==
    /\ total = Cardinality(W)
    /\ Len(items) = IF total <= offset THEN 0
                    ELSE IF total - offset < limit THEN total - offset ELSE limit
    /\ \A i \in 1..Len(items) : items[i] = Sorted(Wanted)[offset + i]

Front(n) == {x \in Wanted : Rank(source, x) < n}

Exact == Section /\ AnswerFor(Front(Received))

\* As long as nothing changes, the answer is exact at every moment.
Exactness ==
    events = 0 /\ Told =>
        /\ caller = "filter" /\ ~Poisoned => Exact
        /\ outcome = "ok" => AnswerFor(Wanted)

ListingInv ==
    Typed /\ Stages /\ World /\ Loading /\ Counting /\ Exactness

-----------------------------------------------------------------------------
(* Types *)

\* A page of a list, as a goroutine reads it.
LEMMA GotPage ==
    ASSUME NEW S \in SUBSET Items, NEW from \in Nat
    PROVE  /\ S \in SUBSET Nat /\ IsFiniteSet(S) /\ Cardinality(S) \in Nat
           /\ Got(S, from) \in PageRecord
           /\ Got(S, from).offset = from /\ Got(S, from).total = Cardinality(S)
           /\ Got(S, from).size = Len(Got(S, from).rest)
           /\ Got(S, from).rest = Page(Sorted(S), from, PageLimit)
           /\ Got(S, from).rest \in Seq(S)
           /\ Got(S, from).size <= PageLimit
  <1>1. S \in SUBSET Nat /\ IsFiniteSet(S) /\ Cardinality(S) \in Nat
    BY ListingAssumption, FS_Subset, FS_CardinalityType
  <1> DEFINE p == Page(Sorted(S), from, PageLimit)
  <1>2. p \in Seq(S) /\ Len(p) \in Nat /\ Len(p) <= PageLimit
    BY <1>1, PageOfSorted, ListingAssumption
  <1>3. Got(S, from) = [rest |-> p, size |-> Len(p), total |-> Cardinality(S), offset |-> from]
    BY DEF Got, Fetch
  <1> HIDE DEF p
  <1>4. p \in Seq(Signals)
    BY <1>2 DEF Signals
  <1> QED BY <1>1, <1>2, <1>3, <1>4 DEF PageRecord, p

LEMMA FailedPage == Failed \in PageRecord /\ NoPage \in PageRecord
  <1>1. <<0>> \in Seq(Signals) /\ <<>> \in Seq(Signals)
    BY DEF Signals
  <1> QED BY <1>1 DEF Failed, NoPage, PageRecord

LEMMA TypedInit == ListingInit => Typed
  <1> SUFFICES ASSUME ListingInit PROVE Typed
    OBVIOUS
  <1>1. batch \in PageRecord /\ page \in PageRecord
    BY FailedPage DEF ListingInit
  <1>2. channel = <<>> /\ items = <<>> /\ Len(channel) = 0 /\ Len(items) = 0
    BY DEF ListingInit
  <1>3. limit \in Nat /\ offset \in Nat
    BY ListingAssumption DEF ListingInit
  <1>4. source \in SUBSET Items /\ grants \in SUBSET Items
    BY DEF ListingInit
  <1>5. /\ kind \in Kinds /\ caller \in {"load", "filter", "returned"}
        /\ loader \in {"none", "list", "send", "ended"}
        /\ producer \in {"none", "get", "yield", "ended"}
    BY DEF ListingInit
  <1>6. first \in [source : SUBSET Items, grants : SUBSET Items]
    BY <1>4 DEF ListingInit
  <1>7. Len(channel) <= PageLimit /\ Len(items) <= limit /\ events \in 0..MaxEvents
    BY <1>2, <1>3, ListingAssumption DEF ListingInit
  <1>8. channel \in Seq(Signals) /\ items \in Seq(Items)
    BY <1>2
  <1> QED BY <1>1, <1>3, <1>4, <1>5, <1>6, <1>7, <1>8 DEF Typed, ListingTypeOK, ListingInit

\* One lemma for each group of variables: the call itself,
LEMMA CallTypes ==
    ASSUME Typed, [ListingNext]_listingVars
    PROVE  /\ kind' = kind /\ limit' = limit /\ offset' = offset
           /\ (caller \in {"load", "filter", "returned"})'
           /\ (outcome \in {"none", "match", "no match", "ok", "error"})'
           /\ collected' \subseteq Items
           /\ abandoned' \in BOOLEAN /\ missed' \in BOOLEAN
  <1> USE DEF callVars, loaderVars, producerVars, worldVars, listingVars
  <1>0. /\ caller \in {"load", "filter", "returned"}
        /\ outcome \in {"none", "match", "no match", "ok", "error"}
        /\ collected \subseteq Items /\ abandoned \in BOOLEAN /\ missed \in BOOLEAN
        /\ batch \in PageRecord
    BY DEF Typed, ListingTypeOK
  <1>1. CASE ReceiveGrant
    <2>1. batch.rest \in Seq(Signals) /\ batch.rest # <<>>
      BY <1>0, <1>1 DEF PageRecord, ReceiveGrant
    <2>2. Head(batch.rest) \in Signals
      BY <2>1, RestOfPage
    <2>3. collected' \subseteq Items
      BY <1>0, <1>1, <2>2 DEF ReceiveGrant, Return, Item, Signals
    <2>4. abandoned' \in {abandoned, FALSE} /\ missed' = missed
      BY <1>1 DEF ReceiveGrant, Return
    <2>5. caller' \in {caller, "returned"} /\ outcome' \in {outcome, "error", "match"}
      BY <1>1 DEF ReceiveGrant, Return
    <2> QED BY <1>0, <1>1, <2>3, <2>4, <2>5 DEF ReceiveGrant
  <1>2. CASE GrantsEnd
    BY <1>0, <1>2 DEF GrantsEnd, Return
  <1>3. CASE ReceiveItem
    <2>1. abandoned' \in {abandoned, TRUE, FALSE}
      <3>1. \/ abandoned' = Item(Head(channel)) \/ abandoned' = abandoned
        BY <1>3, Zenon DEF ReceiveItem, Return, Counts, Skips
      <3>2. Item(Head(channel)) \in {TRUE, FALSE}
        BY Zenon DEF Item
      <3> QED BY <3>1, <3>2, Zenon
    <2>2. missed' \in {missed, TRUE}
      BY <1>3, Zenon DEF ReceiveItem, Return, Counts, Skips
    <2>3. caller' \in {caller, "returned"} /\ outcome' \in {outcome, "error"}
      BY <1>3, Zenon DEF ReceiveItem, Return, Counts, Skips
    <2> QED BY <1>0, <1>3, <2>1, <2>2, <2>3 DEF ReceiveItem
  <1>4. CASE ItemsEnd
    BY <1>0, <1>4 DEF ItemsEnd, Return
  <1>5. CASE Loader
    BY <1>0, <1>5 DEF Loader, LoaderLists, LoaderTurns, LoaderGivesUp
  <1>6. CASE Producer
    BY <1>0, <1>6 DEF Producer, ProducerGets, ProducerYields, ProducerTurns
  <1>7. CASE Cancel \/ Change \/ UNCHANGED listingVars
    BY <1>0, <1>7 DEF Cancel, Change
  <1> QED BY <1>1, <1>2, <1>3, <1>4, <1>5, <1>6, <1>7 DEF ListingNext, Caller

\* the answer,
LEMMA AnswerTypes ==
    ASSUME Typed, [ListingNext]_listingVars
    PROVE  total' \in Nat /\ items' \in Seq(Items) /\ Len(items') <= limit
  <1> USE DEF callVars, loaderVars, producerVars, worldVars, listingVars
  <1>0. /\ total \in Nat /\ items \in Seq(Items) /\ Len(items) <= limit /\ limit \in Nat
        /\ channel \in Seq(Signals)
    BY DEF Typed, ListingTypeOK
  <1>1. CASE ReceiveItem
    <2>1. Head(channel) \in Signals
      BY <1>0, <1>1, RestOfPage DEF ReceiveItem
    <2>2. \/ total' = total /\ items' = items
          \/ Item(Head(channel)) /\ Counts(Head(channel))
      BY <1>1, Zenon DEF ReceiveItem, Skips
    <2>3. CASE Item(Head(channel)) /\ Counts(Head(channel))
      <3>1. Head(channel) \in Items
        BY <2>1, <2>3 DEF Item, Signals
      <3>2. CASE OnPage
        <4>1. items' = Append(items, Head(channel)) /\ total' = total + 1 /\ Len(items) < limit
          BY <2>3, <3>2 DEF Counts, OnPage
        <4> QED BY <1>0, <3>1, <4>1
      <3>3. CASE ~OnPage
        BY <1>0, <2>3, <3>3 DEF Counts
      <3> QED BY <3>2, <3>3
    <2> QED BY <1>0, <2>2, <2>3
  <1>2. CASE ReceiveGrant \/ GrantsEnd \/ ItemsEnd
    BY <1>0, <1>2 DEF ReceiveGrant, GrantsEnd, ItemsEnd
  <1>3. CASE Loader
    BY <1>0, <1>3 DEF Loader, LoaderLists, LoaderTurns, LoaderGivesUp
  <1>4. CASE Producer
    BY <1>0, <1>4 DEF Producer, ProducerGets, ProducerYields, ProducerTurns
  <1>5. CASE Cancel \/ Change \/ UNCHANGED listingVars
    BY <1>0, <1>5 DEF Cancel, Change
  <1> QED BY <1>1, <1>2, <1>3, <1>4, <1>5 DEF ListingNext, Caller

\* A page from which one element was taken, or after which the next begins.
LEMMA PageUpdates ==
    ASSUME NEW p \in PageRecord
    PROVE  /\ [p EXCEPT !.offset = @ + p.size] \in PageRecord
           /\ p.rest # <<>> => [p EXCEPT !.rest = Tail(@)] \in PageRecord
  <1>1. p.rest \in Seq(Signals) /\ p.size \in Nat /\ p.offset \in Nat
    BY DEF PageRecord
  <1>2. p.rest # <<>> => Tail(p.rest) \in Seq(Signals)
    BY <1>1, RestOfPage
  <1> QED BY <1>1, <1>2 DEF PageRecord

\* the goroutines and the channel,
LEMMA GoroutineTypes ==
    ASSUME Typed, [ListingNext]_listingVars
    PROVE  /\ (loader \in {"none", "list", "send", "ended"})'
           /\ (producer \in {"none", "get", "yield", "ended"})'
           /\ batch' \in PageRecord /\ page' \in PageRecord
           /\ channel' \in Seq(Signals) /\ Len(channel') <= PageLimit
  <1> USE DEF callVars, loaderVars, producerVars, worldVars, listingVars
  <1>0. /\ loader \in {"none", "list", "send", "ended"}
        /\ producer \in {"none", "get", "yield", "ended"}
        /\ batch \in PageRecord /\ page \in PageRecord
        /\ channel \in Seq(Signals) /\ Len(channel) <= PageLimit
        /\ source \in SUBSET Items /\ grants \in SUBSET Items
    BY DEF Typed, ListingTypeOK
  <1>a. /\ batch.offset \in Nat /\ page.offset \in Nat
        /\ page.rest \in Seq(Signals) /\ PageLimit \in Nat
    BY <1>0, ListingAssumption DEF PageRecord
  <1>1. CASE ReceiveGrant
    <2>1. batch' = [batch EXCEPT !.rest = Tail(@)] /\ batch.rest # <<>>
      BY <1>1 DEF ReceiveGrant
    <2>2. batch' \in PageRecord
      BY <1>0, <2>1, PageUpdates
    <2> QED BY <1>0, <1>1, <2>2 DEF ReceiveGrant
  <1>2. CASE GrantsEnd \/ ItemsEnd
    BY <1>0, <1>2 DEF GrantsEnd, ItemsEnd, Return
  <1>3. CASE ReceiveItem
    <2>1. channel' = Tail(channel) /\ channel # <<>>
      BY <1>3 DEF ReceiveItem
    <2>2. channel' \in Seq(Signals) /\ Len(channel') = Len(channel) - 1 /\ Len(channel) \in Nat
      BY <1>0, <2>1, RestOfPage
    <2>3. Len(channel') <= PageLimit
      BY <1>0, <1>a, <2>2
    <2> QED BY <1>0, <1>3, <2>2, <2>3 DEF ReceiveItem
  <1>4. CASE LoaderLists
    <2>1. Got(grants, batch.offset) \in PageRecord
      BY <1>0, <1>a, GotPage
    <2>2. batch' \in PageRecord
      BY <1>0, <1>4, <2>1, FailedPage DEF LoaderLists
    <2> QED BY <1>0, <1>4, <2>2 DEF LoaderLists
  <1>5. CASE LoaderTurns
    BY <1>0, <1>5, PageUpdates DEF LoaderTurns
  <1>6. CASE LoaderGivesUp
    BY <1>0, <1>6 DEF LoaderGivesUp
  <1>7. CASE ProducerGets
    <2>1. Got(source, page.offset) \in PageRecord
      BY <1>0, <1>a, GotPage
    <2>2. page' \in PageRecord
      BY <1>0, <1>7, <2>1, FailedPage DEF ProducerGets
    <2> QED BY <1>0, <1>7, <2>2 DEF ProducerGets
  <1>8. CASE ProducerYields
    <2>1. page' \in PageRecord
      BY <1>0, <1>8, PageUpdates DEF ProducerYields
    <2>2. Head(page.rest) \in Signals
      BY <1>a, <1>8, RestOfPage DEF ProducerYields
    <2>3. channel' = Append(channel, Head(page.rest)) /\ Len(channel) < PageLimit
      BY <1>8 DEF ProducerYields
    <2>4. channel' \in Seq(Signals) /\ Len(channel') <= PageLimit
      BY <1>0, <1>a, <2>2, <2>3
    <2> QED BY <1>0, <1>8, <2>1, <2>4 DEF ProducerYields
  <1>9. CASE ProducerTurns
    BY <1>0, <1>9, PageUpdates DEF ProducerTurns
  <1>10. CASE Cancel \/ Change \/ UNCHANGED listingVars
    BY <1>0, <1>10 DEF Cancel, Change
  <1> QED BY <1>1, <1>2, <1>3, <1>4, <1>5, <1>6, <1>7, <1>8, <1>9, <1>10
          DEF ListingNext, Caller, Loader, Producer

\* and the lists.
LEMMA WorldTypes ==
    ASSUME Typed, [ListingNext]_listingVars
    PROVE  /\ source' \in SUBSET Items /\ grants' \in SUBSET Items /\ first' = first
           /\ cancelled' \in BOOLEAN /\ shrunk' \in BOOLEAN /\ events' \in 0..MaxEvents
           /\ (cancelled => cancelled') /\ (shrunk => shrunk')
           /\ \/ UNCHANGED <<source, grants, shrunk, events>>
              \/ Change /\ events' # 0 /\ UNCHANGED cancelled
  <1> USE DEF callVars, loaderVars, producerVars, worldVars, listingVars
  <1>0. /\ source \in SUBSET Items /\ grants \in SUBSET Items
        /\ cancelled \in BOOLEAN /\ shrunk \in BOOLEAN /\ events \in 0..MaxEvents
    BY DEF Typed, ListingTypeOK
  <1>1. CASE Change
    <2>1. events' \in 0..MaxEvents /\ events' # 0
      BY <1>0, <1>1, ListingAssumption DEF Change
    <2>2. source' \in SUBSET Items /\ grants' \in SUBSET Items
      BY <1>0, <1>1 DEF Change
    <2>3. shrunk' \in {shrunk, TRUE}
      BY <1>1 DEF Change
    <2>4. first' = first /\ cancelled' = cancelled
      BY <1>1 DEF Change
    <2>5. shrunk' \in BOOLEAN /\ (shrunk => shrunk')
      BY <1>0, <2>3, Zenon
    <2> QED BY <1>0, <1>1, <2>1, <2>2, <2>4, <2>5
  <1>2. CASE Cancel
    BY <1>0, <1>2 DEF Cancel
  <1>3. CASE Caller
    BY <1>0, <1>3 DEF Caller, ReceiveGrant, GrantsEnd, ReceiveItem, ItemsEnd
  <1>4. CASE Loader
    BY <1>0, <1>4 DEF Loader, LoaderLists, LoaderTurns, LoaderGivesUp
  <1>5. CASE Producer
    BY <1>0, <1>5 DEF Producer, ProducerGets, ProducerYields, ProducerTurns
  <1>6. CASE UNCHANGED listingVars
    BY <1>0, <1>6
  <1> QED BY <1>1, <1>2, <1>3, <1>4, <1>5, <1>6 DEF ListingNext

LEMMA TypedStep == Typed /\ [ListingNext]_listingVars => Typed'
  <1> SUFFICES ASSUME Typed, [ListingNext]_listingVars PROVE Typed'
    OBVIOUS
  <1>1. kind \in Kinds /\ limit \in Nat /\ offset \in Nat
        /\ first \in [source : SUBSET Items, grants : SUBSET Items]
    BY DEF Typed, ListingTypeOK
  <1> QED BY <1>1, CallTypes, AnswerTypes, GoroutineTypes, WorldTypes DEF Typed, ListingTypeOK

-----------------------------------------------------------------------------
(* Stages and lists *)

LEMMA StagesStep ==
    ASSUME Typed, Stages, [ListingNext]_listingVars
    PROVE  Stages'
  <1> USE DEF callVars, loaderVars, producerVars, worldVars, listingVars, Stages
  <1>0. kind \in Kinds /\ kind' = kind
    BY CallTypes DEF Typed, ListingTypeOK
  <1>1. CASE ReceiveGrant
    BY <1>0, <1>1 DEF ReceiveGrant, Return
  <1>2. CASE GrantsEnd
    BY <1>0, <1>2 DEF GrantsEnd, Return, Kinds, Filtered, Granted
  <1>3. CASE ReceiveItem
    <2>1. /\ caller = "filter" /\ producer' = producer /\ page' = page
          /\ \/ caller' = caller /\ outcome' = outcome
             \/ caller' = "returned" /\ outcome' = "error"
      BY <1>3, Zenon DEF ReceiveItem, Return, Counts, Skips
    <2> QED BY <1>0, <2>1
  <1>4. CASE ItemsEnd
    BY <1>0, <1>4 DEF ItemsEnd, Return
  <1>5. CASE Loader
    BY <1>0, <1>5 DEF Loader, LoaderLists, LoaderTurns, LoaderGivesUp
  <1>6. CASE Producer
    BY <1>0, <1>6 DEF Producer, ProducerGets, ProducerYields, ProducerTurns
  <1>7. CASE Cancel \/ Change \/ UNCHANGED listingVars
    BY <1>0, <1>7 DEF Cancel, Change
  <1> QED BY <1>1, <1>2, <1>3, <1>4, <1>5, <1>6, <1>7 DEF ListingNext, Caller

LEMMA WorldStep ==
    ASSUME Typed, World, [ListingNext]_listingVars
    PROVE  World'
  <1> USE DEF World
  <1>1. first' = first /\ (shrunk => shrunk')
        /\ (UNCHANGED <<source, grants, shrunk, events>> \/ (Change /\ events' # 0))
    BY WorldTypes
  <1>2. CASE UNCHANGED <<source, grants, shrunk, events>>
    BY <1>1, <1>2
  <1>3. CASE Change /\ events' # 0
    <2>1. ASSUME ~shrunk' PROVE source \subseteq source' /\ grants \subseteq grants'
      BY <1>3, <2>1 DEF Change
    <2> QED BY <1>1, <1>3, <2>1
  <1> QED BY <1>1, <1>2, <1>3

-----------------------------------------------------------------------------
(* Loading grants *)

\* What is left of a sequence holds what it held, but for its first element.
LEMMA HoldsInTail ==
    ASSUME NEW S, NEW s \in Seq(S), s # <<>>, NEW x, Holds(s, x), x # Head(s)
    PROVE  Holds(Tail(s), x)
  <1>1. PICK i \in 1..Len(s) : s[i] = x
    BY DEF Holds
  <1>2. /\ Head(s) = s[1] /\ Len(s) \in Nat /\ Len(Tail(s)) = Len(s) - 1
        /\ \A j \in 1..Len(Tail(s)) : Tail(s)[j] = s[j + 1]
    BY RestOfPage
  <1>3. i - 1 \in 1..Len(Tail(s))
    BY <1>1, <1>2
  <1>4. Tail(s)[i - 1] = s[(i - 1) + 1] /\ (i - 1) + 1 = i
    BY <1>2, <1>3
  <1> QED BY <1>1, <1>3, <1>4 DEF Holds

\* A step of others moves nothing forward in a list that loses nothing.
LEMMA RankGrows ==
    ASSUME NEW S \in SUBSET Items, NEW y \in Items, NEW x \in S
    PROVE  /\ Rank(S, x) \in Nat /\ Rank(S \cup {y}, x) \in Nat
           /\ Rank(S \cup {y}, x) >= Rank(S, x)
  <1>1. /\ S \in SUBSET Nat /\ IsFiniteSet(S)
        /\ S \cup {y} \in SUBSET Nat /\ IsFiniteSet(S \cup {y}) /\ x \in S \cup {y}
    <2>1. S \cup {y} \in SUBSET Items /\ Items \in SUBSET Nat /\ IsFiniteSet(Items)
      BY ListingAssumption
    <2>2. IsFiniteSet(S) /\ IsFiniteSet(S \cup {y})
      BY <2>1, FS_Subset
    <2> QED BY <2>1, <2>2
  <1>2. Rank(S, x) \in Nat
    BY <1>1, RankBounds
  <1>3. Rank(S \cup {y}, x) \in Nat
    BY <1>1, RankBounds
  <1>4. y \in Nat
    BY ListingAssumption
  <1>5. Rank(S \cup {y}, x) >= Rank(S, x)
    BY <1>1, <1>4, RankAfterAdding
  <1> QED BY <1>2, <1>3, <1>5

LEMMA RanksInChange ==
    ASSUME Typed, Change, ~shrunk'
    PROVE  /\ ~shrunk
           /\ source \subseteq source' /\ grants \subseteq grants'
           /\ \A x \in source : /\ Rank(source, x) \in Nat /\ Rank(source', x) \in Nat
                                /\ Rank(source', x) >= Rank(source, x)
           /\ \A g \in grants : /\ Rank(grants, g) \in Nat /\ Rank(grants', g) \in Nat
                                /\ Rank(grants', g) >= Rank(grants, g)
  <1>1. source \in SUBSET Items /\ grants \in SUBSET Items
    BY DEF Typed, ListingTypeOK
  <1>2. PICK i \in Items :
           \/ source' = source \cup {i} /\ UNCHANGED <<grants, shrunk>>
           \/ grants' = grants \cup {i} /\ UNCHANGED <<source, shrunk>>
    BY DEF Change
  <1>3. ASSUME NEW S \in SUBSET Items, NEW x \in S PROVE Rank(S, x) \in Nat
    <2>1. S \in SUBSET Nat /\ IsFiniteSet(S)
      BY ListingAssumption, FS_Subset
    <2> QED BY <2>1, RankBounds
  <1>4. CASE source' = source \cup {i} /\ UNCHANGED <<grants, shrunk>>
    <2>1. \A g \in grants : Rank(grants, g) \in Nat
      BY <1>1, <1>3
    <2>2. \A x \in source : /\ Rank(source, x) \in Nat /\ Rank(source \cup {i}, x) \in Nat
                            /\ Rank(source \cup {i}, x) >= Rank(source, x)
      BY <1>1, RankGrows
    <2> QED BY <1>4, <2>1, <2>2
  <1>5. CASE grants' = grants \cup {i} /\ UNCHANGED <<source, shrunk>>
    <2>1. \A g \in source : Rank(source, g) \in Nat
      BY <1>1, <1>3
    <2>2. \A x \in grants : /\ Rank(grants, x) \in Nat /\ Rank(grants \cup {i}, x) \in Nat
                            /\ Rank(grants \cup {i}, x) >= Rank(grants, x)
      BY <1>1, RankGrows
    <2> QED BY <1>5, <2>1, <2>2
  <1> QED BY <1>2, <1>4, <1>5

\* The page that the loader lists next has what was ahead, or its successor.
LEMMA GrantListed ==
    ASSUME Typed, NEW g \in grants, Rank(grants, g) >= batch.offset,
           loader' = "send", grants' = grants, batch' \in {Got(grants, batch.offset), Failed}
    PROVE  GrantAhead(g)'
  <1>1. batch.offset \in Nat /\ grants \in SUBSET Items
    BY DEF Typed, ListingTypeOK, PageRecord
  <1>2. CASE batch' = Failed
    <2>1. Len(batch'.rest) = 1 /\ batch'.rest[1] = 0
      BY <1>2 DEF Failed
    <2> QED BY <2>1 DEF GrantAhead, Holds
  <1>3. CASE batch' = Got(grants, batch.offset)
    <2> DEFINE p == Page(Sorted(grants), batch.offset, PageLimit)
    <2>1. /\ grants \in SUBSET Nat /\ IsFiniteSet(grants)
          /\ batch'.offset = batch.offset /\ batch'.total = Cardinality(grants)
          /\ batch'.size = Len(p) /\ batch'.rest = p
      BY <1>1, <1>3, GotPage
    <2>2. \/ \E i \in 1..Len(p) : p[i] = g
          \/ /\ Rank(grants, g) >= batch.offset + Len(p)
             /\ Len(p) = PageLimit /\ batch.offset + Len(p) < Cardinality(grants)
      BY <1>1, <2>1, PageOfSorted, ListingAssumption
    <2> HIDE DEF p
    <2> QED BY <2>1, <2>2, ListingAssumption DEF GrantAhead, Holds
  <1> QED BY <1>2, <1>3

\* The first conjunct of Loading, step by step.
LEMMA GrantsStayAhead ==
    ASSUME Typed, Stages, World, Loading, [ListingNext]_listingVars,
           caller' = "load", ~cancelled', ~shrunk', NEW g \in first.grants
    PROVE  (g \in collected \/ GrantAhead(g))'
  <1> USE DEF callVars, loaderVars, producerVars, worldVars, listingVars
  <1>0. /\ batch.rest \in Seq(Signals) /\ batch.size \in Nat /\ batch.total \in Nat
        /\ batch.offset \in Nat /\ grants \in SUBSET Items /\ first.grants \in SUBSET Items
    BY DEF Typed, ListingTypeOK, PageRecord
  <1>1. caller = "load" /\ ~cancelled /\ ~shrunk
    <2>1. caller = "load"
      <3>1. CASE Caller
        <4>1. CASE ReceiveItem
          BY <4>1, Zenon DEF ReceiveItem, Return, Counts, Skips
        <4> QED BY <3>1, <4>1 DEF Caller, ReceiveGrant, GrantsEnd, ItemsEnd, Return
      <3>2. CASE Loader
        BY <3>2 DEF Loader, LoaderLists, LoaderTurns, LoaderGivesUp
      <3>3. CASE Producer
        BY <3>3 DEF Producer, ProducerGets, ProducerYields, ProducerTurns
      <3>4. CASE Cancel \/ Change \/ UNCHANGED listingVars
        BY <3>4 DEF Cancel, Change
      <3> QED BY <3>1, <3>2, <3>3, <3>4 DEF ListingNext
    <2> QED BY <2>1, WorldTypes
  <1>2. g \in grants /\ (g \in collected \/ GrantAhead(g))
    BY <1>1 DEF Loading, World
  <1>3. Rank(grants, g) \in Nat
    BY <1>0, <1>2, ListingAssumption, FS_Subset, RankBounds
  <1>4. CASE ReceiveGrant
    <2>1. /\ batch' = [batch EXCEPT !.rest = Tail(@)] /\ batch.rest # <<>> /\ loader = "send"
          /\ grants' = grants
      BY <1>4 DEF ReceiveGrant
    <2>2. /\ Item(Head(batch.rest)) /\ loader' = "send"
          /\ collected' = collected \cup {Head(batch.rest)}
      BY <1>1, <1>4 DEF ReceiveGrant, Return
    <2>3. /\ batch'.rest = Tail(batch.rest) /\ batch'.size = batch.size
          /\ batch'.total = batch.total /\ batch'.offset = batch.offset
      BY <2>1 DEF Typed, PageRecord
    <2>4. CASE g \in collected \/ g = Head(batch.rest)
      BY <2>2, <2>4
    <2>5. CASE Holds(batch.rest, g) /\ g # Head(batch.rest)
      BY <1>0, <2>1, <2>2, <2>3, <2>5, HoldsInTail DEF GrantAhead
    <2>6. CASE Holds(batch.rest, 0)
      BY <1>0, <2>1, <2>2, <2>3, <2>6, HoldsInTail DEF GrantAhead, Item
    <2>7. CASE /\ batch.size # 0 /\ batch.offset + batch.size < batch.total
               /\ Rank(grants, g) >= batch.offset + batch.size
      BY <2>1, <2>2, <2>3, <2>7 DEF GrantAhead
    <2> QED BY <1>2, <2>1, <2>4, <2>5, <2>6, <2>7 DEF GrantAhead
  <1>5. CASE LoaderLists
    <2>1. /\ loader = "list" /\ loader' = "send" /\ grants' = grants /\ collected' = collected
          /\ batch' \in {Got(grants, batch.offset), Failed}
      BY <1>1, <1>5 DEF LoaderLists, LoadDone
    <2>2. g \in collected \/ Rank(grants, g) >= batch.offset
      BY <1>2, <2>1 DEF GrantAhead
    <2> QED BY <1>2, <2>1, <2>2, GrantListed
  <1>6. CASE LoaderTurns
    <2>1. /\ loader = "send" /\ batch.rest = <<>> /\ grants' = grants /\ collected' = collected
          /\ batch' = [batch EXCEPT !.offset = @ + batch.size]
          /\ loader' = IF batch.offset + batch.size >= batch.total \/ batch.size = 0
                       THEN "ended" ELSE "list"
      BY <1>6 DEF LoaderTurns
    <2>2. ~Holds(batch.rest, g) /\ ~Holds(batch.rest, 0)
      BY <2>1 DEF Holds
    <2>3. batch'.offset = batch.offset + batch.size
      BY <2>1 DEF Typed, PageRecord
    <2>4. g \in collected \/ (/\ batch.size # 0 /\ batch.offset + batch.size < batch.total
                              /\ Rank(grants, g) >= batch.offset + batch.size)
      BY <1>2, <2>1, <2>2 DEF GrantAhead
    <2> QED BY <1>0, <2>1, <2>3, <2>4 DEF GrantAhead
  <1>7. CASE LoaderGivesUp
    BY <1>1, <1>7 DEF LoaderGivesUp, LoadDone
  <1>8. CASE Change
    <2>1. Rank(grants', g) \in Nat /\ Rank(grants', g) >= Rank(grants, g)
      BY <1>2, <1>8, RanksInChange
    <2>2. UNCHANGED <<loader, batch, collected>>
      BY <1>8 DEF Change
    <2> QED BY <1>0, <1>2, <1>3, <2>1, <2>2 DEF GrantAhead, Holds
  <1>9. CASE UNCHANGED <<loader, batch, collected, grants>>
    BY <1>2, <1>9 DEF GrantAhead, Holds
  <1>10. CASE GrantsEnd \/ ReceiveItem \/ ItemsEnd
    BY <1>1, <1>10 DEF GrantsEnd, ReceiveItem, ItemsEnd, Return
  <1>11. CASE Producer
    BY <1>9, <1>11 DEF Producer, ProducerGets, ProducerYields, ProducerTurns
  <1> QED BY <1>4, <1>5, <1>6, <1>7, <1>8, <1>9, <1>10, <1>11
          DEF ListingNext, Caller, Loader, Cancel

LEMMA LoadingStep ==
    ASSUME Typed, Stages, World, Loading, [ListingNext]_listingVars
    PROVE  Loading'
  <1> USE DEF callVars, loaderVars, producerVars, worldVars, listingVars
  <1>0. /\ batch \in PageRecord /\ batch.rest \in Seq(Signals) /\ batch.offset \in Nat
        /\ grants \in SUBSET Items /\ first.grants \in SUBSET Items
        /\ first' = first /\ kind' = kind /\ limit' = limit
    BY CallTypes, WorldTypes DEF Typed, ListingTypeOK, PageRecord
  <1>1. (caller = "load" /\ ~cancelled /\ ~shrunk =>
             \A g \in first.grants : g \in collected \/ GrantAhead(g))'
    BY <1>0, GrantsStayAhead
  \* What is received, and from where.
  <1>2. \/ collected' = collected
        \/ /\ ReceiveGrant /\ batch.rest # <<>> /\ Item(Head(batch.rest))
           /\ ~(kind = "MountGrantMatches" /\ Head(batch.rest) = limit)
           /\ collected' = collected \cup {Head(batch.rest)}
    <2>1. CASE ReceiveGrant
      BY <2>1 DEF ReceiveGrant
    <2>2. CASE GrantsEnd \/ ReceiveItem \/ ItemsEnd
      BY <2>2 DEF GrantsEnd, ReceiveItem, ItemsEnd
    <2>3. CASE Loader
      BY <2>3 DEF Loader, LoaderLists, LoaderTurns, LoaderGivesUp
    <2>4. CASE Producer
      BY <2>4 DEF Producer, ProducerGets, ProducerYields, ProducerTurns
    <2>5. CASE Cancel \/ Change \/ UNCHANGED listingVars
      BY <2>5 DEF Cancel, Change
    <2> QED BY <2>1, <2>2, <2>3, <2>4, <2>5 DEF ListingNext, Caller
  <1>3. (kind = "MountGrantMatches" => limit \notin collected)'
    BY <1>0, <1>2 DEF Loading
  <1>4. ASSUME events' = 0
        PROVE  /\ collected' \subseteq first.grants
               /\ \A i \in 1..Len(batch'.rest) : batch'.rest[i] \in first.grants \cup {0}
    <2>1. events = 0 /\ grants = first.grants
      BY <1>4, WorldTypes DEF World
    <2>2. collected \subseteq first.grants
          /\ \A i \in 1..Len(batch.rest) : batch.rest[i] \in first.grants \cup {0}
      BY <2>1 DEF Loading
    <2>3. batch.rest # <<>> =>
              /\ Head(batch.rest) = batch.rest[1] /\ 1 \in 1..Len(batch.rest)
              /\ Len(Tail(batch.rest)) = Len(batch.rest) - 1 /\ Len(batch.rest) \in Nat
              /\ \A i \in 1..Len(Tail(batch.rest)) : Tail(batch.rest)[i] = batch.rest[i + 1]
      BY <1>0, RestOfPage
    <2>4. collected' \subseteq first.grants
      BY <1>2, <2>2, <2>3 DEF Item
    <2>5. \/ batch'.rest = batch.rest
          \/ batch.rest # <<>> /\ batch'.rest = Tail(batch.rest)
          \/ batch' \in {Got(grants, batch.offset), Failed}
      <3>1. CASE ReceiveGrant
        BY <1>0, <3>1 DEF ReceiveGrant, PageRecord
      <3>2. CASE GrantsEnd \/ ReceiveItem \/ ItemsEnd
        BY <3>2 DEF GrantsEnd, ReceiveItem, ItemsEnd
      <3>3. CASE LoaderLists
        BY <3>3 DEF LoaderLists
      <3>4. CASE LoaderTurns \/ LoaderGivesUp
        BY <1>0, <3>4 DEF LoaderTurns, LoaderGivesUp, PageRecord
      <3>5. CASE Producer
        BY <3>5 DEF Producer, ProducerGets, ProducerYields, ProducerTurns
      <3>6. CASE Cancel \/ Change \/ UNCHANGED listingVars
        BY <3>6 DEF Cancel, Change
      <3> QED BY <3>1, <3>2, <3>3, <3>4, <3>5, <3>6 DEF ListingNext, Caller, Loader
    <2>6. CASE batch'.rest = batch.rest
      BY <2>2, <2>4, <2>6
    <2>7. CASE batch.rest # <<>> /\ batch'.rest = Tail(batch.rest)
      <3>1. ASSUME NEW i \in 1..Len(Tail(batch.rest))
            PROVE  i + 1 \in 1..Len(batch.rest) /\ Tail(batch.rest)[i] = batch.rest[i + 1]
        BY <2>3, <2>7
      <3> QED BY <2>2, <2>4, <2>7, <3>1
    <2>8. CASE batch' = Got(grants, batch.offset)
      <3>1. batch'.rest \in Seq(grants)
        BY <1>0, <2>8, GotPage
      <3> QED BY <2>1, <2>4, <3>1
    <2>9. CASE batch' = Failed
      BY <2>4, <2>9 DEF Failed
    <2> QED BY <2>5, <2>6, <2>7, <2>8, <2>9
  <1>5. ASSUME kind' = "ListMounts", caller' = "filter", ~cancelled', ~shrunk'
        PROVE  first.grants \subseteq collected'
    <2>1. ~cancelled /\ ~shrunk /\ collected \subseteq collected'
      BY <1>2, <1>5, WorldTypes
    <2>2. CASE caller = "filter"
      BY <1>0, <1>5, <2>1, <2>2 DEF Loading
    <2>3. CASE caller # "filter"
      <3>1. GrantsEnd
        <4>1. CASE ReceiveGrant \/ ReceiveItem \/ ItemsEnd
          BY <1>5, <2>3, <4>1 DEF ReceiveGrant, ReceiveItem, ItemsEnd, Return
        <4>2. CASE Loader
          BY <1>5, <2>3, <4>2 DEF Loader, LoaderLists, LoaderTurns, LoaderGivesUp
        <4>3. CASE Producer
          BY <1>5, <2>3, <4>3 DEF Producer, ProducerGets, ProducerYields, ProducerTurns
        <4>4. CASE Cancel \/ Change \/ UNCHANGED listingVars
          BY <1>5, <2>3, <4>4 DEF Cancel, Change
        <4> QED BY <4>1, <4>2, <4>3, <4>4 DEF ListingNext, Caller
      <3>2. caller = "load" /\ loader = "ended"
        BY <3>1 DEF GrantsEnd
      <3>3. \A g \in first.grants : g \in collected
        BY <2>1, <3>2 DEF Loading, GrantAhead
      <3> QED BY <2>1, <3>3
    <2> QED BY <2>2, <2>3
  <1> QED BY <1>0, <1>1, <1>3, <1>4, <1>5 DEF Loading

-----------------------------------------------------------------------------
(* Counting what was received *)

\* What an append adds.
LEMMA HoldsInAppend ==
    ASSUME NEW S, NEW s \in Seq(S), NEW y \in S, NEW x
    PROVE  Holds(Append(s, y), x) <=> Holds(s, x) \/ x = y
  <1>1. /\ Len(s) \in Nat /\ Len(Append(s, y)) = Len(s) + 1
        /\ \A i \in 1..Len(s) : Append(s, y)[i] = s[i]
        /\ Append(s, y)[Len(s) + 1] = y
    OBVIOUS
  <1>2. ASSUME Holds(s, x) \/ x = y PROVE Holds(Append(s, y), x)
    <2>1. CASE Holds(s, x)
      <3>1. PICK i \in 1..Len(s) : s[i] = x
        BY <2>1 DEF Holds
      <3>2. i \in 1..(Len(s) + 1) /\ Append(s, y)[i] = x
        BY <1>1, <3>1
      <3> QED BY <1>1, <3>2 DEF Holds
    <2>2. CASE x = y
      <3>1. Len(s) + 1 \in 1..(Len(s) + 1)
        BY <1>1
      <3> QED BY <1>1, <2>2, <3>1 DEF Holds
    <2> QED BY <1>2, <2>1, <2>2
  <1>3. ASSUME Holds(Append(s, y), x), x # y PROVE Holds(s, x)
    <2>1. PICK i \in 1..(Len(s) + 1) : Append(s, y)[i] = x
      BY <1>1, <1>3 DEF Holds
    <2>2. i # Len(s) + 1
      BY <1>1, <1>3, <2>1
    <2>3. i \in 1..Len(s)
      BY <1>1, <2>1, <2>2
    <2> QED BY <1>1, <2>1, <2>3 DEF Holds
  <1> QED BY <1>2, <1>3

LEMMA HoldsInHead ==
    ASSUME NEW S, NEW s \in Seq(S), s # <<>>, NEW x
    PROVE  Holds(s, x) <=> x = Head(s) \/ Holds(Tail(s), x)
  <1>1. /\ Head(s) = s[1] /\ Len(s) \in Nat \ {0} /\ Len(Tail(s)) = Len(s) - 1
        /\ \A j \in 1..Len(Tail(s)) : Tail(s)[j] = s[j + 1]
    BY RestOfPage
  <1>2. ASSUME Holds(Tail(s), x) PROVE Holds(s, x)
    <2>1. PICK i \in 1..Len(Tail(s)) : Tail(s)[i] = x
      BY <1>2 DEF Holds
    <2>2. i + 1 \in 1..Len(s)
      BY <1>1, <2>1
    <2> QED BY <1>1, <2>1, <2>2 DEF Holds
  <1>3. ASSUME x = Head(s) PROVE Holds(s, x)
    BY <1>1, <1>3 DEF Holds
  <1> QED BY <1>2, <1>3, HoldsInTail

\* What is in the channel and on its way.
LEMMA PipelineTypes ==
    ASSUME Typed
    PROVE  /\ channel \in Seq(Signals) /\ Len(channel) \in Nat
           /\ page \in PageRecord /\ page.rest \in Seq(Signals) /\ Len(page.rest) \in Nat
           /\ page.offset \in Nat /\ page.size \in Nat
           /\ source \in SUBSET Items /\ source \in SUBSET Nat /\ IsFiniteSet(source)
           /\ Cardinality(source) \in Nat /\ PageLimit \in Nat \ {0}
           /\ first.source \in SUBSET Items /\ first.grants \in SUBSET Items
           /\ Wanted \in SUBSET Nat /\ IsFiniteSet(Wanted) /\ Cardinality(Wanted) \in Nat
  <1>1. /\ channel \in Seq(Signals) /\ page \in PageRecord /\ source \in SUBSET Items
        /\ first.source \in SUBSET Items /\ first.grants \in SUBSET Items
    BY DEF Typed, ListingTypeOK
  <1>2. Items \in SUBSET Nat /\ IsFiniteSet(Items) /\ PageLimit \in Nat \ {0}
    BY ListingAssumption
  <1>3. /\ page.rest \in Seq(Signals) /\ page.offset \in Nat /\ page.size \in Nat
    BY <1>1 DEF PageRecord
  <1>4. IsFiniteSet(source) /\ Cardinality(source) \in Nat
    BY <1>1, <1>2, FS_Subset, FS_CardinalityType
  <1>5. Wanted \in SUBSET Items
    BY <1>1 DEF Wanted
  <1>6. IsFiniteSet(Wanted) /\ Cardinality(Wanted) \in Nat
    BY <1>2, <1>5, FS_Subset, FS_CardinalityType
  <1> QED BY <1>1, <1>2, <1>3, <1>4, <1>5, <1>6

\* What a step of the producer leaves alone.
LEMMA ProducerKeeps ==
    ASSUME Producer
    PROVE  UNCHANGED <<kind, caller, outcome, collected, total, items, missed, offset, limit,
                       cancelled, source, grants, first, shrunk, events>>
  BY DEF Producer, ProducerGets, ProducerYields, ProducerTurns, callVars, worldVars

\* The producer loses nothing of what is ahead, and no error.
LEMMA ProducerLosesNothing ==
    ASSUME Typed, Producer, ~Poisoned'
    PROVE  ~Poisoned /\ \A x \in source : ItemAhead(x) => ItemAhead(x)'
  <1> USE PipelineTypes
  <1>1. source' = source
    BY ProducerKeeps
  <1>2. CASE ProducerGets
    <2>1. /\ producer = "get" /\ producer' = "yield" /\ channel' = channel
          /\ page' \in {Got(source, page.offset), Failed}
      BY <1>2 DEF ProducerGets
    <2>2. page' # Failed
      <3>1. page' = Failed => Len(page'.rest) = 1 /\ page'.rest[1] = 0
        BY DEF Failed
      <3> QED BY <2>1, <3>1 DEF Poisoned, Holds
    <2> DEFINE p == Page(Sorted(source), page.offset, PageLimit)
    <2>3. page'.offset = page.offset /\ page'.size = Len(p) /\ page'.rest = p
      BY <2>1, <2>2, GotPage
    <2>4. \A x \in source :
              Rank(source, x) >= page.offset =>
                  \/ \E i \in 1..Len(p) : p[i] = x
                  \/ Rank(source, x) >= page.offset + Len(p) /\ Len(p) = PageLimit
      BY PageOfSorted
    <2> HIDE DEF p
    <2>5. \A x \in source : Rank(source, x) >= page.offset => ItemAhead(x)'
      BY <1>1, <2>1, <2>3, <2>4 DEF ItemAhead, Holds
    <2>6. \A x : Holds(channel, x) => ItemAhead(x)'
      BY <2>1 DEF ItemAhead, Holds
    <2>7. ~Poisoned
      BY <2>1 DEF Poisoned, Holds
    <2> QED BY <2>1, <2>5, <2>6, <2>7 DEF ItemAhead
  <1>3. CASE ProducerYields
    <2> DEFINE h == Head(page.rest)
    <2>1. /\ producer = "yield" /\ page.rest # <<>> /\ channel' = Append(channel, h)
          /\ page' = [page EXCEPT !.rest = Tail(@)]
          /\ producer' = IF Item(h) THEN "yield" ELSE "ended"
      BY <1>3 DEF ProducerYields
    <2>2. h \in Signals
      BY <2>1, RestOfPage
    <2>3. page'.rest = Tail(page.rest) /\ page'.size = page.size /\ page'.offset = page.offset
      BY <2>1 DEF PageRecord
    <2>4. \A x : Holds(channel', x) <=> Holds(channel, x) \/ x = h
      BY <2>1, <2>2, HoldsInAppend
    <2>5. \A x : Holds(page.rest, x) <=> x = h \/ Holds(page'.rest, x)
      BY <2>1, <2>3, HoldsInHead
    <2>6. h # 0 /\ producer' = "yield"
      BY <2>1, <2>4 DEF Poisoned, Item
    <2> HIDE DEF h
    <2>7. ~Poisoned
      BY <2>1, <2>4, <2>5, <2>6 DEF Poisoned
    <2> QED BY <1>1, <2>1, <2>3, <2>4, <2>5, <2>6, <2>7 DEF ItemAhead
  <1>4. CASE ProducerTurns
    <2>1. /\ producer = "yield" /\ page.rest = <<>> /\ channel' = channel
          /\ producer' = IF page.size < PageLimit THEN "ended" ELSE "get"
          /\ page' = [page EXCEPT !.offset = @ + page.size]
      BY <1>4 DEF ProducerTurns
    <2>2. \A x : ~Holds(page.rest, x)
      BY <2>1 DEF Holds
    <2>3. page'.offset = page.offset + page.size
      BY <2>1 DEF PageRecord
    <2>4. ~Poisoned
      BY <2>1, <2>2 DEF Poisoned
    <2> QED BY <1>1, <2>1, <2>2, <2>3, <2>4 DEF ItemAhead
  <1> QED BY <1>2, <1>3, <1>4 DEF Producer

\* An item is received that is neither an error nor turned into one.
LEMMA ItemReceived ==
    ASSUME Typed, ReceiveItem, caller' = "filter", Told', ~Poisoned'
    PROVE  /\ caller = "filter" /\ channel # <<>> /\ channel' = Tail(channel)
           /\ Head(channel) \in Items /\ ~Poisoned /\ Told
           /\ \A x : Holds(channel, x) <=> x = Head(channel) \/ Holds(channel', x)
           /\ Included(Head(channel)) => Counts(Head(channel))
           /\ ~Included(Head(channel)) => UNCHANGED <<total, items>>
           /\ UNCHANGED <<kind, limit, offset, collected, producer, page, cancelled, source,
                          grants, first, shrunk, events, missed>>
  <1> DEFINE i == Head(channel)
  <1>1. /\ caller = "filter" /\ channel # <<>> /\ channel' = Tail(channel)
        /\ UNCHANGED <<kind, limit, offset, collected, producer, page, cancelled, source,
                       grants, first, shrunk, events>>
    BY DEF ReceiveItem, producerVars, worldVars
  <1>2. i \in Signals /\ \A x : Holds(channel, x) <=> x = i \/ Holds(channel', x)
    BY <1>1, PipelineTypes, RestOfPage, HoldsInHead
  <1>3. /\ Item(i) /\ missed' = missed
        /\ IF Included(i) THEN Counts(i) ELSE Skips
    BY <1>1, Zenon DEF ReceiveItem, Return, Told
  <1>4. i \in Items /\ ~Poisoned
    BY <1>1, <1>2, <1>3 DEF Signals, Item, Poisoned
  <1>5. Told
    BY <1>1, <1>3 DEF Told
  <1>6. ~Included(i) => UNCHANGED <<total, items>>
    BY <1>3 DEF Skips
  <1> QED BY <1>1, <1>2, <1>3, <1>4, <1>5, <1>6

\* What the filter lets through is what is wanted, of what was there at first.
LEMMA IncludedIsWanted ==
    ASSUME Typed, Loading, caller = "filter", Told, ~shrunk, NEW i \in first.source
    PROVE  /\ i \in Wanted => Included(i)
           /\ events = 0 /\ Included(i) => i \in Wanted
  BY DEF Wanted, Included, Loading, Told

\* When the exceptions of PageIsRight do not apply, they did not before.
LEMMA ToldBefore ==
    ASSUME Typed, [ListingNext]_listingVars, Told'
    PROVE  Told
  <1> USE DEF callVars, loaderVars, producerVars, worldVars, listingVars
  <1>1. kind' = kind /\ (cancelled => cancelled')
    BY CallTypes, WorldTypes
  <1>2. missed => missed'
    <2>1. CASE ReceiveItem
      BY <2>1, Zenon DEF ReceiveItem
    <2>2. CASE ReceiveGrant \/ GrantsEnd \/ ItemsEnd
      BY <2>2 DEF ReceiveGrant, GrantsEnd, ItemsEnd
    <2>3. CASE Loader
      BY <2>3 DEF Loader, LoaderLists, LoaderTurns, LoaderGivesUp
    <2>4. CASE Producer
      BY <2>4 DEF Producer, ProducerGets, ProducerYields, ProducerTurns
    <2>5. CASE Cancel \/ Change \/ UNCHANGED listingVars
      BY <2>5 DEF Cancel, Change
    <2> QED BY <2>1, <2>2, <2>3, <2>4, <2>5 DEF ListingNext, Caller
  <1> QED BY <1>1, <1>2 DEF Told

\* The steps of a filtering call, and those that do not concern it.
LEMMA FilterSteps ==
    ASSUME Typed, Stages, [ListingNext]_listingVars
    PROVE  \/ GrantsEnd \/ ReceiveItem \/ ItemsEnd \/ Producer \/ Change
           \/ /\ UNCHANGED <<kind, total, items, offset, limit, producer, page, channel, source,
                             first, shrunk, events>>
              /\ caller' \in {caller, "returned"}
              /\ outcome' # "ok" \/ outcome' = outcome
  <1> USE DEF callVars, loaderVars, producerVars, worldVars, listingVars
  <1>1. CASE ReceiveGrant
    BY <1>1 DEF ReceiveGrant, Return
  <1>2. CASE Loader
    BY <1>2 DEF Loader, LoaderLists, LoaderTurns, LoaderGivesUp
  <1>3. CASE Cancel \/ UNCHANGED listingVars
    BY <1>3 DEF Cancel
  <1> QED BY <1>1, <1>2, <1>3 DEF ListingNext, Caller

\* The first conjunct of Counting.
LEMMA PassedIsCounted ==
    ASSUME Typed, Stages, World, Loading, Counting, [ListingNext]_listingVars,
           caller' = "filter", Told', ~shrunk', ~Poisoned'
    PROVE  Cardinality(Passed') <= total'
  <1>0. /\ Told /\ ~shrunk /\ first' = first /\ kind' = kind /\ Wanted' = Wanted
        /\ total \in Nat /\ total' \in Nat
    BY ToldBefore, WorldTypes, CallTypes, AnswerTypes DEF Typed, Wanted
  <1>1. /\ Passed \in SUBSET Wanted /\ Passed' \in SUBSET Wanted
        /\ IsFiniteSet(Passed) /\ IsFiniteSet(Passed')
        /\ Cardinality(Passed) \in Nat /\ Cardinality(Passed') \in Nat
    <2>1. Passed \in SUBSET Wanted /\ Passed' \in SUBSET Wanted
      BY <1>0 DEF Passed
    <2> QED BY <2>1, PipelineTypes, FS_Subset, FS_CardinalityType
  <1>2. Wanted \in SUBSET source
    BY <1>0 DEF Wanted, World
  <1>3. ASSUME caller = "filter", ~Poisoned, total' >= total,
               \A x \in Wanted : ItemAhead(x) => ItemAhead(x)'
        PROVE  Cardinality(Passed') <= total'
    <2>1. Passed' \in SUBSET Passed
      BY <1>0, <1>3 DEF Passed
    <2>2. Cardinality(Passed') <= Cardinality(Passed)
      BY <1>1, <2>1, FS_Subset
    <2>3. Cardinality(Passed) <= total
      BY <1>0, <1>3 DEF Counting
    <2> QED BY <1>0, <1>1, <1>3, <2>2, <2>3
  <1>4. CASE GrantsEnd
    <2>1. producer' = "get" /\ page' = page /\ source' = source /\ caller = "load"
      BY <1>4 DEF GrantsEnd, Return, worldVars
    <2>2. page'.offset = 0
      BY <2>1 DEF Stages, NoPage
    <2>3. \A x \in source : Rank(source, x) \in Nat
      BY PipelineTypes, RankBounds
    <2>4. \A x \in Wanted : ItemAhead(x)'
      BY <1>2, <2>1, <2>2, <2>3 DEF ItemAhead
    <2>5. Passed' = {}
      BY <1>0, <2>4 DEF Passed
    <2> QED BY <1>0, <2>5, FS_EmptySet
  <1>5. CASE ReceiveItem
    <2> DEFINE i == Head(channel)
    <2>1. /\ caller = "filter" /\ i \in Items /\ ~Poisoned
          /\ \A x : Holds(channel, x) <=> x = i \/ Holds(channel', x)
          /\ Included(i) => Counts(i)
          /\ ~Included(i) => UNCHANGED total
          /\ UNCHANGED <<producer, page, source>>
      BY <1>5, ItemReceived
    <2>2. \A x \in Wanted : ItemAhead(x) => x = i \/ ItemAhead(x)'
      BY <2>1 DEF ItemAhead
    <2>3. i \in Wanted => total' = total + 1
      BY <1>0, <2>1, IncludedIsWanted DEF Counts, Wanted
    <2>4. total' >= total
      BY <1>0, <2>1 DEF Counts
    <2>5. Cardinality(Passed) <= total
      BY <1>0, <2>1 DEF Counting
    <2> HIDE DEF i
    <2>6. CASE i \in Wanted
      <3>1. Passed' \in SUBSET (Passed \cup {i})
        BY <1>0, <2>2 DEF Passed
      <3>2. /\ IsFiniteSet(Passed \cup {i})
            /\ Cardinality(Passed \cup {i}) \in {Cardinality(Passed), Cardinality(Passed) + 1}
        BY <1>1, FS_AddElement
      <3>3. Cardinality(Passed') <= Cardinality(Passed \cup {i})
        BY <3>1, <3>2, FS_Subset
      <3> QED BY <1>0, <1>1, <2>3, <2>5, <2>6, <3>2, <3>3
    <2>7. CASE i \notin Wanted
      <3>1. \A x \in Wanted : ItemAhead(x) => ItemAhead(x)'
        BY <2>2, <2>7
      <3> QED BY <1>3, <2>1, <2>4, <3>1
    <2> QED BY <2>6, <2>7
  <1>6. CASE ItemsEnd
    BY <1>6 DEF ItemsEnd, Return
  <1>7. CASE Producer
    <2>1. caller = "filter" /\ total' = total
      BY <1>7, ProducerKeeps
    <2>2. ~Poisoned /\ \A x \in Wanted : ItemAhead(x) => ItemAhead(x)'
      BY <1>2, <1>7, ProducerLosesNothing
    <2> QED BY <1>0, <1>3, <2>1, <2>2
  <1>8. CASE Change
    <2>1. UNCHANGED <<caller, total, producer, page, channel>>
      BY <1>8 DEF Change, callVars, producerVars
    <2>2. \A x \in source : /\ Rank(source, x) \in Nat /\ Rank(source', x) \in Nat
                            /\ Rank(source', x) >= Rank(source, x)
      BY <1>8, RanksInChange
    <2>3. \A x \in Wanted : ItemAhead(x) => ItemAhead(x)'
      <3> SUFFICES ASSUME NEW x \in Wanted, ItemAhead(x) PROVE ItemAhead(x)'
        OBVIOUS
      <3>1. x \in source
        BY <1>2
      <3>2. /\ Rank(source, x) \in Nat /\ Rank(source', x) \in Nat
            /\ Rank(source', x) >= Rank(source, x)
        BY <2>2, <3>1
      <3>3. page.offset \in Nat /\ page.size \in Nat
        BY PipelineTypes
      <3> QED BY <2>1, <3>2, <3>3 DEF ItemAhead
    <2>4. ~Poisoned
      BY <2>1 DEF Poisoned
    <2> QED BY <1>0, <1>3, <2>1, <2>3, <2>4
  <1>9. CASE /\ UNCHANGED <<total, producer, page, channel, source>>
             /\ caller' \in {caller, "returned"}
    <2>1. caller = "filter" /\ ~Poisoned /\ \A x \in Wanted : ItemAhead(x) => ItemAhead(x)'
      BY <1>9 DEF Poisoned, ItemAhead
    <2> QED BY <1>0, <1>3, <1>9, <2>1
  <1> QED BY <1>4, <1>5, <1>6, <1>7, <1>8, <1>9, FilterSteps

LEMMA CountingStep ==
    ASSUME Typed, Stages, World, Loading, Counting, [ListingNext]_listingVars
    PROVE  Counting'
  <1>1. ASSUME outcome' = "ok", Told', ~shrunk' PROVE Cardinality(Wanted') <= total'
    <2>0. Told /\ ~shrunk /\ Wanted' = Wanted
      BY <1>1, ToldBefore, WorldTypes, CallTypes DEF Wanted
    <2>1. CASE outcome = "ok"
      <3>1. caller = "returned"
        BY <2>1 DEF Stages
      <3>2. total' = total
        <4>1. CASE Producer
          BY <4>1, ProducerKeeps
        <4> QED BY <3>1, <4>1, FilterSteps
                DEF GrantsEnd, ReceiveItem, ItemsEnd, Change, callVars
      <3> QED BY <2>0, <2>1, <3>2 DEF Counting
    <2>2. CASE outcome # "ok"
      <3>1. ItemsEnd
        <4>1. CASE Producer
          BY <1>1, <2>2, <4>1, ProducerKeeps
        <4>2. CASE ReceiveItem
          <5>1. outcome' = outcome \/ outcome' = "error"
            BY <4>2, Zenon DEF ReceiveItem, Return, Counts, Skips
          <5> QED BY <1>1, <2>2, <5>1
        <4>3. CASE GrantsEnd \/ Change
          BY <1>1, <2>2, <4>3 DEF GrantsEnd, Change, Return, callVars
        <4> QED BY <1>1, <2>2, <4>1, <4>2, <4>3, FilterSteps
      <3>2. caller = "filter" /\ channel = <<>> /\ producer = "ended" /\ total' = total
        BY <3>1 DEF ItemsEnd
      <3>3. \A x : ~Holds(channel, x)
        BY <3>2 DEF Holds
      <3>4. ~Poisoned /\ Passed = Wanted
        BY <3>2, <3>3 DEF Poisoned, Passed, ItemAhead
      <3> QED BY <2>0, <3>2, <3>4 DEF Counting
    <2> QED BY <2>1, <2>2
  <1>2. ASSUME caller' = "filter", Told', ~shrunk', ~Poisoned'
        PROVE  Cardinality(Passed') <= total'
    BY <1>2, PassedIsCounted
  <1> QED BY <1>1, <1>2 DEF Counting

-----------------------------------------------------------------------------
(* Exactness while nothing changes *)

\* Before anything is listed.
AtStart ==
    /\ Typed /\ producer = "get" /\ page = NoPage /\ channel = <<>>
    /\ total = 0 /\ items = <<>> /\ Wanted \in SUBSET source

LEMMA ExactAtStart == AtStart => Exact
  <1> SUFFICES ASSUME AtStart PROVE Exact
    OBVIOUS
  <1> USE DEF AtStart
  <1>1. Sent = 0 /\ Len(channel) = 0 /\ Len(items) = 0
    BY DEF Sent, NoPage
  <1>2. Received = 0
    <2>1. \A a, b \in Nat : a = 0 /\ b = 0 => a - b = 0
      OBVIOUS
    <2> QED BY <1>1, <2>1, Zenon DEF Received
  <1>3. \A x \in source : Rank(source, x) \in Nat
    BY PipelineTypes, RankBounds
  <1>4. Front(0) = {}
    BY <1>3 DEF Front
  <1>5. Cardinality(Front(0)) = 0
    BY <1>4, FS_EmptySet
  <1>6. offset \in Nat /\ Cardinality(source) \in Nat
    BY PipelineTypes DEF Typed
  <1> QED BY <1>1, <1>2, <1>5, <1>6 DEF Exact, Section, AnswerFor, InOrder

\* A page from within the list, as a section of it.
LEMMA SectionListed ==
    ASSUME NEW S \in SUBSET Nat, IsFiniteSet(S), NEW from \in Nat, from <= Cardinality(S)
    PROVE  LET p == Page(Sorted(S), from, PageLimit) IN
           /\ p \in Seq(S)
           /\ Len(p) = IF Cardinality(S) - from < PageLimit
                       THEN Cardinality(S) - from ELSE PageLimit
           /\ \A i \in 1..Len(p) : p[i] \in S /\ Rank(S, p[i]) = from + i - 1
  <1> DEFINE p == Page(Sorted(S), from, PageLimit)
  <1>1. PageLimit \in Nat
    BY ListingAssumption
  <1>2. Len(p) = IF Cardinality(S) - from < PageLimit THEN Cardinality(S) - from ELSE PageLimit
    BY <1>1, PageIsSection
  <1>3. p \in Seq(S)
    BY <1>1, PageIsSection
  <1>4. \A i \in 1..Len(p) : p[i] \in S /\ Rank(S, p[i]) = from + i - 1
    BY <1>1, PageIsSection
  <1> QED BY <1>2, <1>3, <1>4

\* The producer keeps the section whole and receives nothing itself.
LEMMA SectionProduced ==
    ASSUME Typed, Producer, Section, ~Poisoned'
    PROVE  Section' /\ Received' = Received
  <1> USE PipelineTypes
  <1>0. source' = source
    BY ProducerKeeps
  <1>1. CASE ProducerGets
    <2> DEFINE p == Page(Sorted(source), page.offset, PageLimit)
    <2>1. /\ producer = "get" /\ producer' = "yield" /\ channel' = channel
          /\ page' \in {Got(source, page.offset), Failed}
      BY <1>1 DEF ProducerGets
    <2>2. page' # Failed
      <3>1. page' = Failed => Len(page'.rest) = 1 /\ page'.rest[1] = 0
        BY DEF Failed
      <3> QED BY <2>1, <3>1 DEF Poisoned, Holds
    <2>3. page'.offset = page.offset /\ page'.size = Len(p) /\ page'.rest = p
      BY <2>1, <2>2, GotPage
    <2>4. Sent = page.offset /\ Sent <= Cardinality(source)
      BY <2>1 DEF Sent, Section
    <2>5. /\ p \in Seq(source)
          /\ Len(p) = IF Cardinality(source) - page.offset < PageLimit
                      THEN Cardinality(source) - page.offset ELSE PageLimit
          /\ \A i \in 1..Len(p) : p[i] \in source /\ Rank(source, p[i]) = page.offset + i - 1
      <3>1. page.offset <= Cardinality(source)
        BY <2>4
      <3> QED BY <3>1, SectionListed
    <2> HIDE DEF p
    <2>6. Len(p) \in Nat /\ page.offset + Len(p) <= Cardinality(source)
          /\ (Len(p) < PageLimit => page.offset + Len(p) = Cardinality(source))
      BY <2>4, <2>5
    <2>7. Sent' = page.offset /\ Received' = Received
      BY <2>1, <2>3, <2>4, <2>6 DEF Sent, Received
    <2>8. InOrder(page.rest, Sent)'
      BY <1>0, <2>3, <2>5, <2>7 DEF InOrder
    <2>9. InOrder(channel, Received)'
      BY <1>0, <2>1, <2>7 DEF InOrder, Section
    <2> QED BY <1>0, <2>1, <2>3, <2>4, <2>6, <2>7, <2>8, <2>9 DEF Section
  <1>2. CASE ProducerYields
    <2> DEFINE h == Head(page.rest)
    <2>1. /\ producer = "yield" /\ page.rest # <<>> /\ channel' = Append(channel, h)
          /\ page' = [page EXCEPT !.rest = Tail(@)]
          /\ producer' = IF Item(h) THEN "yield" ELSE "ended"
      BY <1>2 DEF ProducerYields
    <2>2. /\ h \in Signals /\ h = page.rest[1] /\ Len(page.rest) \in Nat \ {0}
          /\ Len(Tail(page.rest)) = Len(page.rest) - 1
          /\ \A i \in 1..Len(Tail(page.rest)) : Tail(page.rest)[i] = page.rest[i + 1]
      BY <2>1, RestOfPage
    <2>3. page'.rest = Tail(page.rest) /\ page'.size = page.size /\ page'.offset = page.offset
      BY <2>1 DEF PageRecord
    <2>4. producer' = "yield"
      <3>1. Holds(channel', h)
        BY <2>1, <2>2, HoldsInAppend
      <3> QED BY <2>1, <3>1 DEF Poisoned, Item
    <2>5. h \in source /\ Rank(source, h) = Sent
      <3>1. /\ \A i \in 1..Len(page.rest) :
                   page.rest[i] \in source /\ Rank(source, page.rest[i]) = Sent + i - 1
            /\ Sent \in Nat
        BY <2>1, Zenon DEF Section, InOrder
      <3>2. 1 \in 1..Len(page.rest)
        BY <2>2
      <3>3. h \in source /\ Rank(source, h) = Sent + 1 - 1
        BY <2>2, <3>1, <3>2, Zenon
      <3> QED BY <3>1, <3>3
    <2>6. /\ Len(channel') = Len(channel) + 1 /\ channel'[Len(channel) + 1] = h
          /\ \A i \in 1..Len(channel) : channel'[i] = channel[i]
      BY <2>1, <2>2
    <2> HIDE DEF h
    <2>7. /\ Sent = page.offset + page.size - Len(page.rest)
          /\ Sent' = page.offset + page.size - (Len(page.rest) - 1)
      BY <2>1, <2>2, <2>3, <2>4 DEF Sent
    <2>8. Sent' = Sent + 1 /\ Received' = Received /\ Sent' <= page.offset + page.size
      <3>1. /\ page.offset \in Nat /\ page.size \in Nat /\ Len(channel) \in Nat
            /\ Len(page.rest) \in Nat \ {0}
        BY <2>2
      <3>2. Sent' = Sent + 1 /\ Sent' <= page.offset + page.size
        BY <2>7, <3>1
      <3>3. Received' = Sent' - (Len(channel) + 1) /\ Received = Sent - Len(channel)
        BY <2>6, Zenon DEF Received
      <3>4. Sent \in Nat
        BY DEF Section
      <3> QED BY <3>1, <3>2, <3>3, <3>4
    <2>9. InOrder(channel, Received)'
      <3> SUFFICES ASSUME NEW i \in 1..(Len(channel) + 1)
                   PROVE  channel'[i] \in source /\ Rank(source, channel'[i]) = Received + i - 1
        BY <1>0, <2>6, <2>8 DEF InOrder
      <3>1. CASE i \in 1..Len(channel)
        BY <2>6, <3>1 DEF Section, InOrder
      <3>2. CASE i = Len(channel) + 1
        <4>1. Received + (Len(channel) + 1) - 1 = Sent
          BY DEF Received, Section
        <4> QED BY <2>5, <2>6, <3>2, <4>1
      <3> QED BY <3>1, <3>2
    <2>10. InOrder(page.rest, Sent)'
      <3> SUFFICES ASSUME NEW i \in 1..Len(Tail(page.rest))
                   PROVE  /\ Tail(page.rest)[i] \in source
                          /\ Rank(source, Tail(page.rest)[i]) = Sent' + i - 1
        BY <1>0, <2>3 DEF InOrder
      <3>1. i + 1 \in 1..Len(page.rest) /\ Tail(page.rest)[i] = page.rest[i + 1]
        BY <2>2
      <3>2. /\ page.rest[i + 1] \in source
            /\ Rank(source, page.rest[i + 1]) = Sent + (i + 1) - 1
        BY <2>1, <3>1 DEF Section, InOrder
      <3>3. Sent + (i + 1) - 1 = Sent' + i - 1
        BY <2>8 DEF Section
      <3> QED BY <3>1, <3>2, <3>3
    <2>11. /\ page.offset + page.size <= Cardinality(source)
           /\ page.size < PageLimit => page.offset + page.size = Cardinality(source)
           /\ Sent \in Nat /\ Received \in Nat
      BY <2>1 DEF Section
    <2>12. Sent' \in Nat /\ Sent' <= Cardinality(source)
      BY <2>8, <2>11
    <2> QED BY <1>0, <2>3, <2>4, <2>8, <2>9, <2>10, <2>11, <2>12 DEF Section
  <1>3. CASE ProducerTurns
    <2>1. /\ producer = "yield" /\ page.rest = <<>> /\ channel' = channel
          /\ producer' = IF page.size < PageLimit THEN "ended" ELSE "get"
          /\ page' = [page EXCEPT !.offset = @ + page.size]
      BY <1>3 DEF ProducerTurns
    <2>2. page'.offset = page.offset + page.size /\ Len(page.rest) = 0
      BY <2>1 DEF PageRecord
    <2>3. Sent = page.offset + page.size /\ Sent' = Sent /\ Received' = Received
      BY <2>1, <2>2 DEF Sent, Received
    <2>4. InOrder(channel, Received)'
      BY <1>0, <2>1, <2>3 DEF InOrder, Section
    <2> QED BY <1>0, <2>1, <2>2, <2>3, <2>4 DEF Section
  <1> QED BY <1>1, <1>2, <1>3 DEF Producer

\* An item received is the next one of the list, and if it is wanted, the
\* next one of those wanted.
LEMMA NextItem ==
    ASSUME Typed, Section, channel # <<>>, Wanted \in SUBSET source
    PROVE  LET i == Head(channel) IN
           /\ i \in source
           /\ IsFiniteSet(Front(Received)) /\ Cardinality(Front(Received)) \in Nat
           /\ i \notin Wanted => Front(Received + 1) = Front(Received)
           /\ i \in Wanted =>
                  /\ Cardinality(Front(Received + 1)) = Cardinality(Front(Received)) + 1
                  /\ Sorted(Wanted)[Cardinality(Front(Received)) + 1] = i
  <1> USE PipelineTypes
  <1> DEFINE i == Head(channel)
             F == Front(Received)
  <1>1. i \in source /\ Rank(source, i) = Received
    <2>1. i = channel[1] /\ 1 \in 1..Len(channel)
      BY RestOfPage
    <2>2. channel[1] \in source /\ Rank(source, channel[1]) = Received + 1 - 1
      BY <2>1 DEF Section, InOrder
    <2> QED BY <2>1, <2>2 DEF Section
  <1> HIDE DEF i
  <1>2. \A x \in source : Rank(source, x) \in Nat
    BY RankBounds
  <1>3. \A x \in source : Rank(source, x) = Received => x = i
    BY <1>1, RankInjective
  <1>4. F \in SUBSET Wanted /\ i \notin F
    BY <1>1 DEF Front, Section
  <1>5. IsFiniteSet(F) /\ Cardinality(F) \in Nat
    BY <1>4, FS_Subset, FS_CardinalityType
  <1>6. Front(Received + 1) = F \cup (Wanted \cap {i})
    <2>1. \A x \in source : Rank(source, x) < Received + 1 <=>
                                Rank(source, x) < Received \/ Rank(source, x) = Received
      BY <1>2 DEF Section
    <2> QED BY <1>1, <1>3, <2>1 DEF Front
  <1>7. ASSUME i \in Wanted
        PROVE  /\ Cardinality(Front(Received + 1)) = Cardinality(F) + 1
               /\ Sorted(Wanted)[Cardinality(F) + 1] = i
    <2>1. Front(Received + 1) = F \cup {i}
      BY <1>6, <1>7
    <2>2. Cardinality(Front(Received + 1)) = Cardinality(F) + 1
      BY <1>4, <1>5, <2>1, FS_AddElement
    <2>3. \A y \in source : y < i <=> Rank(source, y) < Received
      BY <1>1, RankOrder
    <2>4. {y \in Wanted : y < i} = F
      BY <2>3 DEF Front
    <2>5. Rank(Wanted, i) = Cardinality(F)
      BY <2>4 DEF Rank
    <2>6. Sorted(Wanted)[Rank(Wanted, i) + 1] = i
      BY <1>7, SortedList
    <2> QED BY <2>2, <2>5, <2>6
  <1>8. i \notin Wanted => Front(Received + 1) = F
    BY <1>6
  <1> QED BY <1>1, <1>5, <1>7, <1>8 DEF i

\* The answer after one more wanted item.
LEMMA OneMoreItem ==
    ASSUME Typed, Counts(Head(channel)), NEW F, NEW G, AnswerFor(F), Wanted' = Wanted,
           limit' = limit, offset' = offset,
           Cardinality(G) = Cardinality(F) + 1,
           Sorted(Wanted)[Cardinality(F) + 1] = Head(channel), Head(channel) \in Items
    PROVE  /\ total' = Cardinality(G)
           /\ Len(items') = IF total' <= offset THEN 0
                            ELSE IF total' - offset < limit THEN total' - offset ELSE limit
           /\ \A i \in 1..Len(items') : items'[i] = Sorted(Wanted)[offset + i]
  <1>0. total \in Nat /\ limit \in Nat /\ offset \in Nat /\ items \in Seq(Items)
        /\ Len(items) <= limit
    BY DEF Typed, ListingTypeOK
  <1>1. total \in Nat /\ limit \in Nat /\ offset \in Nat /\ items \in Seq(Items)
        /\ Len(items) \in Nat /\ Len(items) <= limit
    BY <1>0
  <1>2. /\ total = Cardinality(F)
        /\ Len(items) = IF total <= offset THEN 0
                        ELSE IF total - offset < limit THEN total - offset ELSE limit
        /\ \A i \in 1..Len(items) : items[i] = Sorted(Wanted)[offset + i]
    BY DEF AnswerFor
  <1>3. total' = total + 1 /\ items' = IF OnPage THEN Append(items, Head(channel)) ELSE items
    BY DEF Counts
  <1>4. CASE OnPage
    <2>1. total + 1 > offset /\ Len(items) < limit
      BY <1>4 DEF OnPage
    <2>2. Len(items) = total - offset
      BY <1>1, <1>2, <2>1
    <2>3. /\ Len(items') = Len(items) + 1 /\ items'[Len(items) + 1] = Head(channel)
          /\ \A i \in 1..Len(items) : items'[i] = items[i]
      BY <1>1, <1>3, <1>4
    <2>4. Len(items') = IF total' <= offset THEN 0
                        ELSE IF total' - offset < limit THEN total' - offset ELSE limit
      BY <1>1, <1>3, <2>1, <2>2, <2>3
    <2>5. ASSUME NEW i \in 1..Len(items') PROVE items'[i] = Sorted(Wanted)[offset + i]
      <3>1. CASE i \in 1..Len(items)
        BY <1>2, <2>3, <3>1
      <3>2. CASE i = Len(items) + 1
        <4>1. offset + i = Cardinality(F) + 1
          BY <1>1, <1>2, <2>2, <3>2
        <4> QED BY <2>3, <3>2, <4>1
      <3> QED BY <1>1, <2>3, <3>1, <3>2
    <2> QED BY <1>2, <1>3, <2>4, <2>5
  <1>5. CASE ~OnPage
    <2>1. ~(total + 1 > offset) \/ ~(Len(items) < limit)
      BY <1>5 DEF OnPage
    <2>2. items' = items
      BY <1>3, <1>5
    <2>3. Len(items) = IF total' <= offset THEN 0
                       ELSE IF total' - offset < limit THEN total' - offset ELSE limit
      BY <1>1, <1>2, <1>3, <2>1
    <2> QED BY <1>2, <1>3, <2>2, <2>3
  <1> QED BY <1>4, <1>5

\* An answer stays one when what it is made of does not change.
LEMMA SameAnswer ==
    ASSUME NEW F, AnswerFor(F), Wanted' = Wanted, NEW G, G = F,
           UNCHANGED <<total, items, offset, limit>>
    PROVE  AnswerFor(G)'
  BY DEF AnswerFor

LEMMA FilteringIsExact ==
    ASSUME ListingInv, [ListingNext]_listingVars, caller' = "filter", ~Poisoned', Told',
           events' = 0
    PROVE  Section' /\ (AnswerFor(Front(Received)))'
  <1> USE DEF ListingInv
  <1>0. /\ Told /\ ~shrunk /\ events = 0 /\ source' = source /\ source = first.source
        /\ Wanted' = Wanted /\ Wanted \in SUBSET source
        /\ kind' = kind /\ limit' = limit /\ offset' = offset
    <2>1. UNCHANGED <<source, grants, shrunk, events>> /\ first' = first
      BY WorldTypes
    <2>2. kind' = kind /\ limit' = limit /\ offset' = offset
      BY CallTypes
    <2>3. Told /\ ~shrunk /\ source = first.source
      BY <2>1, ToldBefore DEF World
    <2> QED BY <2>1, <2>2, <2>3 DEF Wanted
  <1>1. caller = "filter" /\ ~Poisoned => Section /\ AnswerFor(Front(Received))
    BY <1>0 DEF Exactness, Exact
  <1>2. CASE GrantsEnd
    <2>1. /\ caller = "load" /\ producer' = "get"
          /\ UNCHANGED <<page, channel, total, items>>
      BY <1>2 DEF GrantsEnd, Return
    <2>2. page' = NoPage /\ channel' = <<>> /\ total' = 0 /\ items' = <<>>
      BY <2>1 DEF Stages
    <2>3. Typed'
      BY TypedStep
    <2>4. Wanted' \in SUBSET source'
      BY <1>0
    <2>5. AtStart'
      BY <2>1, <2>2, <2>3, <2>4 DEF AtStart
    <2>6. Exact'
      BY <2>5, ExactAtStart, PTL
    <2> QED BY <2>6 DEF Exact
  <1>3. CASE ReceiveItem
    <2> DEFINE i == Head(channel)
    <2>1. /\ caller = "filter" /\ channel # <<>> /\ channel' = Tail(channel)
          /\ i \in Items /\ ~Poisoned
          /\ Included(i) => Counts(i)
          /\ ~Included(i) => UNCHANGED <<total, items>>
          /\ UNCHANGED <<producer, page>>
      BY <1>3, ItemReceived
    <2>2. Section /\ AnswerFor(Front(Received))
      BY <1>1, <2>1
    <2>3. /\ Sent' = Sent /\ Len(channel') = Len(channel) - 1 /\ Len(channel) \in Nat \ {0}
          /\ \A k \in 1..Len(channel') : channel'[k] = channel[k + 1]
      BY <2>1, PipelineTypes, RestOfPage DEF Sent
    <2>4. Sent \in Nat /\ Received \in Nat /\ Received = Sent - Len(channel)
      BY <2>2 DEF Section, Received
    <2>5. Received' = Received + 1
      <3>1. Received' = Sent - (Len(channel) - 1)
        BY <2>3, Zenon DEF Received
      <3> QED BY <2>3, <2>4, <3>1
    <2>6. InOrder(channel, Received)'
      <3> SUFFICES ASSUME NEW k \in 1..Len(channel')
                   PROVE  channel'[k] \in source /\ Rank(source, channel'[k]) = Received' + k - 1
        BY <1>0 DEF InOrder
      <3>1. k + 1 \in 1..Len(channel) /\ channel'[k] = channel[k + 1]
        BY <2>3
      <3>2. InOrder(channel, Received)
        BY <2>2 DEF Section
      <3>3. /\ channel[k + 1] \in source
            /\ Rank(source, channel[k + 1]) = Received + (k + 1) - 1
        BY <3>1, <3>2 DEF InOrder
      <3>4. Received + (k + 1) - 1 = Received' + k - 1
        BY <2>4, <2>5
      <3> QED BY <3>1, <3>3, <3>4
    <2>7. Section'
      <3>1. InOrder(page.rest, Sent)' <=> InOrder(page.rest, Sent)
        BY <1>0, <2>1, <2>3 DEF InOrder
      <3>2. Sent' \in Nat /\ Received' \in Nat
        BY <2>3, <2>4, <2>5
      <3> QED BY <1>0, <2>1, <2>2, <2>3, <2>6, <3>1, <3>2 DEF Section
    <2>8. Front(Received)' = Front(Received + 1)
      BY <1>0, <2>5 DEF Front
    <2>9. /\ i \in source
          /\ i \notin Wanted => Front(Received + 1) = Front(Received)
          /\ i \in Wanted =>
                 /\ Cardinality(Front(Received + 1)) = Cardinality(Front(Received)) + 1
                 /\ Sorted(Wanted)[Cardinality(Front(Received)) + 1] = i
      BY <1>0, <2>1, <2>2, NextItem
    <2>10. Included(i) <=> i \in Wanted
      BY <1>0, <2>1, <2>9, IncludedIsWanted
    <2>11. CASE i \in Wanted
      <3>1. Counts(Head(channel))
        BY <2>1, <2>10, <2>11
      <3>2. /\ total' = Cardinality(Front(Received + 1))
            /\ Len(items') = IF total' <= offset THEN 0
                             ELSE IF total' - offset < limit THEN total' - offset ELSE limit
            /\ \A k \in 1..Len(items') : items'[k] = Sorted(Wanted)[offset + k]
        BY <1>0, <2>1, <2>2, <2>9, <2>11, <3>1, OneMoreItem
      <3> QED BY <1>0, <2>7, <2>8, <3>2 DEF AnswerFor
    <2>12. CASE i \notin Wanted
      <3>1. UNCHANGED <<total, items>> /\ Front(Received)' = Front(Received)
        BY <2>1, <2>8, <2>9, <2>10, <2>12
      <3> QED BY <1>0, <2>2, <2>7, <3>1, SameAnswer
    <2> QED BY <2>11, <2>12
  <1>4. CASE ItemsEnd
    BY <1>4 DEF ItemsEnd, Return
  <1>5. CASE Producer
    <2>1. caller = "filter" /\ UNCHANGED <<total, items>>
      BY <1>5, ProducerKeeps
    <2>2. ~Poisoned
      BY <1>5, ProducerLosesNothing
    <2>3. Section' /\ Received' = Received
      BY <1>1, <1>5, <2>1, <2>2, SectionProduced
    <2>4. Front(Received)' = Front(Received)
      BY <1>0, <2>3 DEF Front
    <2> QED BY <1>0, <1>1, <2>1, <2>2, <2>3, <2>4, SameAnswer
  <1>6. CASE Change
    BY <1>0, <1>6 DEF Change
  <1>7. CASE /\ UNCHANGED <<total, items, producer, page, channel>>
             /\ caller' \in {caller, "returned"}
    <2>1. caller = "filter" /\ ~Poisoned
      BY <1>7 DEF Poisoned
    <2>2. Sent' = Sent /\ Received' = Received
      BY <1>7 DEF Sent, Received
    <2>3. Section'
      BY <1>0, <1>1, <1>7, <2>1, <2>2 DEF Section, InOrder
    <2>4. Front(Received)' = Front(Received)
      BY <1>0, <2>2 DEF Front
    <2> QED BY <1>0, <1>1, <1>7, <2>1, <2>3, <2>4, SameAnswer
  <1> QED BY <1>2, <1>3, <1>4, <1>5, <1>6, <1>7, FilterSteps

LEMMA ExactnessStep ==
    ASSUME ListingInv, [ListingNext]_listingVars
    PROVE  Exactness'
  <1> USE DEF ListingInv
  <1> SUFFICES ASSUME events' = 0, Told'
               PROVE  /\ caller' = "filter" /\ ~Poisoned' => Exact'
                      /\ outcome' = "ok" => AnswerFor(Wanted)'
    BY DEF Exactness
  <1>1. ASSUME caller' = "filter", ~Poisoned' PROVE Exact'
    BY <1>1, FilteringIsExact DEF Exact
  <1>2. ASSUME outcome' = "ok" PROVE AnswerFor(Wanted)'
    <2>0. /\ Told /\ ~shrunk /\ events = 0 /\ source = first.source /\ Wanted' = Wanted
          /\ limit' = limit /\ offset' = offset
      BY ToldBefore, WorldTypes, CallTypes DEF Wanted, World
    <2>1. CASE outcome = "ok"
      <3>1. caller = "returned"
        BY <2>1 DEF Stages
      <3>2. total' = total /\ items' = items
        <4>1. CASE Producer
          BY <4>1, ProducerKeeps
        <4> QED BY <3>1, <4>1, FilterSteps
                DEF GrantsEnd, ReceiveItem, ItemsEnd, Change, callVars
      <3> QED BY <2>0, <2>1, <3>2, SameAnswer DEF Exactness
    <2>2. CASE outcome # "ok"
      <3>1. ItemsEnd
        <4>1. CASE Producer
          BY <1>2, <2>2, <4>1, ProducerKeeps
        <4>2. CASE ReceiveItem
          <5>1. outcome' = outcome \/ outcome' = "error"
            BY <4>2, Zenon DEF ReceiveItem, Return, Counts, Skips
          <5> QED BY <1>2, <2>2, <5>1
        <4>3. CASE GrantsEnd \/ Change
          BY <1>2, <2>2, <4>3 DEF GrantsEnd, Change, Return, callVars
        <4> QED BY <1>2, <2>2, <4>1, <4>2, <4>3, FilterSteps
      <3>2. /\ caller = "filter" /\ channel = <<>> /\ producer = "ended"
            /\ total' = total /\ items' = items
        BY <3>1 DEF ItemsEnd
      <3>3. ~Poisoned
        BY <3>2 DEF Poisoned, Holds
      <3>4. Section /\ AnswerFor(Front(Received))
        BY <2>0, <3>2, <3>3 DEF Exactness, Exact
      <3>5. Received = Cardinality(source)
        <4>1. /\ Len(channel) = 0 /\ Sent = Cardinality(source)
              /\ Len(channel) \in Nat /\ Sent \in Nat
          BY <3>2, <3>4, PipelineTypes DEF Section
        <4>2. \A a, b \in Nat : b = 0 => a - b = a
          OBVIOUS
        <4> QED BY <4>1, <4>2, Zenon DEF Received
      <3>6. \A x \in source : Rank(source, x) < Cardinality(source)
        BY PipelineTypes, RankBounds
      <3>7. Front(Received) = Wanted
        BY <2>0, <3>5, <3>6 DEF Front, Wanted
      <3>8. AnswerFor(Wanted)
        BY <3>4, <3>7
      <3> QED BY <2>0, <3>2, <3>8 DEF AnswerFor
    <2> QED BY <2>1, <2>2
  <1> QED BY <1>1, <1>2

-----------------------------------------------------------------------------
(* The invariant and what follows from it *)

LEMMA ListingInvInit == ListingInit => ListingInv
  <1> SUFFICES ASSUME ListingInit PROVE ListingInv
    OBVIOUS
  <1>1. Typed
    BY TypedInit
  <1>2. Stages
    BY DEF ListingInit, Stages, Filtered, Granted, Kinds
  <1>3. World
    BY DEF ListingInit, World
  <1>4. /\ source \in SUBSET Nat /\ IsFiniteSet(source)
        /\ grants \in SUBSET Nat /\ IsFiniteSet(grants)
    BY <1>1, ListingAssumption, FS_Subset DEF Typed, ListingTypeOK
  <1>5. /\ \A x \in source : Rank(source, x) \in Nat
        /\ \A x \in grants : Rank(grants, x) \in Nat
    BY <1>4, RankBounds
  <1>6. Loading
    <2>1. caller = "load" => loader = "list"
      BY DEF ListingInit
    <2>2. batch.offset = 0 /\ batch.rest = <<>> /\ collected = {} /\ first.grants = grants
      BY DEF ListingInit, NoPage
    <2>3. ~(kind = "ListMounts" /\ caller = "filter")
      BY DEF ListingInit, Granted
    <2> QED BY <1>5, <2>1, <2>2, <2>3 DEF Loading, GrantAhead
  <1>7. outcome = "none" /\ total = 0 /\ (caller = "filter" => producer = "get")
    BY DEF ListingInit
  <1>8. caller = "filter" => AtStart
    BY <1>1, <1>7 DEF ListingInit, AtStart, Wanted
  <1>9. Counting
    <2>1. ASSUME caller = "filter" PROVE Passed = {}
      <3>1. producer = "get" /\ page.offset = 0 /\ Wanted \in SUBSET source
        BY <1>8, <2>1 DEF AtStart, NoPage
      <3> QED BY <1>5, <3>1 DEF Passed, ItemAhead
    <2>2. Cardinality({}) = 0
      BY FS_EmptySet
    <2> QED BY <1>7, <2>1, <2>2 DEF Counting
  <1>10. Exactness
    BY <1>7, <1>8, ExactAtStart DEF Exactness
  <1> QED BY <1>1, <1>2, <1>3, <1>6, <1>9, <1>10 DEF ListingInv

LEMMA ListingInvStep == ListingInv /\ [ListingNext]_listingVars => ListingInv'
  <1> SUFFICES ASSUME ListingInv, [ListingNext]_listingVars PROVE ListingInv'
    OBVIOUS
  <1>1. Typed /\ Stages /\ World /\ Loading /\ Counting
    BY DEF ListingInv
  <1> QED BY <1>1, TypedStep, StagesStep, WorldStep, LoadingStep, CountingStep, ExactnessStep
          DEF ListingInv

LEMMA ListingSafe == ListingSpec => []ListingInv
  BY ListingInvInit, ListingInvStep, PTL DEF ListingSpec

\* The goroutines of a call work on values of their types; the channel never
\* holds more than a page, the answer never more than the limit.
THEOREM ListingTypeCorrect == ListingSpec => []ListingTypeOK
  <1>1. ListingInv => ListingTypeOK
    BY DEF ListingInv, Typed
  <1> QED BY <1>1, ListingSafe, PTL

\* Total and page of a filtered list are those of the whole list, for every
\* page limit of the source and every limit and offset of the request; what
\* others add meanwhile hides nothing from the total.
THEOREM PagesAreRight == ListingSpec => []PageIsRight
  <1>1. ListingInv => PageIsRight
    <2> SUFFICES ASSUME ListingInv, outcome = "ok", Told
                 PROVE  /\ ~shrunk => total >= Len(Matching)
                        /\ events = 0 =>
                               total = Len(Matching) /\ items = Page(Matching, offset, limit)
      BY DEF PageIsRight, Told
    <2>1. /\ Wanted \in SUBSET Nat /\ IsFiniteSet(Wanted) /\ Cardinality(Wanted) \in Nat
          /\ total \in Nat /\ limit \in Nat /\ offset \in Nat /\ items \in Seq(Items)
      BY PipelineTypes DEF ListingInv, Typed
    <2>2. Matching = Sorted(Wanted)
      BY DEF Matching, Wanted
    <2>3. /\ Len(Sorted(Wanted)) = Cardinality(Wanted) /\ Sorted(Wanted) \in Seq(Wanted)
      BY <2>1, SortedList
    <2>4. ASSUME ~shrunk PROVE total >= Len(Matching)
      <3>1. Cardinality(Wanted) <= total
        BY <2>4 DEF ListingInv, Counting
      <3> QED BY <2>1, <2>2, <2>3, <3>1
    <2>5. ASSUME events = 0
          PROVE  total = Len(Matching) /\ items = Page(Matching, offset, limit)
      <3> DEFINE p == Page(Matching, offset, limit)
      <3>1. AnswerFor(Wanted)
        BY <2>5 DEF ListingInv, Exactness
      <3>2. /\ total = Cardinality(Wanted)
            /\ Len(items) = IF total <= offset THEN 0
                            ELSE IF total - offset < limit THEN total - offset ELSE limit
            /\ \A i \in 1..Len(items) : items[i] = Sorted(Wanted)[offset + i]
        BY <3>1 DEF AnswerFor
      <3>3. CASE offset <= total
        <4>1. /\ p \in Seq(Wanted)
              /\ Len(p) = IF Cardinality(Wanted) - offset < limit
                          THEN Cardinality(Wanted) - offset ELSE limit
              /\ \A i \in 1..Len(p) : p[i] = Sorted(Wanted)[offset + i]
          <5> DEFINE q == Page(Sorted(Wanted), offset, limit)
          <5>1. offset <= Cardinality(Wanted)
            BY <3>2, <3>3
          <5>2. p = q
            BY <2>2
          <5>3. q \in Seq(Wanted)
            BY <2>1, <5>1, PageIsSection
          <5>4. Len(q) = IF Cardinality(Wanted) - offset < limit
                         THEN Cardinality(Wanted) - offset ELSE limit
            BY <2>1, <5>1, PageIsSection
          <5>5. \A i \in 1..Len(q) : q[i] = Sorted(Wanted)[offset + i]
            BY <2>1, <5>1, PageIsSection
          <5> HIDE DEF p, q
          <5> QED BY <5>2, <5>3, <5>4, <5>5
        <4> HIDE DEF p
        <4>2. Len(p) = Len(items)
          BY <2>1, <3>2, <3>3, <4>1
        <4>3. \A i \in 1..Len(items) : items[i] = p[i]
          BY <3>2, <4>1, <4>2
        <4>4. items = p
          BY <2>1, <4>1, <4>2, <4>3
        <4> QED BY <2>2, <2>3, <3>2, <4>4 DEF p
      <3>4. CASE offset > total
        <4>1. Len(items) = 0
          BY <2>1, <3>2, <3>4
        <4>2. items = <<>>
          BY <2>1, <4>1
        <4>3. Page(Sorted(Wanted), offset, limit) = <<>>
          <5>1. ~(offset + limit < Cardinality(Wanted)) /\ Cardinality(Wanted) < offset + 1
            BY <2>1, <3>2, <3>4
          <5>2. Page(Sorted(Wanted), offset, limit) =
                    SubSeq(Sorted(Wanted), offset + 1, Cardinality(Wanted))
            BY <2>3, <5>1 DEF Page
          <5>3. SubSeq(Sorted(Wanted), offset + 1, Cardinality(Wanted)) = <<>>
            BY <2>1, <2>3, <5>1
          <5> QED BY <5>2, <5>3
        <4> QED BY <2>2, <2>3, <3>2, <4>2, <4>3
      <3> QED BY <2>1, <3>3, <3>4
    <2> QED BY <2>4, <2>5
  <1> QED BY <1>1, ListingSafe, PTL

-----------------------------------------------------------------------------
(* Grants *)

\* The answer of MountGrantMatches is right by the grants of the call.
LEMMA RefusalsStep ==
    ASSUME ListingInv, RefusalsAreRight, [ListingNext]_listingVars
    PROVE  RefusalsAreRight'
  <1> USE DEF ListingInv
  <1>0. /\ limit' = limit /\ first' = first /\ (cancelled => cancelled') /\ (shrunk => shrunk')
        /\ (events' = 0 => events = 0) /\ limit \in Nat
    BY CallTypes, WorldTypes DEF Typed
  <1>1. CASE ReceiveGrant
    <2> DEFINE g == Head(batch.rest)
    <2>1. /\ caller = "load" /\ batch.rest # <<>> /\ events' = events
          /\ outcome' \in {outcome, "error"} \/ (outcome' = "match" /\ g = limit /\ Item(g))
      BY <1>1 DEF ReceiveGrant, Return, worldVars
    <2>2. outcome = "none"
      BY <2>1 DEF Stages
    <2>3. ASSUME outcome' = "match", events' = 0 PROVE limit \in first.grants
      <3>1. batch.rest \in Seq(Signals)
        BY DEF Typed, PageRecord
      <3>2. g = batch.rest[1] /\ 1 \in 1..Len(batch.rest)
        BY <2>1, <3>1, RestOfPage
      <3>3. g \in first.grants \cup {0}
        BY <2>1, <2>3, <3>2 DEF Loading
      <3> QED BY <2>1, <2>2, <2>3, <3>3 DEF Item
    <2>4. outcome' # "no match"
      BY <2>1, <2>2
    <2> QED BY <1>0, <2>3, <2>4 DEF RefusalsAreRight
  <1>2. CASE GrantsEnd
    <2>1. /\ caller = "load" /\ loader = "ended"
          /\ UNCHANGED <<cancelled, shrunk>>
          /\ \/ outcome' = outcome
             \/ kind = "MountGrantMatches" /\ outcome' = "no match"
      BY <1>2 DEF GrantsEnd, Return, worldVars
    <2>2. outcome = "none"
      BY <2>1 DEF Stages
    <2>3. ASSUME outcome' = "no match", ~cancelled, ~shrunk PROVE limit \notin first.grants
      <3>1. kind = "MountGrantMatches"
        BY <2>1, <2>2, <2>3
      <3>2. \A x \in first.grants : x \in collected
        BY <2>1, <2>3 DEF Loading, GrantAhead
      <3> QED BY <3>1, <3>2 DEF Loading
    <2> QED BY <1>0, <2>1, <2>2, <2>3 DEF RefusalsAreRight
  <1>3. CASE ReceiveItem
    <2>1. outcome' = outcome \/ outcome' = "error"
      BY <1>3, Zenon DEF ReceiveItem, Return, Counts, Skips
    <2> QED BY <1>0, <2>1 DEF RefusalsAreRight
  <1>4. CASE outcome' = outcome \/ outcome' = "ok"
    BY <1>0, <1>4 DEF RefusalsAreRight
  <1>5. CASE ItemsEnd
    BY <1>4, <1>5 DEF ItemsEnd, Return
  <1>6. CASE Producer
    BY <1>4, <1>6, ProducerKeeps
  <1>7. CASE Loader
    BY <1>4, <1>7 DEF Loader, LoaderLists, LoaderTurns, LoaderGivesUp, callVars
  <1>8. CASE Cancel \/ Change \/ UNCHANGED listingVars
    BY <1>4, <1>8 DEF Cancel, Change, listingVars, callVars
  <1> QED BY <1>1, <1>2, <1>3, <1>5, <1>6, <1>7, <1>8 DEF ListingNext, Caller

\* A base URI granted all along is refused only to a cancelled request or
\* while grants are removed, and what is accepted was granted, for any number
\* of grants and any page limit.
THEOREM GrantDecisionsAreRight == ListingSpec => []RefusalsAreRight
  <1>1. ListingInit => RefusalsAreRight
    BY DEF ListingInit, RefusalsAreRight
  <1>2. RefusalsAreRight /\ ListingInv /\ [ListingNext]_listingVars => RefusalsAreRight'
    BY RefusalsStep
  <1> QED BY <1>1, <1>2, ListingSafe, PTL DEF ListingSpec

=============================================================================
