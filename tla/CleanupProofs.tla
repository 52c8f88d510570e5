--------------------------- MODULE CleanupProofs ---------------------------
(***************************************************************************)
(* The cleanup of expired keys, for any users, keys, page limit and length *)
(* of the run: a pass revokes only what has expired, and, undisturbed,     *)
(* everything that had.                                                    *)
(***************************************************************************)
EXTENDS KeyCleanup, StoreProofs, PageProofs

-----------------------------------------------------------------------------
(* The inductive invariant *)

\* What is listed is finite, and the goroutine is on a page it has read.
PageInv ==
    /\ IsFiniteSet(AllUsers)
    /\ \A u \in Usernames : IsFiniteSet(KeysOf(u))
    /\ pc \in {"keys", "check"} => userPage # <<>>
    /\ pc = "check" => keyPage # <<>>

\* The store, the ghost and the page name keys issued before, so that no key
\* issued later is mistaken for one of them.
IssuedInv ==
    /\ \A u \in Usernames, k \in KeyIDs :
           KeyAt(u, k) # None \/ <<u, k>> \in due => k \in used
    /\ pc = "check" =>
           \A i \in 1..Len(keyPage) :
               /\ keyPage[i].id \in used
               /\ KeyAt(Head(userPage), keyPage[i].id) # None =>
                      KeyAt(Head(userPage), keyPage[i].id).expiresAt = keyPage[i].expiresAt

\* The clock the pass goes by is not ahead of time, and every key that was
\* due and is still there has expired by it.
ClockInv ==
    /\ passNow # None => passNow <= clock
    /\ \A u \in Usernames, k \in KeyIDs :
           <<u, k>> \in due /\ KeyAt(u, k) # None =>
               /\ Expired(u, k)
               /\ passNow # None => KeyAt(u, k).expiresAt <= passNow

\* Key k of user u is on a page in hand or on one still to be read.
InHand(k) == \E i \in 1..Len(keyPage) : keyPage[i].id = k
KeyAhead(u, k) ==
    \/ pc = "keys" /\ Rank(KeysOf(u), k) >= keyOffset
    \/ pc = "check" /\ InHand(k)
    \/ pc = "check" /\ ~lastKeys /\ Rank(KeysOf(u), k) >= keyOffset + Len(keyPage)
UserInHand(u) == \E i \in 2..Len(userPage) : userPage[i] = u
Ahead(u, k) ==
    \/ pc = "users" /\ Rank(AllUsers, u) >= userOffset
    \/ pc \in {"keys", "check"} /\ ~lastUsers /\ Rank(AllUsers, u) >= userOffset
    \/ pc \in {"keys", "check"} /\ UserInHand(u)
    \/ u = Head(userPage) /\ KeyAhead(u, k)

\* Undisturbed, a key that was due and is still there lies ahead of the pass
\* until the pass ends, and when it ends well there is none.
AheadInv ==
    ~disturbed =>
        \A u \in Usernames, k \in KeyIDs :
            <<u, k>> \in due /\ KeyAt(u, k) # None =>
                /\ pc \in {"users", "keys", "check"} => Ahead(u, k)
                /\ ~(pc = "wait" /\ outcome = "ok")

CleanupInv == CleanupTypeOK /\ PageInv /\ IssuedInv /\ ClockInv /\ AheadInv

-----------------------------------------------------------------------------
(* What the store operations do to the lists *)

\* A key that is found is a record.
LEMMA KeyFound ==
    ASSUME TypeOK, NEW u \in Usernames, NEW k \in KeyIDs, KeyAt(u, k) # None
    PROVE  KeyAt(u, k) \in KeyRecord /\ UserExists(u)
  BY UserRecordFound DEF KeyAt, UserRecord, Optional

\* A new account joins the list of users and has no keys.
LEMMA UserAdded ==
    ASSUME TypeOK, NEW u \in Usernames, CreateUser(u, FALSE)
    PROVE  /\ TypeOK'
           /\ AllUsers' = AllUsers \cup {u}
           /\ \A w \in Usernames, l \in KeyIDs : KeyAt(w, l)' = KeyAt(w, l)
  <1> DEFINE new == [superuser |-> FALSE, passwordHash |-> None, keys |-> NoKeys]
  <1>1. TypeOK'
    BY UserStepType DEF UserStep
  <1>2. users' = [users EXCEPT ![u] = new] /\ ~UserExists(u)
    BY DEF CreateUser, CreateUserErr
  <1>3. new \in UserRecord /\ new.keys = NoKeys
    BY DEF UserRecord, NoKeys, Optional
  <1>4. new # None
    BY <1>3, NoneIsNoRecord DEF NoneIsNoRecord
  <1> HIDE DEF new
  <1>5. \A w \in Usernames : users'[w] = IF w = u THEN new ELSE users[w]
    BY <1>2 DEF TypeOK
  <1>6. AllUsers' = AllUsers \cup {u}
    BY <1>4, <1>5 DEF AllUsers, UserExists
  <1>7. \A w \in Usernames, l \in KeyIDs : KeyAt(w, l)' = KeyAt(w, l)
    BY <1>2, <1>3, <1>4, <1>5 DEF KeyAt, UserExists, NoKeys
  <1> QED BY <1>1, <1>6, <1>7

\* A revoked key leaves its owner's list and nothing else changes.
LEMMA KeyRevoked ==
    ASSUME TypeOK, NEW u \in Usernames, NEW k \in KeyIDs, RevokeKey(u, k)
    PROVE  /\ TypeOK'
           /\ AllUsers' = AllUsers
           /\ KeyAt(u, k) # None /\ KeyAt(u, k)' = None
           /\ \A w \in Usernames, l \in KeyIDs :
                  w # u \/ l # k => KeyAt(w, l)' = KeyAt(w, l)
  <1>1. TypeOK'
    BY KeyStepType DEF KeyStep
  <1>2. users[u] \in UserRecord /\ UserExists(u) /\ KeyAt(u, k) # None
    BY UserRecordFound DEF RevokeKey, RevokeKeyErr
  <1>3. users' = [users EXCEPT ![u].keys[k] = None]
    BY DEF RevokeKey
  <1>4. users'[u] # None /\ \A w \in Usernames \ {u} : users'[w] = users[w]
    BY UserUpdatesKeepUsers
  <1>5. \A l \in KeyIDs : users'[u].keys[l] = IF l = k THEN None ELSE users[u].keys[l]
    BY <1>2, <1>3 DEF TypeOK, UserRecord
  <1>6. AllUsers' = AllUsers
    BY <1>2, <1>4 DEF AllUsers, UserExists
  <1>7. \A l \in KeyIDs : KeyAt(u, l)' = IF l = k THEN None ELSE KeyAt(u, l)
    BY <1>2, <1>4, <1>5 DEF KeyAt, UserExists
  <1>8. \A w \in Usernames \ {u}, l \in KeyIDs : KeyAt(w, l)' = KeyAt(w, l)
    BY <1>4 DEF KeyAt, UserExists
  <1> QED BY <1>1, <1>2, <1>6, <1>7, <1>8

\* A deleted account leaves the list of users and takes its keys with it.
LEMMA UserDeleted ==
    ASSUME TypeOK, NEW u \in Usernames, DeleteUser(u)
    PROVE  /\ TypeOK'
           /\ AllUsers' = AllUsers \ {u}
           /\ \A w \in Usernames, l \in KeyIDs :
                  KeyAt(w, l)' = IF w = u THEN None ELSE KeyAt(w, l)
  <1>1. TypeOK'
    BY UserStepType DEF UserStep
  <1>2. \A w \in Usernames : users'[w] = IF w = u THEN None ELSE users[w]
    BY DEF DeleteUser, TypeOK
  <1> QED BY <1>1, <1>2 DEF AllUsers, KeyAt, UserExists

\* An issued key joins its owner's list with the expiry it was issued with.
LEMMA KeyIssued ==
    ASSUME TypeOK, NEW u \in Usernames, NEW k \in KeyIDs, NEW raw \in RawKeys,
           NEW t \in Optional(Times), NEW g \in KeyScopes, CreateKey(u, k, raw, t, g)
    PROVE  /\ TypeOK'
           /\ AllUsers' = AllUsers
           /\ KeyAt(u, k)' # None
           /\ \A w \in Usernames, l \in KeyIDs :
                  w # u \/ l # k => KeyAt(w, l)' = KeyAt(w, l)
  <1>1. TypeOK'
    BY KeyStepType DEF KeyStep
  <1>2. UserExists(u)
    BY DEF CreateKey, CreateKeyErr
  <1>3. users'[u] # None /\ \A w \in Usernames \ {u} : users'[w] = users[w]
    BY UserUpdatesKeepUsers
  <1>4. AllUsers' = AllUsers
    BY <1>2, <1>3 DEF AllUsers, UserExists
  <1>5. \A w \in Usernames, l \in KeyIDs : w # u \/ l # k => KeyAt(w, l)' = KeyAt(w, l)
    BY KeyAdded
  <1> DEFINE new == [prefix |-> Hash(raw).prefix, digest |-> Hash(raw).digest,
                     expiresAt |-> t, scopes |-> g]
  <1>6. new \in KeyRecord
    BY DEF Hash, Digest, RawKeys, KeyRecord
  <1>7. users' = [users EXCEPT ![u].keys[k] = new]
    BY DEF CreateKey
  <1> HIDE DEF new
  <1>8. users'[u].keys[k] = new
    BY <1>2, <1>7, UserRecordFound DEF TypeOK, UserRecord
  <1>9. KeyAt(u, k)' # None
    BY <1>3, <1>6, <1>8, NoneIsNoRecord DEF KeyAt, UserExists, NoneIsNoRecord
  <1> QED BY <1>1, <1>4, <1>5, <1>9

-----------------------------------------------------------------------------
(* What the pass reads *)

\* A page of users: names only, and every user from the offset on unless the
\* page is full and another follows.
LEMMA PageOfUsers ==
    ASSUME CleanupTypeOK, PageInv
    PROVE  LET page == Page(Sorted(AllUsers), userOffset, PageLimit) IN
           /\ page \in Seq(Usernames) /\ Len(page) \in Nat
           /\ \A u \in AllUsers :
                  Rank(AllUsers, u) >= userOffset =>
                      \/ \E i \in 1..Len(page) : page[i] = u
                      \/ /\ Rank(AllUsers, u) >= userOffset + Len(page)
                         /\ ~(userOffset + Len(page) >= Cardinality(AllUsers))
                         /\ ~(Len(page) < PageLimit)
  <1> DEFINE page == Page(Sorted(AllUsers), userOffset, PageLimit)
  <1>1. /\ AllUsers \in SUBSET Nat /\ AllUsers \in SUBSET Usernames
        /\ IsFiniteSet(AllUsers)
        /\ userOffset \in Nat /\ PageLimit \in Nat \ {0}
    BY CleanupAssumption DEF CleanupAssumption, CleanupTypeOK, PageInv, AllUsers
  <1>2. /\ page \in Seq(AllUsers) /\ Len(page) \in Nat /\ Len(page) <= PageLimit
        /\ \A u \in AllUsers :
               Rank(AllUsers, u) >= userOffset =>
                   \/ \E i \in 1..Len(page) : page[i] = u
                   \/ /\ Rank(AllUsers, u) >= userOffset + Len(page)
                      /\ Len(page) = PageLimit
                      /\ userOffset + Len(page) < Cardinality(AllUsers)
    BY <1>1, PageOfSorted
  <1>3. Cardinality(AllUsers) \in Nat
    BY <1>1, FS_CardinalityType
  <1> HIDE DEF page
  <1>4. page \in Seq(Usernames)
    <2>1. page \in Seq(AllUsers)
      BY <1>2
    <2>2. \A u \in AllUsers : u \in Usernames
      BY DEF AllUsers
    <2> QED BY <2>1, <2>2
  <1>5. ASSUME NEW u \in AllUsers, Rank(AllUsers, u) >= userOffset
        PROVE  \/ \E i \in 1..Len(page) : page[i] = u
               \/ /\ Rank(AllUsers, u) >= userOffset + Len(page)
                  /\ ~(userOffset + Len(page) >= Cardinality(AllUsers))
                  /\ ~(Len(page) < PageLimit)
    <2>1. \/ \E i \in 1..Len(page) : page[i] = u
          \/ /\ Rank(AllUsers, u) >= userOffset + Len(page)
             /\ Len(page) = PageLimit
             /\ userOffset + Len(page) < Cardinality(AllUsers)
      BY <1>2, <1>5, Zenon
    <2>2. Len(page) = PageLimit => ~(Len(page) < PageLimit)
      BY <1>1
    <2>3. userOffset + Len(page) < Cardinality(AllUsers) =>
              ~(userOffset + Len(page) >= Cardinality(AllUsers))
      BY <1>1, <1>2, <1>3
    <2> QED BY <2>1, <2>2, <2>3, Zenon
  <1> QED BY <1>2, <1>4, <1>5 DEF page

\* A page of keys of a user: its items are the keys as they are stored, and
\* every key from the offset on is among them unless the page is full.
LEMMA PageOfKeys ==
    ASSUME CleanupTypeOK, PageInv, NEW u \in Usernames
    PROVE  LET page == Page(Sorted(KeysOf(u)), keyOffset, PageLimit)
               items == KeyItems(u, page)
           IN
           /\ page \in Seq(KeyIDs) /\ Len(page) \in Nat
           /\ items \in Seq(KeyItem) /\ Len(items) = Len(page)
           /\ \A i \in 1..Len(page) :
                  /\ KeyAt(u, page[i]) # None
                  /\ items[i].id = page[i]
                  /\ items[i].expiresAt = KeyAt(u, page[i]).expiresAt
           /\ \A k \in KeysOf(u) :
                  Rank(KeysOf(u), k) >= keyOffset =>
                      \/ \E i \in 1..Len(page) : page[i] = k
                      \/ /\ Rank(KeysOf(u), k) >= keyOffset + Len(page)
                         /\ ~(Len(page) < PageLimit)
  <1> DEFINE page == Page(Sorted(KeysOf(u)), keyOffset, PageLimit)
             items == KeyItems(u, page)
  <1>1. /\ KeysOf(u) \in SUBSET Nat /\ KeysOf(u) \in SUBSET KeyIDs
        /\ IsFiniteSet(KeysOf(u))
        /\ keyOffset \in Nat /\ PageLimit \in Nat \ {0}
    BY CleanupAssumption DEF CleanupAssumption, CleanupTypeOK, PageInv, KeysOf
  <1>2. /\ page \in Seq(KeysOf(u)) /\ Len(page) \in Nat /\ Len(page) <= PageLimit
        /\ \A k \in KeysOf(u) :
               Rank(KeysOf(u), k) >= keyOffset =>
                   \/ \E i \in 1..Len(page) : page[i] = k
                   \/ /\ Rank(KeysOf(u), k) >= keyOffset + Len(page)
                      /\ Len(page) = PageLimit
                      /\ keyOffset + Len(page) < Cardinality(KeysOf(u))
    BY <1>1, PageOfSorted
  <1> HIDE DEF page
  <1>3. page \in Seq(KeyIDs) /\ DOMAIN page = 1..Len(page)
    BY <1>1, <1>2
  <1>4. ASSUME NEW i \in 1..Len(page)
        PROVE  /\ page[i] \in KeyIDs /\ KeyAt(u, page[i]) # None
               /\ KeyAt(u, page[i]).expiresAt \in Optional(Times)
    <2>1. page[i] \in KeyIDs /\ KeyAt(u, page[i]) # None
      BY <1>2 DEF KeysOf
    <2>2. KeyAt(u, page[i]) \in KeyRecord
      BY <2>1, KeyFound DEF CleanupTypeOK
    <2> QED BY <2>1, <2>2 DEF KeyRecord
  <1>5. items \in [1..Len(page) -> KeyItem]
    BY <1>3, <1>4 DEF KeyItems, KeyItem
  <1>6. items \in Seq(KeyItem) /\ Len(items) = Len(page)
    BY <1>2, <1>5
  <1>7. \A i \in 1..Len(page) :
            items[i].id = page[i] /\ items[i].expiresAt = KeyAt(u, page[i]).expiresAt
    BY <1>3 DEF KeyItems
  <1>8. ASSUME NEW k \in KeysOf(u), Rank(KeysOf(u), k) >= keyOffset
        PROVE  \/ \E i \in 1..Len(page) : page[i] = k
               \/ /\ Rank(KeysOf(u), k) >= keyOffset + Len(page)
                  /\ ~(Len(page) < PageLimit)
    BY <1>1, <1>2, <1>8
  <1> QED BY <1>2, <1>3, <1>4, <1>6, <1>7, <1>8 DEF page

\* The lists depend on the accounts only.
LEMMA SameUsers ==
    ASSUME users' = users
    PROVE  /\ AllUsers' = AllUsers
           /\ \A u \in Usernames : KeysOf(u)' = KeysOf(u)
           /\ \A u \in Usernames, k \in KeyIDs : KeyAt(u, k)' = KeyAt(u, k)
  BY DEF AllUsers, KeysOf, KeyAt, UserExists

-----------------------------------------------------------------------------
(* Type correctness *)

\* The reading of the clock the pass goes by.
LEMMA NowType ==
    ASSUME CleanupTypeOK, NEW t \in Optional(Times)
    PROVE  Now(t) \in Optional(Times)
  BY DEF CleanupTypeOK, Now, Optional

\* The page in hand and its first item.
LEMMA FirstItem ==
    ASSUME CleanupTypeOK, PageInv, pc = "check"
    PROVE  /\ Head(keyPage) = keyPage[1] /\ Head(keyPage) \in KeyItem
           /\ Head(keyPage).id \in KeyIDs
           /\ Head(keyPage).expiresAt \in Optional(Times)
           /\ Tail(keyPage) \in Seq(KeyItem) /\ Len(keyPage) \in Nat \ {0}
           /\ Len(Tail(keyPage)) = Len(keyPage) - 1
           /\ \A i \in 1..Len(Tail(keyPage)) : Tail(keyPage)[i] = keyPage[i + 1]
           /\ Tail(keyPage) = <<>> <=> Len(keyPage) = 1
  <1>1. keyPage \in Seq(KeyItem) /\ keyPage # <<>>
    BY DEF CleanupTypeOK, PageInv
  <1>2. Head(keyPage) \in KeyItem
    BY <1>1, RestOfPage
  <1>3. Head(keyPage).id \in KeyIDs /\ Head(keyPage).expiresAt \in Optional(Times)
    BY <1>2 DEF KeyItem
  <1> QED BY <1>1, <1>3, RestOfPage

\* The page of users in hand and the first of them.
LEMMA FirstUser ==
    ASSUME CleanupTypeOK, PageInv, pc \in {"keys", "check"}
    PROVE  /\ Head(userPage) = userPage[1] /\ Head(userPage) \in Usernames
           /\ Tail(userPage) \in Seq(Usernames) /\ Len(userPage) \in Nat \ {0}
           /\ Len(Tail(userPage)) = Len(userPage) - 1
           /\ \A i \in 1..Len(Tail(userPage)) : Tail(userPage)[i] = userPage[i + 1]
           /\ Tail(userPage) = <<>> <=> Len(userPage) = 1
  <1>1. userPage \in Seq(Usernames) /\ userPage # <<>>
    BY DEF CleanupTypeOK, PageInv
  <1> QED BY <1>1, RestOfPage

\* The goroutine's own steps keep the types.
LEMMA BackgroundType == CleanupTypeOK /\ PageInv /\ Background => CleanupTypeOK'
  <1> SUFFICES ASSUME CleanupTypeOK, PageInv, Background PROVE CleanupTypeOK'
    OBVIOUS
  <1>1. UNCHANGED vars => TypeOK'
    BY DEF CleanupTypeOK, TypeOK, vars
  <1>2. CASE BeginPass
    <2>1. due' \subseteq Usernames \X KeyIDs
      BY <1>2 DEF BeginPass
    <2> QED BY <1>1, <1>2, <2>1 DEF BeginPass, CleanupTypeOK, worldVars, Optional
  <1>3. CASE Quit \/ Cancelled
    BY <1>1, <1>3 DEF Quit, Cancelled, EndPass, CleanupTypeOK, passVars, worldVars, ghostVars
  <1>4. CASE ListUsers
    <2> DEFINE page == Page(Sorted(AllUsers), userOffset, PageLimit)
    <2>1. page \in Seq(Usernames) /\ Len(page) \in Nat
      BY PageOfUsers
    <2>2. CASE page = <<>>
      BY <1>1, <1>4, <2>2 DEF ListUsers, EndPass, CleanupTypeOK, worldVars, ghostVars
    <2>3. CASE page # <<>>
      <3>1. /\ pc' = "keys" /\ outcome' = outcome
            /\ userPage' = page /\ userOffset' = userOffset + Len(page)
            /\ lastUsers' = (\/ userOffset + Len(page) >= Cardinality(AllUsers)
                             \/ Len(page) < PageLimit)
            /\ keyOffset' = 0
        BY <1>4, <2>3 DEF ListUsers
      <3>2. lastUsers' \in BOOLEAN
        BY <3>1
      <3> HIDE DEF page
      <3> QED BY <1>1, <1>4, <2>1, <3>1, <3>2 DEF ListUsers, CleanupTypeOK, worldVars, ghostVars
    <2> QED BY <2>2, <2>3
  <1>5. CASE ListKeys
    <2> DEFINE u == Head(userPage)
               page == Page(Sorted(KeysOf(u)), keyOffset, PageLimit)
    <2>1. u \in Usernames /\ Tail(userPage) \in Seq(Usernames)
      BY <1>5, FirstUser DEF ListKeys
    <2>2. KeyItems(u, page) \in Seq(KeyItem)
      BY <2>1, PageOfKeys
    <2>3. /\ userPage' \in Seq(Usernames) /\ keyOffset' \in Nat
          /\ keyPage' \in Seq(KeyItem) /\ lastKeys' \in BOOLEAN
          /\ pc' \in {"wait", "keys", "users", "check"}
          /\ outcome' \in {"none", "ok", "error"}
      <3>1. CASE /\ EndPass("error")
                 /\ UNCHANGED <<userPage, keyOffset, keyPage, lastKeys>>
        BY <3>1 DEF EndPass, CleanupTypeOK
      <3>2. CASE NextUser /\ UNCHANGED <<keyPage, lastKeys>>
        BY <1>5, <2>1, <3>2 DEF ListKeys, NextUser, EndPass, CleanupTypeOK
      <3>3. CASE /\ pc' = "check" /\ UNCHANGED <<userPage, keyOffset, outcome>>
                 /\ keyPage' = KeyItems(u, page)
                 /\ lastKeys' = (Len(page) < PageLimit)
        <4>1. lastKeys' \in BOOLEAN
          BY <3>3
        <4> HIDE DEF page, u
        <4> QED BY <2>2, <3>3, <4>1 DEF CleanupTypeOK
      <3> QED BY <1>5, <3>1, <3>2, <3>3 DEF ListKeys
    <2> QED BY <1>1, <1>5, <2>3 DEF ListKeys, CleanupTypeOK, worldVars, ghostVars
  <1>6. CASE KeepKey \/ DropKey
    <2> DEFINE item == Head(keyPage)
    <2>1. pc = "check"
      BY <1>6 DEF KeepKey, DropKey
    <2>2. /\ Head(userPage) \in Usernames /\ item.id \in KeyIDs
          /\ item.expiresAt \in Optional(Times)
          /\ Tail(userPage) \in Seq(Usernames) /\ Tail(keyPage) \in Seq(KeyItem)
      BY <2>1, FirstUser, FirstItem
    <2>3. passNow' \in Optional(Times)
      BY <1>6, <2>2, NowType DEF KeepKey, DropKey
    <2>4. TypeOK'
      BY <1>1, <1>6, <2>2, KeyRevoked DEF KeepKey, DropKey, CleanupTypeOK
    <2> DEFINE Locals ==
                 /\ userPage' \in Seq(Usernames) /\ keyOffset' \in Nat
                 /\ keyPage' \in Seq(KeyItem) /\ lastKeys' \in BOOLEAN
                 /\ pc' \in {"wait", "keys", "users", "check"}
                 /\ outcome' \in {"none", "ok", "error"}
    <2>5. Locals
      <3>1. ASSUME NEW last \in BOOLEAN, NEW offset \in Nat, AfterKey(last, offset)
            PROVE  Locals
        <4>1. lastKeys' \in BOOLEAN
          BY <3>1, Zenon DEF AfterKey
        <4>2. keyPage' \in Seq(KeyItem)
          BY <2>2, <3>1 DEF AfterKey
        <4>3. CASE NextUser
          BY <2>1, <2>2, <4>1, <4>2, <4>3 DEF NextUser, EndPass, CleanupTypeOK
        <4>4. CASE /\ keyOffset' = offset /\ UNCHANGED <<userPage, outcome>>
                   /\ pc' = pc \/ pc' = "keys"
          BY <2>1, <3>1, <4>1, <4>2, <4>4 DEF CleanupTypeOK
        <4> QED BY <3>1, <4>3, <4>4 DEF AfterKey
      <3>2. CASE AfterKey(lastKeys, keyOffset + 1)
        BY <3>1, <3>2 DEF CleanupTypeOK
      <3>3. CASE AfterKey(FALSE, keyOffset)
        BY <3>1, <3>3 DEF CleanupTypeOK
      <3>4. CASE EndPass("error") /\ UNCHANGED <<userPage, keyOffset, keyPage, lastKeys>>
        BY <3>4 DEF EndPass, CleanupTypeOK
      <3> QED BY <1>6, <3>2, <3>3, <3>4 DEF KeepKey, DropKey, OffsetAfterRevoke
    <2>6. UNCHANGED <<userOffset, lastUsers, cancelled, worldVars, ghostVars>>
      BY <1>6 DEF KeepKey, DropKey
    <2> QED BY <2>3, <2>4, <2>5, <2>6 DEF CleanupTypeOK, worldVars, ghostVars
  <1> QED BY <1>2, <1>3, <1>4, <1>5, <1>6 DEF Background

\* What a finished request has done: nothing, or issued a key under a new id.
LEMMA Issued ==
    ASSUME CleanupTypeOK, NEW k \in KeyIDs, NEW prefix \in Prefixes, NEW g \in KeyScopes,
           FinishIssue(k, prefix, g)
    PROVE  /\ k \notin used
           /\ \/ UNCHANGED <<vars, used>>
              \/ /\ used' = used \cup {k}
                 /\ \E u \in Usernames, t \in Optional(Times) :
                        <<prefix, k>> \in RawKeys /\ CreateKey(u, k, <<prefix, k>>, t, g)
  <1>1. k \notin used
    BY DEF FinishIssue
  <1>2. <<prefix, k>> \in RawKeys
    BY CleanupAssumption DEF CleanupAssumption, RawKeys
  <1>3. pending.user \in Usernames /\ pending.expiresAt \in Optional(Times)
    <2>1. pending \in [user : Usernames, expiresAt : Optional(Times)]
      BY DEF CleanupTypeOK, FinishIssue, Optional
    <2> QED BY <2>1
  <1> QED BY <1>1, <1>2, <1>3 DEF FinishIssue

\* What other requests do keeps the types.
LEMMA OthersType == CleanupTypeOK /\ Others => CleanupTypeOK'
  <1> SUFFICES ASSUME CleanupTypeOK, Others PROVE CleanupTypeOK'
    OBVIOUS
  <1>1. UNCHANGED vars => TypeOK'
    BY DEF CleanupTypeOK, TypeOK, vars
  <1>2. MaxClock \in Nat /\ MaxEvents \in Nat /\ Times = 1..MaxClock
    BY CleanupAssumption DEF CleanupAssumption
  <1>3. Event => events' \in 0..MaxEvents
    BY <1>2 DEF Event, CleanupTypeOK
  <1>4. CASE BackendFails
    BY <1>1, <1>3, <1>4 DEF BackendFails, EndPass, CleanupTypeOK, passVars, ghostVars
  <1>5. CASE Stop
    BY <1>1, <1>5 DEF Stop, CleanupTypeOK, goroutineVars, passVars, worldVars, ghostVars
  <1>6. CASE Tick
    <2>1. clock' \in Times
      BY <1>2, <1>6 DEF Tick, CleanupTypeOK
    <2> QED BY <1>1, <1>6, <2>1 DEF Tick, CleanupTypeOK, goroutineVars, passVars, ghostVars
  <1>7. CASE OtherRequest
    <2>1. TypeOK'
      BY <1>7, UserAdded, UserDeleted, KeyRevoked DEF OtherRequest, CleanupTypeOK
    <2>2. disturbed' \in BOOLEAN
      BY <1>7 DEF OtherRequest, CleanupTypeOK
    <2> QED BY <1>3, <1>7, <2>1, <2>2 DEF OtherRequest, CleanupTypeOK, goroutineVars, passVars
  <1>8. ASSUME NEW u \in Usernames, NEW t \in Optional(Times), CheckIssue(u, t)
        PROVE  CleanupTypeOK'
    <2>1. pending' \in Optional([user : Usernames, expiresAt : Optional(Times)])
      BY <1>8 DEF CheckIssue, Optional
    <2> QED BY <1>1, <1>8, <2>1 DEF CheckIssue, CleanupTypeOK, goroutineVars, passVars, ghostVars
  <1>9. ASSUME NEW k \in KeyIDs, NEW prefix \in Prefixes, NEW g \in KeyScopes,
               FinishIssue(k, prefix, g)
        PROVE  CleanupTypeOK'
    <2>1. TypeOK' /\ used' \subseteq KeyIDs
      <3>1. CASE UNCHANGED <<vars, used>>
        BY <1>1, <3>1 DEF CleanupTypeOK
      <3>2. ASSUME used' = used \cup {k}, NEW u \in Usernames, NEW t \in Optional(Times),
                   <<prefix, k>> \in RawKeys, CreateKey(u, k, <<prefix, k>>, t, g)
            PROVE  TypeOK' /\ used' \subseteq KeyIDs
        BY <3>2, KeyIssued DEF CleanupTypeOK
      <3> QED BY <1>9, <3>1, <3>2, Issued
    <2>2. pending' = None
      BY <1>9 DEF FinishIssue
    <2> QED BY <1>9, <2>1, <2>2 DEF FinishIssue, CleanupTypeOK, goroutineVars, passVars,
               ghostVars, Optional
  <1> QED BY <1>4, <1>5, <1>6, <1>7, <1>8, <1>9 DEF Others

-----------------------------------------------------------------------------
(* The pages *)

\* A set that gains or loses one element stays finite, for the lists below.
LEMMA OneMoreOrLess ==
    ASSUME NEW S, IsFiniteSet(S), NEW x
    PROVE  IsFiniteSet(S \cup {x}) /\ IsFiniteSet(S \ {x})
  BY FS_AddElement, FS_RemoveElement

\* No step makes the lists infinite.
LEMMA ListsStayFinite ==
    ASSUME CleanupTypeOK, PageInv, [CleanupNext]_cleanupVars
    PROVE  IsFiniteSet(AllUsers)' /\ \A u \in Usernames : IsFiniteSet(KeysOf(u))'
  <1> DEFINE Finite == IsFiniteSet(AllUsers') /\ \A u \in Usernames : IsFiniteSet(KeysOf(u)')
  <1> SUFFICES Finite
    OBVIOUS
  <1>1. IsFiniteSet(AllUsers) /\ \A u \in Usernames : IsFiniteSet(KeysOf(u))
    BY DEF PageInv
  <1>2. TypeOK
    BY DEF CleanupTypeOK
  <1>3. CASE users' = users
    BY <1>1, <1>3, SameUsers
  <1>4. ASSUME NEW u \in Usernames, CreateUser(u, FALSE) PROVE Finite
    <2>1. AllUsers' = AllUsers \cup {u} /\ \A w \in Usernames : KeysOf(w)' = KeysOf(w)
      BY <1>2, <1>4, UserAdded DEF KeysOf
    <2> QED BY <1>1, <2>1, OneMoreOrLess
  <1>5. ASSUME NEW u \in Usernames, DeleteUser(u) PROVE Finite
    <2>1. AllUsers' = AllUsers \ {u}
      BY <1>2, <1>5, UserDeleted
    <2>2. \A w \in Usernames : KeysOf(w)' \in SUBSET KeysOf(w)
      BY <1>2, <1>5, UserDeleted DEF KeysOf
    <2> QED BY <1>1, <2>1, <2>2, OneMoreOrLess, FS_Subset
  <1>6. ASSUME NEW u \in Usernames, NEW k \in KeyIDs, RevokeKey(u, k) PROVE Finite
    <2>1. AllUsers' = AllUsers
      BY <1>2, <1>6, KeyRevoked
    <2>2. \A w \in Usernames : KeysOf(w)' \in SUBSET KeysOf(w)
      BY <1>2, <1>6, KeyRevoked DEF KeysOf
    <2> QED BY <1>1, <2>1, <2>2, FS_Subset
  <1>7. ASSUME NEW u \in Usernames, NEW k \in KeyIDs, NEW raw \in RawKeys,
               NEW t \in Optional(Times), NEW g \in KeyScopes, CreateKey(u, k, raw, t, g)
        PROVE  Finite
    <2>1. AllUsers' = AllUsers
      BY <1>2, <1>7, KeyIssued
    <2>2. \A w \in Usernames : KeysOf(w)' \in SUBSET (KeysOf(w) \cup {k})
      BY <1>2, <1>7, KeyIssued DEF KeysOf
    <2>3. \A w \in Usernames : IsFiniteSet(KeysOf(w) \cup {k})
      BY <1>1, OneMoreOrLess
    <2> QED BY <1>1, <2>1, <2>2, <2>3, FS_Subset
  <1> HIDE DEF Finite
  <1>8. CASE Background
    <2>1. CASE UNCHANGED vars
      BY <1>3, <2>1 DEF vars
    <2>2. CASE DropKey
      <3>1. Head(userPage) \in Usernames /\ Head(keyPage).id \in KeyIDs
        BY <2>2, FirstUser, FirstItem DEF DropKey
      <3> QED BY <1>6, <2>1, <2>2, <3>1 DEF DropKey
    <2> QED BY <1>8, <2>1, <2>2 DEF Background, BeginPass, Quit, Cancelled,
               ListUsers, ListKeys, KeepKey
  <1>9. CASE Others
    <2>1. CASE UNCHANGED vars
      BY <1>3, <2>1 DEF vars
    <2>2. CASE OtherRequest
      BY <1>4, <1>5, <1>6, <2>2 DEF OtherRequest
    <2>3. ASSUME NEW k \in KeyIDs, NEW prefix \in Prefixes, NEW g \in KeyScopes,
                 FinishIssue(k, prefix, g)
          PROVE  Finite
      BY <1>7, <2>1, <2>3, Issued
    <2> QED BY <1>9, <2>1, <2>2, <2>3 DEF Others, BackendFails, Stop, Tick, CheckIssue
  <1> QED BY <1>3, <1>8, <1>9 DEF CleanupNext, cleanupVars, vars

\* The goroutine only ever goes on with a page that has something on it.
LEMMA PagesInHand ==
    ASSUME CleanupTypeOK, PageInv, [CleanupNext]_cleanupVars
    PROVE  /\ (pc \in {"keys", "check"} => userPage # <<>>)'
           /\ (pc = "check" => keyPage # <<>>)'
  <1> DEFINE OnPage == /\ pc' \in {"keys", "check"} => userPage' # <<>>
                       /\ pc' = "check" => keyPage' # <<>>
  <1> SUFFICES OnPage
    OBVIOUS
  <1>1. CASE UNCHANGED goroutineVars
    BY <1>1 DEF goroutineVars, passVars, PageInv
  <1>2. CASE pc' \notin {"keys", "check"}
    BY <1>2
  <1>3. CASE ListUsers
    <2> DEFINE page == Page(Sorted(AllUsers), userOffset, PageLimit)
    <2>1. CASE page = <<>>
      BY <1>2, <1>3, <2>1 DEF ListUsers, EndPass
    <2>2. CASE page # <<>>
      <3>1. pc' = "keys" /\ userPage' = page
        BY <1>3, <2>2 DEF ListUsers
      <3> HIDE DEF page
      <3> QED BY <2>2, <3>1
    <2> QED BY <2>1, <2>2
  <1>4. ASSUME NextUser PROVE OnPage
    BY <1>4 DEF NextUser, EndPass
  <1>5. CASE ListKeys
    <2> DEFINE u == Head(userPage)
               page == Page(Sorted(KeysOf(u)), keyOffset, PageLimit)
    <2>1. u \in Usernames /\ pc = "keys"
      BY <1>5, FirstUser DEF ListKeys
    <2>2. page \in Seq(KeyIDs) /\ Len(KeyItems(u, page)) = Len(page)
      BY <2>1, PageOfKeys
    <2>3. CASE /\ pc' = "check" /\ userPage' = userPage
               /\ keyPage' = KeyItems(u, page) /\ page # <<>>
      <3> HIDE DEF page, u
      <3>1. Len(page) # 0
        BY <2>2, <2>3
      <3>2. keyPage' # <<>>
        BY <2>2, <2>3, <3>1
      <3>3. userPage' # <<>>
        BY <2>1, <2>3 DEF PageInv
      <3> QED BY <3>2, <3>3
    <2> QED BY <1>2, <1>4, <1>5, <2>3 DEF ListKeys, EndPass
  <1>6. ASSUME NEW last, NEW offset, AfterKey(last, offset), pc = "check" PROVE OnPage
    <2>1. CASE Tail(keyPage) # <<>>
      BY <1>6, <2>1 DEF AfterKey, PageInv
    <2>2. CASE Tail(keyPage) = <<>>
      BY <1>4, <1>6, <2>2 DEF AfterKey, PageInv
    <2> QED BY <2>1, <2>2
  <1> HIDE DEF OnPage
  <1>7. CASE KeepKey \/ DropKey
    BY <1>2, <1>6, <1>7 DEF KeepKey, DropKey, EndPass
  <1>8. CASE BeginPass \/ Quit \/ Cancelled \/ BackendFails
    BY <1>2, <1>8 DEF BeginPass, Quit, Cancelled, BackendFails, EndPass
  <1>9. CASE Others \/ UNCHANGED cleanupVars
    BY <1>1, <1>8, <1>9 DEF Others, Stop, Tick, OtherRequest, CheckIssue, FinishIssue,
       cleanupVars, goroutineVars
  <1> QED BY <1>3, <1>5, <1>7, <1>8, <1>9 DEF CleanupNext, Background

-----------------------------------------------------------------------------
(* Keys and clocks *)

\* No step changes a key: one is kept, dropped, or issued under a new id.
LEMMA KeyFate ==
    ASSUME CleanupTypeOK, PageInv, [CleanupNext]_cleanupVars
    PROVE  /\ used \subseteq used'
           /\ \A w \in Usernames, l \in KeyIDs :
                  \/ KeyAt(w, l)' = KeyAt(w, l)
                  \/ KeyAt(w, l)' = None
                  \/ l \notin used /\ l \in used'
  <1> DEFINE Fate == /\ used \subseteq used'
                     /\ \A w \in Usernames, l \in KeyIDs :
                            \/ KeyAt(w, l)' = KeyAt(w, l)
                            \/ KeyAt(w, l)' = None
                            \/ l \notin used /\ l \in used'
  <1> SUFFICES Fate
    OBVIOUS
  <1>1. TypeOK
    BY DEF CleanupTypeOK
  <1>2. CASE UNCHANGED <<users, used>>
    BY <1>2, SameUsers
  <1>3. ASSUME NEW u \in Usernames, NEW k \in KeyIDs, RevokeKey(u, k), used' = used
        PROVE  Fate
    BY <1>1, <1>3, KeyRevoked
  <1> HIDE DEF Fate
  <1>4. CASE Background
    <2>1. CASE UNCHANGED <<vars, worldVars>>
      BY <1>2, <2>1 DEF vars, worldVars
    <2>2. CASE DropKey
      <3>1. Head(userPage) \in Usernames /\ Head(keyPage).id \in KeyIDs
        BY <2>2, FirstUser, FirstItem DEF DropKey
      <3>2. UNCHANGED worldVars
        BY <2>2 DEF DropKey
      <3> QED BY <1>3, <2>1, <2>2, <3>1, <3>2 DEF DropKey, worldVars
    <2> QED BY <1>4, <2>1, <2>2 DEF Background, BeginPass, Quit, Cancelled,
               ListUsers, ListKeys, KeepKey
  <1>5. CASE OtherRequest
    <2>1. used' = used
      BY <1>5 DEF OtherRequest
    <2>2. ASSUME NEW u \in Usernames, CreateUser(u, FALSE) PROVE Fate
      BY <1>1, <2>1, <2>2, UserAdded DEF Fate
    <2>3. ASSUME NEW u \in Usernames, DeleteUser(u) PROVE Fate
      BY <1>1, <2>1, <2>3, UserDeleted DEF Fate
    <2> QED BY <1>3, <1>5, <2>1, <2>2, <2>3 DEF OtherRequest
  <1>6. ASSUME NEW k \in KeyIDs, NEW prefix \in Prefixes, NEW g \in KeyScopes,
               FinishIssue(k, prefix, g)
        PROVE  Fate
    <2>1. CASE UNCHANGED <<vars, used>>
      BY <1>2, <2>1 DEF vars
    <2>2. ASSUME k \notin used, used' = used \cup {k}, NEW u \in Usernames,
                 NEW t \in Optional(Times), <<prefix, k>> \in RawKeys,
                 CreateKey(u, k, <<prefix, k>>, t, g)
          PROVE  Fate
      <3>1. \A w \in Usernames, l \in KeyIDs : w # u \/ l # k => KeyAt(w, l)' = KeyAt(w, l)
        BY <1>1, <2>2, KeyIssued
      <3> QED BY <2>2, <3>1 DEF Fate
    <2> QED BY <1>6, <2>1, <2>2, Issued
  <1>7. CASE \/ BackendFails \/ Stop \/ Tick
             \/ \E u \in Usernames, t \in Optional(Times) : CheckIssue(u, t)
    BY <1>2, <1>7 DEF BackendFails, Stop, Tick, CheckIssue, vars, worldVars
  <1> QED BY <1>2, <1>4, <1>5, <1>6, <1>7 DEF CleanupNext, Others, cleanupVars, vars, worldVars

\* What a step does to the ghost: a pass that begins notes the keys that have
\* expired by then.
LEMMA DueKeys ==
    ASSUME [CleanupNext]_cleanupVars
    PROVE  \/ due' = due /\ ~BeginPass
           \/ /\ BeginPass /\ UNCHANGED <<users, clock>> /\ passNow' = None
              /\ due' = {uk \in Usernames \X KeyIDs : Expired(uk[1], uk[2])}
  BY DEF CleanupNext, Background, Others, Quit, Cancelled, ListUsers, ListKeys, KeepKey,
     DropKey, BackendFails, Stop, Tick, OtherRequest, CheckIssue, FinishIssue, BeginPass,
     cleanupVars, ghostVars, worldVars, vars

\* A page of keys in hand is the one of before, the rest of it, or a new one.
LEMMA PageInCheck ==
    ASSUME CleanupTypeOK, PageInv, [CleanupNext]_cleanupVars, pc' = "check"
    PROVE  /\ userPage' = userPage /\ userPage # <<>>
           /\ \/ pc = "check" /\ keyPage' = keyPage
              \/ pc = "check" /\ keyPage' = Tail(keyPage)
              \/ /\ ListKeys
                 /\ keyPage' = KeyItems(Head(userPage),
                                   Page(Sorted(KeysOf(Head(userPage))), keyOffset, PageLimit))
                 /\ lastKeys' = (Len(Page(Sorted(KeysOf(Head(userPage))), keyOffset, PageLimit))
                                     < PageLimit)
  <1>1. CASE UNCHANGED goroutineVars
    BY <1>1 DEF goroutineVars, passVars, PageInv
  <1>2. CASE ListKeys
    BY <1>2 DEF ListKeys, NextUser, EndPass, PageInv
  <1>3. CASE KeepKey \/ DropKey
    BY <1>3 DEF KeepKey, DropKey, AfterKey, NextUser, EndPass, PageInv
  <1>4. CASE BeginPass \/ Quit \/ Cancelled \/ ListUsers \/ BackendFails
    BY <1>4 DEF BeginPass, Quit, Cancelled, ListUsers, BackendFails, EndPass
  <1>5. CASE Stop \/ Tick \/ OtherRequest \/ UNCHANGED cleanupVars
    BY <1>1, <1>5 DEF Stop, Tick, OtherRequest, cleanupVars, goroutineVars
  <1>6. CASE \/ \E u \in Usernames, t \in Optional(Times) : CheckIssue(u, t)
             \/ \E k \in KeyIDs, prefix \in Prefixes, g \in KeyScopes :
                    FinishIssue(k, prefix, g)
    BY <1>1, <1>6 DEF CheckIssue, FinishIssue
  <1> QED BY <1>2, <1>3, <1>4, <1>5, <1>6 DEF CleanupNext, Background, Others

\* Ids are never issued twice, so what a page or the ghost says of a key is
\* still about that key.
LEMMA IssuedStep ==
    ASSUME CleanupTypeOK, PageInv, IssuedInv, [CleanupNext]_cleanupVars
    PROVE  IssuedInv'
  <1>1. /\ used \subseteq used'
        /\ \A w \in Usernames, l \in KeyIDs :
               \/ KeyAt(w, l)' = KeyAt(w, l)
               \/ KeyAt(w, l)' = None
               \/ l \notin used /\ l \in used'
    BY KeyFate
  <1>2. ASSUME NEW u \in Usernames, NEW k \in KeyIDs,
               KeyAt(u, k)' # None \/ <<u, k>> \in due'
        PROVE  k \in used'
    <2>1. CASE KeyAt(u, k)' # None
      BY <1>1, <2>1 DEF IssuedInv
    <2>2. CASE <<u, k>> \in due'
      <3>1. <<u, k>> \in due \/ KeyAt(u, k) # None
        BY <2>2, DueKeys DEF Expired
      <3> QED BY <1>1, <3>1 DEF IssuedInv
    <2> QED BY <1>2, <2>1, <2>2
  <1>3. ASSUME NEW w \in Usernames, NEW l \in KeyIDs, NEW t, l \in used,
               KeyAt(w, l) # None => KeyAt(w, l).expiresAt = t
        PROVE  l \in used' /\ (KeyAt(w, l)' # None => KeyAt(w, l)'.expiresAt = t)
    BY <1>1, <1>3
  <1>4. ASSUME pc' = "check", NEW i \in 1..Len(keyPage'), NEW w, w = Head(userPage'),
               NEW l, l = keyPage'[i].id, NEW t, t = keyPage'[i].expiresAt
        PROVE  l \in used' /\ (KeyAt(w, l)' # None => KeyAt(w, l)'.expiresAt = t)
    <2>1. userPage' = userPage /\ w = Head(userPage) /\ w \in Usernames
      <3>1. userPage' = userPage /\ userPage # <<>>
        BY <1>4, PageInCheck
      <3> QED BY <1>4, <3>1, RestOfPage DEF CleanupTypeOK
    <2> DEFINE Listed == /\ l \in KeyIDs /\ l \in used
                         /\ KeyAt(w, l) # None => KeyAt(w, l).expiresAt = t
    <2>2. Listed
      <3>1. ASSUME pc = "check", NEW j \in 1..Len(keyPage), keyPage'[i] = keyPage[j]
            PROVE  Listed
        <4>1. keyPage[j] \in KeyItem
          BY DEF CleanupTypeOK
        <4>2. keyPage[j].id \in KeyIDs
          BY <4>1 DEF KeyItem
        <4> QED BY <1>4, <2>1, <3>1, <4>2 DEF IssuedInv
      <3>2. CASE pc = "check" /\ keyPage' = keyPage
        BY <1>4, <3>1, <3>2
      <3>3. CASE pc = "check" /\ keyPage' = Tail(keyPage)
        <4>1. i + 1 \in 1..Len(keyPage) /\ keyPage'[i] = keyPage[i + 1]
          BY <1>4, <3>3, FirstItem
        <4> QED BY <3>1, <3>3, <4>1
      <3>4. CASE /\ ListKeys
                 /\ keyPage' = KeyItems(w, Page(Sorted(KeysOf(w)), keyOffset, PageLimit))
        <4> DEFINE page == Page(Sorted(KeysOf(w)), keyOffset, PageLimit)
        <4>1. /\ page \in Seq(KeyIDs) /\ Len(keyPage') = Len(page)
              /\ \A j \in 1..Len(page) :
                     /\ KeyAt(w, page[j]) # None
                     /\ keyPage'[j].id = page[j]
                     /\ keyPage'[j].expiresAt = KeyAt(w, page[j]).expiresAt
          BY <2>1, <3>4, PageOfKeys
        <4> HIDE DEF page
        <4>2. page[i] \in KeyIDs
          BY <1>4, <4>1
        <4> QED BY <1>4, <2>1, <4>1, <4>2 DEF IssuedInv
      <3> HIDE DEF Listed
      <3> QED BY <1>4, <2>1, <3>2, <3>3, <3>4, PageInCheck
    <2> QED BY <1>3, <2>1, <2>2
  <1>5. (pc = "check" =>
           \A i \in 1..Len(keyPage) :
               /\ keyPage[i].id \in used
               /\ KeyAt(Head(userPage), keyPage[i].id) # None =>
                      KeyAt(Head(userPage), keyPage[i].id).expiresAt = keyPage[i].expiresAt)'
    BY <1>4 DEF KeyAt, UserExists
  <1> QED BY <1>2, <1>5 DEF IssuedInv

\* Time moves on, and a pass reads the clock at most once.
LEMMA ClockReadings ==
    ASSUME CleanupTypeOK, [CleanupNext]_cleanupVars
    PROVE  /\ clock \in Nat /\ clock' \in Nat /\ clock <= clock'
           /\ passNow' \in {passNow, None} \/ (passNow = None /\ passNow' = clock)
  <1>1. clock \in Nat
    BY CleanupAssumption DEF CleanupAssumption, CleanupTypeOK
  <1>2. clock' = clock \/ clock' = clock + 1
    BY DEF CleanupNext, Background, Others, BeginPass, Quit, Cancelled, ListUsers, ListKeys,
       KeepKey, DropKey, BackendFails, Stop, Tick, OtherRequest, CheckIssue, FinishIssue,
       cleanupVars, worldVars
  <1>3. CASE KeepKey \/ DropKey
    <2>1. passNow' = Now(Head(keyPage).expiresAt)
      BY <1>3 DEF KeepKey, DropKey
    <2> QED BY <1>1, <1>2, <2>1 DEF Now
  <1>4. CASE ~(KeepKey \/ DropKey)
    <2>1. passNow' = passNow \/ passNow' = None
      BY <1>4 DEF CleanupNext, Background, Others, BeginPass, Quit, Cancelled, ListUsers,
         ListKeys, BackendFails, Stop, Tick, OtherRequest, CheckIssue, FinishIssue,
         cleanupVars, goroutineVars
    <2> QED BY <1>1, <1>2, <2>1
  <1> QED BY <1>3, <1>4

\* A key that was due stays expired by whichever clock the pass goes by.
LEMMA ClockStep ==
    ASSUME CleanupTypeOK, PageInv, IssuedInv, ClockInv, [CleanupNext]_cleanupVars
    PROVE  ClockInv'
  <1>1. /\ clock \in Nat /\ clock' \in Nat /\ clock <= clock'
        /\ passNow' \in {passNow, None} \/ (passNow = None /\ passNow' = clock)
    BY ClockReadings
  <1>2. passNow # None => passNow \in Nat
    BY CleanupAssumption DEF CleanupAssumption, CleanupTypeOK, Optional
  <1>3. passNow' # None => passNow' <= clock'
    BY <1>1, <1>2 DEF ClockInv
  <1>4. ASSUME NEW u \in Usernames, NEW k \in KeyIDs, <<u, k>> \in due', KeyAt(u, k)' # None
        PROVE  /\ KeyAt(u, k)'.expiresAt # None /\ KeyAt(u, k)'.expiresAt <= clock'
               /\ passNow' # None => KeyAt(u, k)'.expiresAt <= passNow'
    <2>1. CASE due' = due /\ ~BeginPass
      <3>1. k \in used
        BY <1>4, <2>1 DEF IssuedInv
      <3>2. KeyAt(u, k)' = KeyAt(u, k) /\ KeyAt(u, k) # None
        BY <1>4, <3>1, KeyFate
      <3>3. KeyAt(u, k).expiresAt # None => KeyAt(u, k).expiresAt \in Nat
        BY <3>2, KeyFound, CleanupAssumption
           DEF CleanupAssumption, CleanupTypeOK, KeyRecord, Optional
      <3>4. /\ KeyAt(u, k).expiresAt # None /\ KeyAt(u, k).expiresAt <= clock
            /\ passNow # None => KeyAt(u, k).expiresAt <= passNow
        BY <1>4, <2>1, <3>2 DEF ClockInv, Expired
      <3> QED BY <1>1, <3>2, <3>3, <3>4
    <2>2. CASE /\ BeginPass /\ UNCHANGED <<users, clock>> /\ passNow' = None
               /\ due' = {uk \in Usernames \X KeyIDs : Expired(uk[1], uk[2])}
      <3>1. Expired(u, k) /\ KeyAt(u, k)' = KeyAt(u, k)
        BY <1>4, <2>2, SameUsers
      <3> QED BY <2>2, <3>1 DEF Expired
    <2> QED BY <2>1, <2>2, DueKeys
  <1> QED BY <1>3, <1>4 DEF ClockInv, Expired

-----------------------------------------------------------------------------
(* Nothing that was due is passed over *)

\* The ranks the offsets of the pass are compared with.
LEMMA RanksOfKey ==
    ASSUME CleanupTypeOK, PageInv, NEW u \in Usernames, NEW k \in KeyIDs, KeyAt(u, k) # None
    PROVE  /\ u \in AllUsers /\ AllUsers \in SUBSET Nat /\ IsFiniteSet(AllUsers)
           /\ k \in KeysOf(u) /\ KeysOf(u) \in SUBSET Nat /\ IsFiniteSet(KeysOf(u))
           /\ Rank(AllUsers, u) \in Nat /\ Rank(KeysOf(u), k) \in Nat
  <1>1. AllUsers \in SUBSET Nat /\ KeysOf(u) \in SUBSET Nat
    BY CleanupAssumption DEF CleanupAssumption, AllUsers, KeysOf
  <1>2. u \in AllUsers /\ k \in KeysOf(u)
    BY DEF AllUsers, KeysOf, KeyAt
  <1>3. IsFiniteSet(AllUsers) /\ IsFiniteSet(KeysOf(u))
    BY DEF PageInv
  <1> QED BY <1>1, <1>2, <1>3, RankBounds

\* Where the pass stands after a step, spelled out.
LEMMA AheadAfter ==
    ASSUME NEW u \in Usernames, NEW k \in KeyIDs,
           \/ pc' = "users" /\ Rank(AllUsers', u) >= userOffset'
           \/ /\ pc' \in {"keys", "check"} /\ ~lastUsers'
              /\ Rank(AllUsers', u) >= userOffset'
           \/ pc' \in {"keys", "check"} /\ \E i \in 2..Len(userPage') : userPage'[i] = u
           \/ pc' = "keys" /\ u = Head(userPage') /\ Rank(KeysOf(u)', k) >= keyOffset'
           \/ /\ pc' = "check" /\ u = Head(userPage')
              /\ \E i \in 1..Len(keyPage') : keyPage'[i].id = k
           \/ /\ pc' = "check" /\ u = Head(userPage') /\ ~lastKeys'
              /\ Rank(KeysOf(u)', k) >= keyOffset' + Len(keyPage')
    PROVE  Ahead(u, k)'
  BY DEF Ahead, KeyAhead, InHand, UserInHand

\* Going on to the next user leaves behind only the one that is done.
LEMMA NextUserAhead ==
    ASSUME CleanupTypeOK, PageInv, pc \in {"keys", "check"}, NextUser,
           userOffset' = userOffset, lastUsers' = lastUsers,
           NEW u \in Usernames, NEW k \in KeyIDs,
           AllUsers' = AllUsers, Rank(KeysOf(u)', k) \in Nat,
           (~lastUsers /\ Rank(AllUsers, u) >= userOffset) \/ UserInHand(u)
    PROVE  Ahead(u, k)' /\ pc' # "wait"
  <1>1. /\ userPage' = Tail(userPage) /\ keyOffset' = 0
        /\ Len(userPage) \in Nat \ {0} /\ Len(userPage') = Len(userPage) - 1
        /\ \A i \in 1..Len(userPage') : userPage'[i] = userPage[i + 1]
        /\ Tail(userPage) = <<>> <=> Len(userPage) = 1
    BY FirstUser DEF NextUser
  <1>2. CASE Tail(userPage) # <<>>
    <2>1. pc' = "keys" /\ Len(userPage) > 1
      BY <1>1, <1>2 DEF NextUser
    <2>2. CASE ~lastUsers /\ Rank(AllUsers, u) >= userOffset
      BY <2>1, <2>2, AheadAfter
    <2>3. ASSUME NEW i \in 2..Len(userPage), userPage[i] = u PROVE Ahead(u, k)'
      <3>1. CASE i = 2
        <4>1. userPage'[1] = u
          BY <1>1, <2>1, <2>3, <3>1
        <4>2. Head(userPage') = u
          BY <1>1, <1>2, <4>1, FirstUser, RestOfPage
        <4> QED BY <1>1, <2>1, <4>2, AheadAfter
      <3>2. CASE i # 2
        <4>1. i - 1 \in 2..Len(userPage') /\ userPage'[i - 1] = u
          BY <1>1, <2>3, <3>2
        <4> QED BY <2>1, <4>1, AheadAfter
      <3> QED BY <3>1, <3>2
    <2> QED BY <2>1, <2>2, <2>3 DEF UserInHand
  <1>3. CASE Tail(userPage) = <<>>
    <2>1. ~lastUsers /\ Rank(AllUsers, u) >= userOffset
      BY <1>1, <1>3 DEF UserInHand
    <2>2. pc' = "users"
      BY <1>3, <2>1 DEF NextUser
    <2> QED BY <2>1, <2>2, AheadAfter
  <1> QED BY <1>2, <1>3

\* Listing a page of users: whoever is not on it comes later.
LEMMA ListUsersAhead ==
    ASSUME CleanupTypeOK, PageInv, ListUsers,
           NEW u \in Usernames, NEW k \in KeyIDs, KeyAt(u, k) # None, Ahead(u, k)
    PROVE  Ahead(u, k)' /\ pc' # "wait"
  <1> DEFINE page == Page(Sorted(AllUsers), userOffset, PageLimit)
  <1>1. /\ u \in AllUsers /\ Rank(AllUsers, u) \in Nat /\ Rank(KeysOf(u), k) \in Nat
        /\ Rank(AllUsers, u) >= userOffset
    BY RanksOfKey DEF ListUsers, Ahead, KeyAhead
  <1>2. /\ page \in Seq(Usernames) /\ Len(page) \in Nat
        /\ \/ \E i \in 1..Len(page) : page[i] = u
           \/ /\ Rank(AllUsers, u) >= userOffset + Len(page)
              /\ ~(userOffset + Len(page) >= Cardinality(AllUsers))
              /\ ~(Len(page) < PageLimit)
    BY <1>1, PageOfUsers
  <1>3. AllUsers' = AllUsers /\ KeysOf(u)' = KeysOf(u)
    BY SameUsers DEF ListUsers, vars
  <1>4. page # <<>>
    <2> SUFFICES ASSUME page = <<>> PROVE FALSE
      OBVIOUS
    <2>1. Len(page) = 0 /\ PageLimit \in Nat \ {0}
      BY CleanupAssumption DEF CleanupAssumption
    <2> HIDE DEF page
    <2> QED BY <1>2, <2>1
  <1>5. /\ pc' = "keys" /\ userPage' = page /\ userOffset' = userOffset + Len(page)
        /\ lastUsers' = (\/ userOffset + Len(page) >= Cardinality(AllUsers)
                         \/ Len(page) < PageLimit)
        /\ keyOffset' = 0
    BY <1>4 DEF ListUsers
  <1> HIDE DEF page
  <1>6. CASE \E i \in 1..Len(page) : page[i] = u
    <2>1. PICK i \in 1..Len(page) : page[i] = u
      BY <1>6
    <2>2. CASE i = 1
      <3>1. Head(userPage') = u
        BY <1>2, <1>4, <1>5, <2>1, <2>2, RestOfPage
      <3> QED BY <1>1, <1>3, <1>5, <3>1, AheadAfter
    <2>3. CASE i # 1
      <3>1. i \in 2..Len(userPage') /\ userPage'[i] = u
        BY <1>2, <1>5, <2>1, <2>3
      <3> QED BY <1>5, <3>1, AheadAfter
    <2> QED BY <1>5, <2>2, <2>3
  <1>7. CASE /\ Rank(AllUsers, u) >= userOffset + Len(page)
             /\ ~(userOffset + Len(page) >= Cardinality(AllUsers))
             /\ ~(Len(page) < PageLimit)
    <2>1. ~lastUsers' /\ Rank(AllUsers', u) >= userOffset'
      BY <1>3, <1>5, <1>7
    <2> QED BY <1>5, <2>1, AheadAfter
  <1> QED BY <1>2, <1>6, <1>7

\* Listing a page of keys: a key of this user that is not on it comes later.
LEMMA ListKeysAhead ==
    ASSUME CleanupTypeOK, PageInv, ListKeys,
           NEW u \in Usernames, NEW k \in KeyIDs, KeyAt(u, k) # None, Ahead(u, k)
    PROVE  \/ pc' \in {"users", "keys", "check"} /\ Ahead(u, k)'
           \/ outcome' = "error" /\ pc' = "wait"
  <1> DEFINE w == Head(userPage)
             page == Page(Sorted(KeysOf(w)), keyOffset, PageLimit)
  <1>1. pc = "keys" /\ w \in Usernames
    BY FirstUser DEF ListKeys
  <1>2. /\ u \in AllUsers /\ k \in KeysOf(u)
        /\ Rank(AllUsers, u) \in Nat /\ Rank(KeysOf(u), k) \in Nat
    BY RanksOfKey
  <1>3. AllUsers' = AllUsers /\ KeysOf(u)' = KeysOf(u)
    BY SameUsers DEF ListKeys, vars
  <1>4. /\ page \in Seq(KeyIDs) /\ Len(page) \in Nat
        /\ Len(KeyItems(w, page)) = Len(page)
        /\ \A i \in 1..Len(page) : KeyItems(w, page)[i].id = page[i]
        /\ \A l \in KeysOf(w) :
               Rank(KeysOf(w), l) >= keyOffset =>
                   \/ \E i \in 1..Len(page) : page[i] = l
                   \/ /\ Rank(KeysOf(w), l) >= keyOffset + Len(page)
                      /\ ~(Len(page) < PageLimit)
    BY <1>1, PageOfKeys
  <1>5. userOffset' = userOffset /\ lastUsers' = lastUsers
    BY DEF ListKeys
  <1>6. CASE EndPass("error")
    BY <1>6 DEF EndPass
  <1>7. CASE NextUser /\ page = <<>>
    <2>1. Len(page) = 0 /\ PageLimit \in Nat \ {0}
      BY <1>7, CleanupAssumption DEF CleanupAssumption
    <2> HIDE DEF page
    <2>2. ~(u = w /\ KeyAhead(u, k))
      BY <1>1, <1>2, <1>4, <2>1 DEF KeyAhead
    <2>3. (~lastUsers /\ Rank(AllUsers, u) >= userOffset) \/ UserInHand(u)
      BY <1>1, <2>2 DEF Ahead
    <2>4. Ahead(u, k)' /\ pc' # "wait"
      BY <1>1, <1>2, <1>3, <1>5, <1>7, <2>3, NextUserAhead
    <2> QED BY <1>7, <2>4 DEF NextUser, EndPass
  <1>8. CASE /\ pc' = "check" /\ UNCHANGED <<userPage, keyOffset, outcome>>
             /\ keyPage' = KeyItems(w, page)
             /\ lastKeys' = (Len(page) < PageLimit)
    <2> HIDE DEF page
    <2>1. CASE ~lastUsers /\ Rank(AllUsers, u) >= userOffset
      BY <1>3, <1>5, <1>8, <2>1, AheadAfter
    <2>2. CASE UserInHand(u)
      BY <1>8, <2>2, AheadAfter DEF UserInHand
    <2>3. CASE u = w /\ Rank(KeysOf(u), k) >= keyOffset
      <3>1. CASE \E i \in 1..Len(page) : page[i] = k
        <4>1. \E i \in 1..Len(keyPage') : keyPage'[i].id = k
          BY <1>4, <1>8, <3>1
        <4> QED BY <1>8, <2>3, <4>1, AheadAfter
      <3>2. CASE Rank(KeysOf(w), k) >= keyOffset + Len(page) /\ ~(Len(page) < PageLimit)
        <4>1. ~lastKeys' /\ Rank(KeysOf(u)', k) >= keyOffset' + Len(keyPage')
          BY <1>3, <1>4, <1>8, <2>3, <3>2
        <4> QED BY <1>8, <2>3, <4>1, AheadAfter
      <3> QED BY <1>2, <1>4, <2>3, <3>1, <3>2
    <2> QED BY <1>1, <1>8, <2>1, <2>2, <2>3 DEF Ahead, KeyAhead
  <1> QED BY <1>6, <1>7, <1>8 DEF ListKeys

\* Whatever was ahead of the pass, other than the key it is done with, still
\* is after that key.
LEMMA AfterKeyAhead ==
    ASSUME CleanupTypeOK, PageInv, pc = "check",
           NEW last \in BOOLEAN, NEW offset \in Nat, AfterKey(last, offset),
           userOffset' = userOffset, lastUsers' = lastUsers,
           NEW u \in Usernames, NEW k \in KeyIDs,
           AllUsers' = AllUsers, Rank(KeysOf(u)', k) \in Nat,
           \/ ~lastUsers /\ Rank(AllUsers, u) >= userOffset
           \/ UserInHand(u)
           \/ u = Head(userPage) /\ \E i \in 2..Len(keyPage) : keyPage[i].id = k
           \/ /\ u = Head(userPage) /\ ~last
              /\ Rank(KeysOf(u)', k) >= offset + Len(keyPage) - 1
    PROVE  Ahead(u, k)' /\ pc' # "wait"
  <1>1. /\ keyPage' = Tail(keyPage) /\ lastKeys' = last
        /\ Len(keyPage) \in Nat \ {0} /\ Len(keyPage') = Len(keyPage) - 1
        /\ \A i \in 1..Len(keyPage') : keyPage'[i] = keyPage[i + 1]
        /\ Tail(keyPage) = <<>> <=> Len(keyPage) = 1
    BY FirstItem DEF AfterKey
  <1>2. CASE Tail(keyPage) # <<>>
    <2>1. pc' = "check" /\ keyOffset' = offset /\ userPage' = userPage
      BY <1>2 DEF AfterKey
    <2>2. CASE ~lastUsers /\ Rank(AllUsers, u) >= userOffset
      BY <2>1, <2>2, AheadAfter
    <2>3. CASE UserInHand(u)
      BY <2>1, <2>3, AheadAfter DEF UserInHand
    <2>4. ASSUME u = Head(userPage), NEW i \in 2..Len(keyPage), keyPage[i].id = k
          PROVE  Ahead(u, k)'
      <3>1. i - 1 \in 1..Len(keyPage') /\ keyPage'[i - 1].id = k
        BY <1>1, <2>4
      <3> QED BY <2>1, <2>4, <3>1, AheadAfter
    <2>5. CASE /\ u = Head(userPage) /\ ~last
               /\ Rank(KeysOf(u)', k) >= offset + Len(keyPage) - 1
      <3>1. Rank(KeysOf(u)', k) >= keyOffset' + Len(keyPage')
        BY <1>1, <2>1, <2>5
      <3>2. ~lastKeys'
        BY <1>1, <2>5, Zenon
      <3> QED BY <2>1, <2>5, <3>1, <3>2, AheadAfter
    <2> QED BY <2>1, <2>2, <2>3, <2>4, <2>5
  <1>3. CASE Tail(keyPage) = <<>> /\ last
    <2>1. NextUser
      BY <1>3 DEF AfterKey
    <2>2. (~lastUsers /\ Rank(AllUsers, u) >= userOffset) \/ UserInHand(u)
      BY <1>1, <1>3
    <2> QED BY <2>1, <2>2, NextUserAhead
  <1>4. CASE Tail(keyPage) = <<>> /\ ~last
    <2>1. pc' = "keys" /\ keyOffset' = offset /\ userPage' = userPage
      BY <1>4 DEF AfterKey
    <2>2. CASE ~lastUsers /\ Rank(AllUsers, u) >= userOffset
      BY <2>1, <2>2, AheadAfter
    <2>3. CASE UserInHand(u)
      BY <2>1, <2>3, AheadAfter DEF UserInHand
    <2>4. CASE u = Head(userPage) /\ Rank(KeysOf(u)', k) >= offset + Len(keyPage) - 1
      <3>1. Rank(KeysOf(u)', k) >= keyOffset'
        BY <1>1, <1>4, <2>1, <2>4
      <3> QED BY <2>1, <2>4, <3>1, AheadAfter
    <2> QED BY <1>1, <1>4, <2>1, <2>2, <2>3, <2>4
  <1> QED BY <1>2, <1>3, <1>4

\* A key that is kept was not due.
LEMMA KeepKeyAhead ==
    ASSUME CleanupTypeOK, PageInv, IssuedInv, ClockInv, KeepKey,
           NEW u \in Usernames, NEW k \in KeyIDs, KeyAt(u, k) # None,
           <<u, k>> \in due, Ahead(u, k)
    PROVE  Ahead(u, k)' /\ pc' # "wait"
  <1> DEFINE item == Head(keyPage)
  <1>1. pc = "check" /\ Valid(item.expiresAt, Now(item.expiresAt))
    BY DEF KeepKey
  <1>2. item = keyPage[1] /\ Len(keyPage) \in Nat \ {0}
    BY <1>1, FirstItem
  <1>3. AllUsers' = AllUsers /\ KeysOf(u)' = KeysOf(u) /\ Rank(KeysOf(u), k) \in Nat
    BY SameUsers, RanksOfKey DEF KeepKey, vars
  <1>4. ~(u = Head(userPage) /\ item.id = k)
    <2> SUFFICES ASSUME u = Head(userPage), item.id = k PROVE FALSE
      OBVIOUS
    <2>1. item.expiresAt = KeyAt(u, k).expiresAt
      BY <1>1, <1>2 DEF IssuedInv
    <2>2. /\ item.expiresAt # None /\ item.expiresAt <= clock
          /\ passNow # None => item.expiresAt <= passNow
      BY <2>1 DEF ClockInv, Expired
    <2>3. item.expiresAt \in Nat /\ clock \in Nat /\ (passNow # None => passNow \in Nat)
      BY <1>1, <2>2, FirstItem, CleanupAssumption
         DEF CleanupAssumption, CleanupTypeOK, Optional
    <2> HIDE DEF item
    <2> QED BY <1>1, <2>2, <2>3 DEF Valid, Now
  <1>5. \/ ~lastUsers /\ Rank(AllUsers, u) >= userOffset
        \/ UserInHand(u)
        \/ u = Head(userPage) /\ \E i \in 2..Len(keyPage) : keyPage[i].id = k
        \/ /\ u = Head(userPage) /\ ~lastKeys
           /\ Rank(KeysOf(u), k) >= keyOffset + Len(keyPage)
    BY <1>1, <1>2, <1>4 DEF Ahead, KeyAhead, InHand
  <1>6. AfterKey(lastKeys, keyOffset + 1) /\ userOffset' = userOffset /\ lastUsers' = lastUsers
    BY DEF KeepKey
  <1>7. keyOffset \in Nat /\ lastKeys \in BOOLEAN
    BY DEF CleanupTypeOK
  <1>8. Rank(KeysOf(u), k) >= keyOffset + Len(keyPage) =>
            Rank(KeysOf(u)', k) >= (keyOffset + 1) + Len(keyPage) - 1
    BY <1>2, <1>3, <1>7
  <1> QED BY <1>1, <1>3, <1>5, <1>6, <1>7, <1>8, AfterKeyAhead

\* A revoked key leaves the list, and what followed it is one place nearer:
\* the offset that stays where it is passes over nothing.
LEMMA DropKeyAhead ==
    ASSUME CleanupTypeOK, PageInv, DropKey,
           NEW u \in Usernames, NEW k \in KeyIDs, KeyAt(u, k) # None,
           KeyAt(u, k)' # None, Ahead(u, k)
    PROVE  (Ahead(u, k)' /\ pc' # "wait") \/ (pc' = "wait" /\ outcome' = "error")
  <1> DEFINE item == Head(keyPage)
             w == Head(userPage)
  <1>1. pc = "check" /\ userOffset' = userOffset /\ lastUsers' = lastUsers
    BY DEF DropKey
  <1>2. item = keyPage[1] /\ item.id \in KeyIDs /\ Len(keyPage) \in Nat \ {0} /\ w \in Usernames
    BY <1>1, FirstItem, FirstUser
  <1>3. CASE EndPass("error")
    BY <1>3 DEF EndPass
  <1>4. CASE RevokeKey(w, item.id) /\ AfterKey(FALSE, keyOffset)
    <2>1. PICK v \in Usernames, l \in KeyIDs : v = w /\ l = item.id
      BY <1>2
    <2>2. /\ AllUsers' = AllUsers /\ KeyAt(v, l)' = None
          /\ \A x \in Usernames, m \in KeyIDs :
                 x # v \/ m # l => KeyAt(x, m)' = KeyAt(x, m)
      BY <1>4, <2>1, KeyRevoked DEF CleanupTypeOK
    <2>3. ~(u = w /\ item.id = k)
      BY <2>1, <2>2
    <2>4. /\ k \in KeysOf(u) /\ KeysOf(u) \in SUBSET Nat /\ IsFiniteSet(KeysOf(u))
          /\ Rank(KeysOf(u), k) \in Nat
      BY RanksOfKey
    <2>5. KeysOf(u)' = IF u = v THEN KeysOf(u) \ {l} ELSE KeysOf(u)
      BY <2>2 DEF KeysOf
    <2>6. Rank(KeysOf(u)', k) \in Nat /\ Rank(KeysOf(u)', k) >= Rank(KeysOf(u), k) - 1
      <3>1. CASE u = v
        <4>1. KeysOf(u) \ {l} \in SUBSET Nat /\ k \in KeysOf(u) \ {l}
          BY <2>1, <2>3, <2>4, <3>1
        <4>2. /\ IsFiniteSet(KeysOf(u) \ {l})
              /\ Rank(KeysOf(u) \ {l}, k) >= Rank(KeysOf(u), k) - 1
          BY <2>4, RankAfterDeleting
        <4>3. Rank(KeysOf(u) \ {l}, k) \in Nat
          BY <4>1, <4>2, RankBounds
        <4> QED BY <2>5, <3>1, <4>2, <4>3
      <3>2. CASE u # v
        BY <2>4, <2>5, <3>2
      <3> QED BY <3>1, <3>2
    <2>7. \/ ~lastUsers /\ Rank(AllUsers, u) >= userOffset
          \/ UserInHand(u)
          \/ u = w /\ \E i \in 2..Len(keyPage) : keyPage[i].id = k
          \/ u = w /\ Rank(KeysOf(u), k) >= keyOffset + Len(keyPage)
      BY <1>1, <1>2, <2>3 DEF Ahead, KeyAhead, InHand
    <2>8. keyOffset \in Nat
      BY DEF CleanupTypeOK
    <2>9. Rank(KeysOf(u), k) >= keyOffset + Len(keyPage) =>
              Rank(KeysOf(u)', k) >= keyOffset + Len(keyPage) - 1
      BY <1>2, <2>4, <2>6, <2>8
    <2> QED BY <1>1, <1>4, <2>2, <2>6, <2>7, <2>8, <2>9, AfterKeyAhead
  <1> QED BY <1>3, <1>4 DEF DropKey, OffsetAfterRevoke

\* New users and new keys move nothing forward in the lists, so what was
\* ahead of the pass still is.
LEMMA OthersAhead ==
    ASSUME CleanupTypeOK, PageInv, Others \/ UNCHANGED cleanupVars, ~BackendFails, ~disturbed',
           NEW u \in Usernames, NEW k \in KeyIDs, KeyAt(u, k) # None, Ahead(u, k)
    PROVE  Ahead(u, k)'
  <1>1. UNCHANGED <<pc, passVars>>
    BY DEF Others, Stop, Tick, OtherRequest, CheckIssue, FinishIssue, cleanupVars, goroutineVars
  <1>2. /\ u \in AllUsers /\ AllUsers \in SUBSET Nat /\ IsFiniteSet(AllUsers)
        /\ k \in KeysOf(u) /\ KeysOf(u) \in SUBSET Nat /\ IsFiniteSet(KeysOf(u))
        /\ Rank(AllUsers, u) \in Nat /\ Rank(KeysOf(u), k) \in Nat
    BY RanksOfKey
  <1>3. TypeOK
    BY DEF CleanupTypeOK
  <1> DEFINE Later == /\ Rank(AllUsers', u) >= Rank(AllUsers, u)
                      /\ Rank(KeysOf(u)', k) >= Rank(KeysOf(u), k)
                      /\ Rank(AllUsers', u) \in Nat /\ Rank(KeysOf(u)', k) \in Nat
  <1>4. ASSUME AllUsers' = AllUsers \/ \E v \in Nat : AllUsers' = AllUsers \cup {v},
               KeysOf(u)' = KeysOf(u) \/ \E l \in Nat : KeysOf(u)' = KeysOf(u) \cup {l}
        PROVE  Later
    <2>1. ASSUME NEW S \in SUBSET Nat, IsFiniteSet(S), NEW x \in S, NEW y \in Nat
          PROVE  Rank(S \cup {y}, x) \in Nat /\ Rank(S \cup {y}, x) >= Rank(S, x)
      <3>1. S \cup {y} \in SUBSET Nat /\ x \in S \cup {y}
        OBVIOUS
      <3>2. IsFiniteSet(S \cup {y}) /\ Rank(S \cup {y}, x) >= Rank(S, x)
        BY <2>1, RankAfterAdding
      <3> QED BY <3>1, <3>2, RankBounds
    <2>2. Rank(AllUsers', u) \in Nat /\ Rank(AllUsers', u) >= Rank(AllUsers, u)
      BY <1>2, <1>4, <2>1
    <2>3. Rank(KeysOf(u)', k) \in Nat /\ Rank(KeysOf(u)', k) >= Rank(KeysOf(u), k)
      BY <1>2, <1>4, <2>1
    <2> QED BY <2>2, <2>3
  <1>5. Later
    <2>1. CASE UNCHANGED users
      BY <1>4, <2>1, SameUsers
    <2>2. CASE OtherRequest
      <3>1. PICK v \in Usernames : CreateUser(v, FALSE)
        BY <2>2 DEF OtherRequest
      <3>2. AllUsers' = AllUsers \cup {v} /\ KeysOf(u)' = KeysOf(u) /\ v \in Nat
        BY <1>3, <3>1, UserAdded, CleanupAssumption DEF KeysOf, CleanupAssumption
      <3> QED BY <1>4, <3>2
    <2>3. ASSUME NEW l \in KeyIDs, NEW prefix \in Prefixes, NEW g \in KeyScopes,
                 FinishIssue(l, prefix, g)
          PROVE  Later
      <3>1. ASSUME NEW v \in Usernames, NEW t \in Optional(Times), <<prefix, l>> \in RawKeys,
                   CreateKey(v, l, <<prefix, l>>, t, g)
            PROVE  Later
        <4>1. /\ AllUsers' = AllUsers /\ KeyAt(v, l)' # None
              /\ \A w \in Usernames, m \in KeyIDs : w # v \/ m # l => KeyAt(w, m)' = KeyAt(w, m)
          BY <1>3, <3>1, KeyIssued
        <4>2. KeysOf(u)' = IF u = v THEN KeysOf(u) \cup {l} ELSE KeysOf(u)
          BY <4>1 DEF KeysOf
        <4>3. l \in Nat
          BY CleanupAssumption DEF CleanupAssumption
        <4> QED BY <1>4, <4>1, <4>2, <4>3
      <3> QED BY <2>1, <2>3, <3>1, Issued DEF vars
    <2> QED BY <2>1, <2>2, <2>3 DEF Others, Stop, Tick, CheckIssue, cleanupVars, vars
  <1>6. UNCHANGED <<pc, userOffset, userPage, lastUsers, keyOffset, keyPage, lastKeys>>
    BY <1>1 DEF passVars
  <1>7. /\ userOffset \in Nat /\ keyOffset \in Nat /\ Len(keyPage) \in Nat
    BY DEF CleanupTypeOK
  <1>8. /\ Rank(AllUsers, u) >= userOffset => Rank(AllUsers', u) >= userOffset'
        /\ Rank(KeysOf(u), k) >= keyOffset => Rank(KeysOf(u)', k) >= keyOffset'
        /\ Rank(KeysOf(u), k) >= keyOffset + Len(keyPage) =>
               Rank(KeysOf(u)', k) >= keyOffset' + Len(keyPage')
    BY <1>2, <1>5, <1>6, <1>7
  <1>9. \/ pc' = "users" /\ Rank(AllUsers', u) >= userOffset'
        \/ /\ pc' \in {"keys", "check"} /\ ~lastUsers'
           /\ Rank(AllUsers', u) >= userOffset'
        \/ pc' \in {"keys", "check"} /\ \E i \in 2..Len(userPage') : userPage'[i] = u
        \/ pc' = "keys" /\ u = Head(userPage') /\ Rank(KeysOf(u)', k) >= keyOffset'
        \/ /\ pc' = "check" /\ u = Head(userPage')
           /\ \E i \in 1..Len(keyPage') : keyPage'[i].id = k
        \/ /\ pc' = "check" /\ u = Head(userPage') /\ ~lastKeys'
           /\ Rank(KeysOf(u)', k) >= keyOffset' + Len(keyPage')
    BY <1>6, <1>8 DEF Ahead, KeyAhead, InHand, UserInHand
  <1> QED BY <1>9, AheadAfter

\* No step of an undisturbed pass leaves behind a key that was due.
LEMMA AheadStep ==
    ASSUME CleanupInv, [CleanupNext]_cleanupVars, CleanupTypeOK', PageInv'
    PROVE  AheadInv'
  <1> USE DEF CleanupInv
  <1> SUFFICES ASSUME ~disturbed', NEW u \in Usernames, NEW k \in KeyIDs,
                      <<u, k>> \in due', KeyAt(u, k)' # None
               PROVE  /\ pc' \in {"users", "keys", "check"} => Ahead(u, k)'
                      /\ ~(pc' = "wait" /\ outcome' = "ok")
    BY DEF AheadInv
  <1>1. CASE BeginPass
    <2>1. pc' = "users" /\ userOffset' = 0 /\ UNCHANGED users
      BY <1>1 DEF BeginPass, vars
    <2>2. Rank(AllUsers', u) \in Nat
      BY <2>1, SameUsers, RanksOfKey
    <2> QED BY <2>1, <2>2, AheadAfter
  <1>2. CASE ~BeginPass
    <2>1. due' = due
      BY <1>2, DueKeys
    <2>2. ~disturbed
      BY <1>2 DEF CleanupNext, Background, Others, Quit, Cancelled, ListUsers, ListKeys,
         KeepKey, DropKey, BackendFails, Stop, Tick, OtherRequest, CheckIssue, FinishIssue,
         cleanupVars, ghostVars
    <2>3. KeyAt(u, k) # None /\ <<u, k>> \in due
      BY <2>1, KeyFate DEF IssuedInv
    <2>4. /\ pc \in {"users", "keys", "check"} => Ahead(u, k)
          /\ ~(pc = "wait" /\ outcome = "ok")
      BY <2>2, <2>3 DEF AheadInv
    <2>5. CASE Quit \/ Cancelled \/ BackendFails
      BY <2>5 DEF Quit, Cancelled, BackendFails, EndPass
    <2>6. CASE ListUsers
      BY <2>3, <2>4, <2>6, ListUsersAhead DEF ListUsers
    <2>7. CASE ListKeys
      <3>1. Ahead(u, k)
        BY <2>4, <2>7 DEF ListKeys
      <3>2. \/ pc' \in {"users", "keys", "check"} /\ Ahead(u, k)'
            \/ outcome' = "error" /\ pc' = "wait"
        BY <2>3, <2>7, <3>1, ListKeysAhead
      <3> QED BY <3>2
    <2>8. CASE KeepKey
      BY <2>3, <2>4, <2>8, KeepKeyAhead DEF KeepKey
    <2>9. CASE DropKey
      <3>1. Ahead(u, k)
        BY <2>4, <2>9 DEF DropKey
      <3>2. (Ahead(u, k)' /\ pc' # "wait") \/ (pc' = "wait" /\ outcome' = "error")
        BY <2>3, <2>9, <3>1, DropKeyAhead
      <3> QED BY <3>2
    <2>10. CASE (Others \/ UNCHANGED cleanupVars) /\ ~BackendFails
      <3>1. UNCHANGED <<pc, outcome>>
        BY <2>10 DEF Others, Stop, Tick, OtherRequest, CheckIssue, FinishIssue, cleanupVars,
           goroutineVars
      <3> QED BY <2>3, <2>4, <2>10, <3>1, OthersAhead
    <2> QED BY <1>2, <2>5, <2>6, <2>7, <2>8, <2>9, <2>10 DEF CleanupNext, Background
  <1> QED BY <1>1, <1>2

-----------------------------------------------------------------------------
(* The theorems *)

\* The invariant holds when the server starts.
LEMMA CleanupInvInit == CleanupInit => CleanupInv
  <1> SUFFICES ASSUME CleanupInit PROVE CleanupInv
    OBVIOUS
  <1>1. TypeOK
    BY DEF CleanupInit, Init, TypeOK, Optional, NoResources, Roles
  <1>2. \A u \in Usernames : ~UserExists(u)
    BY DEF CleanupInit, Init, UserExists
  <1>3. AllUsers = {} /\ \A u \in Usernames : KeysOf(u) = {}
    BY <1>2 DEF AllUsers, KeysOf, KeyAt
  <1>4. CleanupTypeOK
    <2>1. clock \in Times /\ 0 \in 0..MaxEvents
      BY CleanupAssumption DEF CleanupAssumption, CleanupInit
    <2>2. userPage \in Seq(Usernames) /\ keyPage \in Seq(KeyItem)
      BY DEF CleanupInit
    <2>3. passNow \in Optional(Times) /\ used \subseteq KeyIDs
          /\ due \subseteq Usernames \X KeyIDs
          /\ pending \in Optional([user : Usernames, expiresAt : Optional(Times)])
      BY DEF CleanupInit, Optional
    <2>4. /\ lastUsers \in BOOLEAN /\ lastKeys \in BOOLEAN
          /\ cancelled \in BOOLEAN /\ disturbed \in BOOLEAN
      BY DEF CleanupInit
    <2> QED BY <1>1, <2>1, <2>2, <2>3, <2>4 DEF CleanupInit, CleanupTypeOK
  <1>5. PageInv
    BY <1>3, FS_EmptySet DEF PageInv, CleanupInit
  <1>6. IssuedInv /\ ClockInv /\ AheadInv
    BY <1>2 DEF CleanupInit, IssuedInv, ClockInv, AheadInv, KeyAt
  <1> QED BY <1>4, <1>5, <1>6 DEF CleanupInv

\* Every step keeps it.
LEMMA CleanupInvStep == CleanupInv /\ [CleanupNext]_cleanupVars => CleanupInv'
  <1> SUFFICES ASSUME CleanupInv, [CleanupNext]_cleanupVars PROVE CleanupInv'
    OBVIOUS
  <1>1. CleanupTypeOK /\ PageInv /\ IssuedInv /\ ClockInv
    BY DEF CleanupInv
  <1>2. CleanupTypeOK'
    <2>1. CASE UNCHANGED cleanupVars
      BY <1>1, <2>1 DEF CleanupTypeOK, TypeOK, cleanupVars, vars, passVars, worldVars, ghostVars
    <2> QED BY <1>1, <2>1, BackgroundType, OthersType DEF CleanupNext
  <1>3. PageInv'
    BY <1>1, ListsStayFinite, PagesInHand DEF PageInv
  <1> QED BY <1>1, <1>2, <1>3, IssuedStep, ClockStep, AheadStep DEF CleanupInv

\* The cleanup's invariant, which the theorems below are read off.
LEMMA CleanupSafe == CleanupSpec => []CleanupInv
  BY CleanupInvInit, CleanupInvStep, PTL DEF CleanupSpec

\* The cleanup always works on values of their types.
THEOREM CleanupTypeCorrect == CleanupSpec => []CleanupTypeOK
  <1>1. CleanupInv => CleanupTypeOK
    BY DEF CleanupInv
  <1> QED BY <1>1, CleanupSafe, PTL

\* A pass that ends well has revoked every key that had expired when it
\* began, whatever the page limit and however many users and keys were added
\* under way, provided nobody else deleted any.
THEOREM PassesAreComplete == CleanupSpec => []PassIsComplete
  <1>1. CleanupInv => PassIsComplete
    <2> SUFFICES ASSUME CleanupInv, pc = "wait", outcome = "ok", ~disturbed, NEW uk \in due
                 PROVE  KeyAt(uk[1], uk[2]) = None
      BY DEF PassIsComplete
    <2>1. uk = <<uk[1], uk[2]>> /\ uk[1] \in Usernames /\ uk[2] \in KeyIDs
      BY DEF CleanupInv, CleanupTypeOK
    <2> QED BY <2>1 DEF CleanupInv, AheadInv
  <1> QED BY <1>1, CleanupSafe, PTL

\* The step that revokes a key, unless another request took it, finds it
\* expired at that time: the item is the key itself, and the clock the pass
\* goes by is not ahead.
LEMMA RevokedWasExpired ==
    ASSUME CleanupInv, [CleanupNext]_cleanupVars, NEW u \in Usernames, NEW k \in KeyIDs,
           KeyAt(u, k) # None, KeyAt(u, k)' = None, events' = events
    PROVE  Expired(u, k)
  <1> USE DEF CleanupInv
  <1>1. events \in Nat
    BY CleanupAssumption DEF CleanupAssumption, CleanupTypeOK
  <1>2. ~UNCHANGED vars
    BY SameUsers DEF vars
  <1>3. ~OtherRequest
    <2>1. ~Event
      BY <1>1 DEF Event
    <2> QED BY <2>1 DEF OtherRequest
  <1>4. ASSUME NEW l \in KeyIDs, NEW prefix \in Prefixes, NEW g \in KeyScopes,
               FinishIssue(l, prefix, g)
        PROVE  FALSE
    <2>1. ASSUME NEW v \in Usernames, NEW t \in Optional(Times), <<prefix, l>> \in RawKeys,
                 CreateKey(v, l, <<prefix, l>>, t, g)
          PROVE  FALSE
      BY <2>1, KeyIssued DEF CleanupTypeOK
    <2> QED BY <1>2, <1>4, <2>1, Issued
  <1>5. DropKey
    BY <1>2, <1>3, <1>4 DEF CleanupNext, Background, Others, BeginPass, Quit, Cancelled,
       ListUsers, ListKeys, KeepKey, BackendFails, Stop, Tick, CheckIssue, cleanupVars
  <1>6. PICK v \in Usernames, l \in KeyIDs, t \in Optional(Times) :
            v = Head(userPage) /\ l = Head(keyPage).id /\ t = Head(keyPage).expiresAt
    BY <1>5, FirstUser, FirstItem DEF DropKey
  <1>7. RevokeKey(v, l)
    BY <1>2, <1>5, <1>6 DEF DropKey
  <1>8. u = v /\ k = l
    BY <1>7, KeyRevoked DEF CleanupTypeOK
  <1>9. KeyAt(u, k).expiresAt = t
    BY <1>5, <1>6, <1>8, FirstItem DEF DropKey, IssuedInv
  <1>10. ~Valid(t, Now(t))
    BY <1>5, <1>6 DEF DropKey
  <1>11. t # None /\ t \in Nat /\ clock \in Nat /\ (passNow # None => passNow \in Nat)
    BY <1>10, CleanupAssumption DEF CleanupAssumption, CleanupTypeOK, Optional, Valid
  <1>12. t <= clock
    BY <1>10, <1>11 DEF Valid, Now, ClockInv
  <1> QED BY <1>9, <1>11, <1>12 DEF Expired

\* The background process never revokes a key that is still valid.
THEOREM OnlyExpiredAreRevoked == CleanupSpec => RevokesOnlyExpired
  <1>1. CleanupInv /\ [CleanupNext]_cleanupVars =>
            [\A u \in Usernames, k \in KeyIDs :
                 KeyAt(u, k) # None /\ KeyAt(u, k)' = None /\ events' = events
                     => Expired(u, k)]_cleanupVars
    BY RevokedWasExpired
  <1> QED BY <1>1, CleanupSafe, PTL DEF CleanupSpec, RevokesOnlyExpired

=============================================================================
