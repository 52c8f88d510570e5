----------------------------- MODULE PageProofs -----------------------------
(***************************************************************************)
(* What a page of a sorted list contains, in terms of ranks: the number of *)
(* smaller elements.  Ranks say what additions and deletions by others do  *)
(* to a list that is read page by page.                                    *)
(***************************************************************************)
EXTENDS Pages, FiniteSetTheorems, TLAPS

LEMMA RankBounds ==
    ASSUME NEW S \in SUBSET Nat, IsFiniteSet(S), NEW x \in S
    PROVE  Rank(S, x) \in Nat /\ Rank(S, x) < Cardinality(S)
  <1> DEFINE B == {y \in S : y < x}
  <1>1. B \in SUBSET S /\ B # S
    OBVIOUS
  <1>2. IsFiniteSet(B) /\ Cardinality(B) <= Cardinality(S) /\ Cardinality(B) # Cardinality(S)
    BY <1>1, FS_Subset
  <1>3. Cardinality(B) \in Nat /\ Cardinality(S) \in Nat
    BY <1>2, FS_CardinalityType
  <1> QED BY <1>2, <1>3 DEF Rank

\* The rank of an element determines it.
LEMMA RankInjective ==
    ASSUME NEW S \in SUBSET Nat, IsFiniteSet(S), NEW x \in S, NEW y \in S,
           Rank(S, x) = Rank(S, y)
    PROVE  x = y
  <1>1. ASSUME NEW a \in S, NEW b \in S, a < b PROVE Rank(S, a) # Rank(S, b)
    <2> DEFINE A == {z \in S : z < a}
               B == {z \in S : z < b}
    <2>1. A \in SUBSET B /\ A # B /\ B \in SUBSET S
      <3>1. a \in Nat /\ b \in Nat /\ a \in B /\ a \notin A
        BY <1>1
      <3>2. \A z \in S : z \in Nat /\ (z < a => z < b)
        BY <1>1, <3>1
      <3> QED BY <3>1, <3>2
    <2>2. IsFiniteSet(B)
      BY <2>1, FS_Subset
    <2> QED BY <2>1, <2>2, FS_Subset DEF Rank
  <1>2. x < y \/ y < x \/ x = y
    OBVIOUS
  <1> QED BY <1>1, <1>2

\* Every number below the length of the list is the rank of an element.
LEMMA RankOnto ==
    ASSUME NEW S \in SUBSET Nat, IsFiniteSet(S), NEW i \in 0..(Cardinality(S) - 1)
    PROVE  \E x \in S : Rank(S, x) = i
  <1> DEFINE n == Cardinality(S)
             T == 0..(n - 1)
             f == [x \in S |-> Rank(S, x)]
  <1>1. n \in Nat
    BY FS_CardinalityType
  <1>2. IsFiniteSet(T) /\ Cardinality(T) = n
    BY <1>1, FS_Interval
  <1>3. f \in [S -> T]
    <2>1. ASSUME NEW x \in S PROVE Rank(S, x) \in T
      <3>1. Rank(S, x) \in Nat /\ Rank(S, x) < n
        BY RankBounds
      <3> QED BY <1>1, <3>1
    <2> QED BY <2>1
  <1>4. f \in Injection(S, T)
    <2>1. \A a, b \in S : Rank(S, a) = Rank(S, b) => a = b
      BY RankInjective, Zenon
    <2>2. \A a, b \in S : f[a] = f[b] => a = b
      BY <2>1
    <2> HIDE DEF f, T
    <2> QED BY <1>3, <2>2 DEF Injection, IsInjective
  <1>5. f \in Surjection(S, T)
    BY <1>2, <1>4, FS_Injection
  <1> QED BY <1>5 DEF Surjection

\* The list holds every element at its rank.
LEMMA SortedList ==
    ASSUME NEW S \in SUBSET Nat, IsFiniteSet(S)
    PROVE  /\ Cardinality(S) \in Nat
           /\ Sorted(S) \in Seq(S) /\ Len(Sorted(S)) = Cardinality(S)
           /\ \A i \in 1..Cardinality(S) : Rank(S, Sorted(S)[i]) = i - 1
           /\ \A x \in S : Sorted(S)[Rank(S, x) + 1] = x
  <1> DEFINE n == Cardinality(S)
  <1>1. n \in Nat
    BY FS_CardinalityType
  <1>2. ASSUME NEW i \in 1..n PROVE Sorted(S)[i] \in S /\ Rank(S, Sorted(S)[i]) = i - 1
    <2>1. i - 1 \in 0..(n - 1)
      BY <1>1
    <2>2. \E x \in S : Rank(S, x) = i - 1
      BY <2>1, RankOnto
    <2> QED BY <2>2 DEF Sorted
  <1>3. Sorted(S) \in [1..n -> S]
    BY <1>2 DEF Sorted
  <1>4. Sorted(S) \in Seq(S) /\ Len(Sorted(S)) = n
    BY <1>1, <1>3
  <1>5. ASSUME NEW x \in S PROVE Sorted(S)[Rank(S, x) + 1] = x
    <2>1. Rank(S, x) + 1 \in 1..n
      BY <1>1, RankBounds
    <2>2. Rank(S, Sorted(S)[Rank(S, x) + 1]) = Rank(S, x)
      BY <1>2, <2>1, RankBounds
    <2>3. Sorted(S)[Rank(S, x) + 1] \in S
      BY <1>2, <2>1
    <2>4. \A a, b \in S : Rank(S, a) = Rank(S, b) => a = b
      BY RankInjective, Zenon
    <2> QED BY <2>2, <2>3, <2>4, Zenon
  <1> QED BY <1>1, <1>2, <1>4, <1>5

\* What is left of a page once its first element is done.
LEMMA RestOfPage ==
    ASSUME NEW S, NEW page \in Seq(S), page # <<>>
    PROVE  /\ Head(page) = page[1] /\ Head(page) \in S
           /\ Tail(page) \in Seq(S) /\ Len(page) \in Nat \ {0}
           /\ Len(Tail(page)) = Len(page) - 1
           /\ \A i \in 1..Len(Tail(page)) : Tail(page)[i] = page[i + 1]
           /\ Tail(page) = <<>> <=> Len(page) = 1
  <1>1. Len(page) \in Nat \ {0} /\ Head(page) = page[1] /\ page[1] \in S
    OBVIOUS
  <1>2. Tail(page) \in Seq(S) /\ Len(Tail(page)) = Len(page) - 1
    OBVIOUS
  <1>3. \A i \in 1..Len(Tail(page)) : Tail(page)[i] = page[i + 1]
    OBVIOUS
  <1>4. Tail(page) = <<>> <=> Len(Tail(page)) = 0
    BY <1>2
  <1> QED BY <1>1, <1>2, <1>3, <1>4

\* The order of the elements is that of their ranks.
LEMMA RankOrder ==
    ASSUME NEW S \in SUBSET Nat, IsFiniteSet(S), NEW x \in S, NEW y \in S
    PROVE  x < y <=> Rank(S, x) < Rank(S, y)
  <1>1. ASSUME NEW a \in S, NEW b \in S, a < b PROVE Rank(S, a) < Rank(S, b)
    <2> DEFINE A == {z \in S : z < a}
               B == {z \in S : z < b}
    <2>1. A \in SUBSET B /\ A # B /\ B \in SUBSET S
      <3>1. a \in Nat /\ b \in Nat /\ a \in B /\ a \notin A
        BY <1>1
      <3>2. \A z \in S : z \in Nat /\ (z < a => z < b)
        BY <1>1, <3>1
      <3> QED BY <3>1, <3>2
    <2>2. IsFiniteSet(B)
      BY <2>1, FS_Subset
    <2>3. IsFiniteSet(A) /\ Cardinality(A) <= Cardinality(B) /\ Cardinality(A) # Cardinality(B)
      BY <2>1, <2>2, FS_Subset
    <2>4. Cardinality(A) \in Nat /\ Cardinality(B) \in Nat
      BY <2>2, <2>3, FS_CardinalityType
    <2> QED BY <2>3, <2>4 DEF Rank
  <1>2. Rank(S, x) \in Nat /\ Rank(S, y) \in Nat
    BY RankBounds
  <1>3. x < y \/ y < x \/ x = y
    OBVIOUS
  <1>4. x \in Nat /\ y \in Nat
    OBVIOUS
  <1>5. CASE x < y
    BY <1>1, <1>5
  <1>6. CASE y < x
    BY <1>1, <1>2, <1>4, <1>6
  <1>7. CASE x = y
    BY <1>2, <1>4, <1>7
  <1> QED BY <1>3, <1>5, <1>6, <1>7

\* A page that begins within the list is the section of the list from there.
LEMMA PageIsSection ==
    ASSUME NEW S \in SUBSET Nat, IsFiniteSet(S), NEW offset \in Nat, NEW limit \in Nat,
           offset <= Cardinality(S), NEW page, page = Page(Sorted(S), offset, limit)
    PROVE  /\ page \in Seq(S)
           /\ Len(page) = IF Cardinality(S) - offset < limit
                          THEN Cardinality(S) - offset ELSE limit
           /\ \A i \in 1..Len(page) :
                  /\ page[i] = Sorted(S)[offset + i] /\ page[i] \in S
                  /\ Rank(S, page[i]) = offset + i - 1
  <1> DEFINE n == Cardinality(S)
             m == IF offset + limit < n THEN offset + limit ELSE n
  <1>1. n \in Nat /\ Sorted(S) \in Seq(S) /\ Len(Sorted(S)) = n
    BY SortedList
  <1>2. page = SubSeq(Sorted(S), offset + 1, m)
    BY <1>1 DEF Page
  <1>3. m \in Nat /\ m <= n /\ offset <= m
        /\ m - offset = IF n - offset < limit THEN n - offset ELSE limit
    BY <1>1
  <1> HIDE DEF m
  <1>4. /\ page \in Seq(S) /\ Len(page) = m - offset
        /\ \A i \in 1..(m - offset) : page[i] = Sorted(S)[offset + i]
    <2>1. CASE offset + 1 <= m
      <3> DEFINE q == SubSeq(Sorted(S), offset + 1, m)
      <3>1. /\ q \in Seq(S) /\ Len(q) = m - offset
            /\ \A i \in 1..(m - offset) : q[i] = Sorted(S)[offset + i]
        BY <1>1, <1>3, <2>1
      <3> HIDE DEF q
      <3> QED BY <1>2, <3>1 DEF q
    <2>2. CASE offset = m
      <3>1. SubSeq(Sorted(S), m + 1, m) = <<>> /\ m - offset = 0
        BY <1>1, <1>3, <2>2
      <3>2. page = <<>>
        BY <1>2, <2>2, <3>1
      <3> QED BY <3>1, <3>2
    <2> QED BY <1>3, <2>1, <2>2
  <1>5. ASSUME NEW i \in 1..(m - offset)
        PROVE  Sorted(S)[offset + i] \in S /\ Rank(S, Sorted(S)[offset + i]) = offset + i - 1
    <2>1. offset + i \in 1..n
      BY <1>1, <1>3
    <2> QED BY <1>1, <2>1, SortedList
  <1> QED BY <1>3, <1>4, <1>5

\* A page holds elements of the list only, at most a page limit of them, and
\* every element from the offset on, unless the page is full.
LEMMA PageOfSorted ==
    ASSUME NEW S \in SUBSET Nat, IsFiniteSet(S), NEW offset \in Nat, NEW limit \in Nat \ {0}
    PROVE  LET page == Page(Sorted(S), offset, limit) IN
           /\ page \in Seq(S) /\ Len(page) \in Nat /\ Len(page) <= limit
           /\ \A x \in S :
                  Rank(S, x) >= offset =>
                      \/ \E i \in 1..Len(page) : page[i] = x
                      \/ /\ Rank(S, x) >= offset + Len(page)
                         /\ Len(page) = limit /\ offset + Len(page) < Cardinality(S)
  <1> DEFINE n == Cardinality(S)
             m == IF offset + limit < n THEN offset + limit ELSE n
             page == Page(Sorted(S), offset, limit)
  <1>1. n \in Nat /\ Sorted(S) \in Seq(S) /\ Len(Sorted(S)) = n
    BY SortedList
  <1>2. page = SubSeq(Sorted(S), offset + 1, m)
    BY <1>1 DEF Page
  <1>3. m \in Nat /\ m <= n /\ m <= offset + limit
    BY <1>1
  <1> HIDE DEF m
  <1>4. CASE offset + 1 <= m
    <2>1. /\ page \in Seq(S) /\ Len(page) = m - offset
          /\ \A i \in 1..(m - offset) : page[i] = Sorted(S)[offset + i]
      BY <1>1, <1>2, <1>3, <1>4
    <2>2. ASSUME NEW x \in S, Rank(S, x) >= offset
          PROVE  \/ \E i \in 1..Len(page) : page[i] = x
                 \/ /\ Rank(S, x) >= offset + Len(page)
                    /\ Len(page) = limit /\ offset + Len(page) < n
      <3>1. Rank(S, x) \in Nat /\ Rank(S, x) < n /\ Sorted(S)[Rank(S, x) + 1] = x
        BY RankBounds, SortedList
      <3>2. CASE Rank(S, x) < m
        <4>1. Rank(S, x) + 1 - offset \in 1..(m - offset)
          BY <1>3, <2>2, <3>1, <3>2
        <4>2. page[Rank(S, x) + 1 - offset] = x
          <5>1. offset + (Rank(S, x) + 1 - offset) = Rank(S, x) + 1
            BY <3>1
          <5> QED BY <2>1, <3>1, <4>1, <5>1
        <4> QED BY <2>1, <4>1, <4>2
      <3>3. CASE Rank(S, x) >= m
        BY <1>1, <1>3, <2>1, <3>1, <3>3 DEF m
      <3> QED BY <1>3, <3>1, <3>2, <3>3
    <2> QED BY <1>3, <1>4, <2>1, <2>2
  <1>5. CASE offset + 1 > m
    <2>1. page = <<>>
      BY <1>1, <1>2, <1>3, <1>5
    <2>2. n <= offset
      BY <1>1, <1>5 DEF m
    <2>3. \A x \in S : ~(Rank(S, x) >= offset)
      BY <1>1, <2>2, RankBounds
    <2> QED BY <2>1, <2>3
  <1> QED BY <1>3, <1>4, <1>5

\* An addition moves nothing forward in the list.
LEMMA RankAfterAdding ==
    ASSUME NEW S \in SUBSET Nat, IsFiniteSet(S), NEW y \in Nat, NEW x \in S
    PROVE  IsFiniteSet(S \cup {y}) /\ Rank(S \cup {y}, x) >= Rank(S, x)
  <1> DEFINE B == {z \in S : z < x}
             C == {z \in S \cup {y} : z < x}
  <1>1. IsFiniteSet(S \cup {y})
    BY FS_AddElement
  <1>2. B \in SUBSET C /\ C \in SUBSET (S \cup {y})
    OBVIOUS
  <1>3. IsFiniteSet(C)
    BY <1>1, <1>2, FS_Subset
  <1>4. IsFiniteSet(B) /\ Cardinality(B) <= Cardinality(C)
    BY <1>2, <1>3, FS_Subset
  <1>5. Cardinality(B) \in Nat /\ Cardinality(C) \in Nat
    BY <1>3, <1>4, FS_CardinalityType
  <1> QED BY <1>1, <1>4, <1>5 DEF Rank

\* A deletion moves what follows forward by one.
LEMMA RankAfterDeleting ==
    ASSUME NEW S \in SUBSET Nat, IsFiniteSet(S), NEW y, NEW x \in S
    PROVE  IsFiniteSet(S \ {y}) /\ Rank(S \ {y}, x) >= Rank(S, x) - 1
  <1> DEFINE B == {z \in S : z < x}
             C == {z \in S \ {y} : z < x}
  <1>1. IsFiniteSet(S \ {y})
    BY FS_RemoveElement
  <1>2. C = B \ {y} /\ B \in SUBSET S
    OBVIOUS
  <1>3. IsFiniteSet(B)
    BY <1>2, FS_Subset
  <1>4. Cardinality(C) = IF y \in B THEN Cardinality(B) - 1 ELSE Cardinality(B)
    BY <1>2, <1>3, FS_RemoveElement
  <1>5. Cardinality(B) \in Nat
    BY <1>3, FS_CardinalityType
  <1> QED BY <1>1, <1>4, <1>5 DEF Rank

=============================================================================
