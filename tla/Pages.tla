------------------------------- MODULE Pages -------------------------------
(***************************************************************************)
(* Lists as backends return them: sorted, and cut into pages by offset and *)
(* limit.  What is listed is a finite set of numbers, which stand for the  *)
(* strings the code sorts by.                                              *)
(***************************************************************************)
EXTENDS Naturals, Sequences, FiniteSets

\* How many elements come before x.
Rank(S, x) == Cardinality({y \in S : y < x})

Sorted(S) == [i \in 1..Cardinality(S) |-> CHOOSE x \in S : Rank(S, x) = i - 1]

\* An offset beyond the end gives an empty page.
Page(all, offset, limit) ==
    SubSeq(all, offset + 1,
           IF offset + limit < Len(all) THEN offset + limit ELSE Len(all))

=============================================================================
