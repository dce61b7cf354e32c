-------------------------------- MODULE Filter --------------------------------
(* A deque, heap or list rebuilt by a comprehension that leaves elements out, *)
(* [x for x in s if not ...]: what stays keeps its order.                     *)
EXTENDS Integers, FiniteSets, SequencesExt

\* The indices that stay when the elements in R leave s.
Kept(s, R) == {i \in DOMAIN s : s[i] \notin R}

\* How many elements of K are not beyond i.
Rank(K, i) == Cardinality({k \in K : k <= i})

Without(s, R) ==
  [j \in 1 .. Cardinality(Kept(s, R)) |->
     s[CHOOSE i \in Kept(s, R) : Rank(Kept(s, R), i) = j]]

===============================================================================
