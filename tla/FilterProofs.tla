----------------------------- MODULE FilterProofs -----------------------------
(* Lemmas about finite orders and about sequences that lose elements, for    *)
(* the proofs about the components that queue in sequences.                  *)
EXTENDS Filter, FiniteSetTheorems, FunctionTheorems, SequenceTheorems,
        WellFoundedInduction, TLAPS

-----------------------------------------------------------------------------
(* First elements.                                                           *)

(* A finite set that is not empty has a first element in any total order, or *)
(* in one in which several are equal: the down-sets of its elements are      *)
(* finite, so one of them has none inside it.                                *)
LEMMA FirstExists ==
  ASSUME NEW D, IsFiniteSet(D), D # {}, NEW R,
         \A i, j \in D : <<i, j>> \in R \/ <<j, i>> \in R,
         \A i, j, k \in D : <<i, j>> \in R /\ <<j, k>> \in R => <<i, k>> \in R
  PROVE  \E i \in D : \A j \in D : <<i, j>> \in R
<1> DEFINE Below(i) == {j \in D : <<i, j>> \notin R}
           All == {Below(i) : i \in D}
<1>1. All \subseteq FiniteSubsetsOf(D) /\ All # {}
  <2>1. ASSUME NEW i \in D PROVE Below(i) \in FiniteSubsetsOf(D)
    <3>1. Below(i) \in SUBSET D
      OBVIOUS
    <3> QED
      BY <3>1, FS_Subset DEF FiniteSubsetsOf
  <2>2. PICK i \in D : TRUE
    OBVIOUS
  <2>3. Below(i) \in All
    OBVIOUS
  <2> HIDE DEF Below
  <2> QED
    BY <2>1, <2>3
<1>2. IsWellFoundedOn(StrictSubsetOrdering(D), FiniteSubsetsOf(D))
  BY FS_StrictSubsetOrderingWellFounded
<1>3. PICK B \in All : \A C \in All : ~ (<<C, B>> \in StrictSubsetOrdering(D))
  <2> HIDE DEF All
  <2> QED
    BY <1>1, <1>2, WFMin
<1>4. PICK i \in D : B = Below(i)
  BY <1>3
<1>5. ASSUME NEW j \in D, <<i, j>> \notin R PROVE FALSE
  <2>1. <<j, i>> \in R /\ <<j, j>> \in R
    BY <1>5
  <2>2. Below(j) \subseteq Below(i) /\ j \in Below(i) /\ j \notin Below(j)
    BY <1>5, <2>1
  <2>3. <<Below(j), Below(i)>> \in StrictSubsetOrdering(D)
    BY <2>2 DEF StrictSubsetOrdering
  <2> QED
    BY <1>3, <1>4, <2>3
<1> QED
  BY <1>5

(* In particular a finite set of integers has a least element.               *)
LEMMA LeastExists ==
  ASSUME NEW D, IsFiniteSet(D), D # {}, NEW f \in [D -> Int]
  PROVE  \E i \in D : \A j \in D : f[i] <= f[j]
<1> DEFINE R == {p \in D \X D : f[p[1]] <= f[p[2]]}
<1>1. \A i, j \in D : <<i, j>> \in R <=> f[i] <= f[j]
  OBVIOUS
<1>2. \A i \in D : f[i] \in Int
  OBVIOUS
<1> HIDE DEF R
<1>3. ASSUME NEW i \in D, NEW j \in D PROVE <<i, j>> \in R \/ <<j, i>> \in R
  <2>1. f[i] <= f[j] \/ f[j] <= f[i]
    BY <1>2
  <2> QED
    BY <1>1, <2>1
<1>4. ASSUME NEW i \in D, NEW j \in D, NEW k \in D, <<i, j>> \in R, <<j, k>> \in R
      PROVE  <<i, k>> \in R
  <2>1. f[i] <= f[j] /\ f[j] <= f[k]
    BY <1>1, <1>4
  <2>2. f[i] <= f[k]
    BY <1>2, <2>1
  <2> QED
    BY <1>1, <2>2
<1>5. \E i \in D : \A j \in D : <<i, j>> \in R
  BY <1>3, <1>4, FirstExists
<1> QED
  BY <1>1, <1>5

-----------------------------------------------------------------------------
(* Sequences that lose elements.                                             *)

\* e places the elements of w in s, in the order they have there.
Embeds(e, w, s) ==
  /\ e \in [DOMAIN w -> DOMAIN s]
  /\ \A i, j \in DOMAIN w : i < j => e[i] < e[j]
  /\ \A i \in DOMAIN w : w[i] = s[e[i]]

\* w is what is left of s after some of its elements have gone.
Thins(w, s) == \E e : Embeds(e, w, s)

(* Indices by rank: one for each number up to how many there are, in order.  *)
LEMMA RankFacts ==
  ASSUME NEW n \in Nat, NEW K \in SUBSET (1 .. n)
  PROVE  /\ IsFiniteSet(K) /\ Cardinality(K) \in Nat
         /\ \A i, k \in K : i < k => Rank(K, i) < Rank(K, k)
         /\ \A i \in K : Rank(K, i) \in 1 .. Cardinality(K)
         /\ \A j \in 1 .. Cardinality(K) : \E i \in K : Rank(K, i) = j
<1>1. IsFiniteSet(K) /\ Cardinality(K) \in Nat /\ K \subseteq Int
  <2>1. 1 \in Int /\ n \in Int
    OBVIOUS
  <2>2. IsFiniteSet(1 .. n)
    BY <2>1, FS_Interval
  <2>3. IsFiniteSet(K)
    BY <2>2, FS_Subset
  <2>4. Cardinality(K) \in Nat
    BY <2>3, FS_CardinalityType
  <2>5. K \subseteq Int
    OBVIOUS
  <2> QED
    BY <2>3, <2>4, <2>5
<1>2. ASSUME NEW i \in K
      PROVE  /\ IsFiniteSet({k \in K : k <= i})
             /\ Rank(K, i) \in 1 .. Cardinality(K)
  <2> DEFINE U == {k \in K : k <= i}
  <2>1. IsFiniteSet(U) /\ Cardinality(U) <= Cardinality(K) /\ Cardinality(U) \in Nat
    BY <1>1, FS_Subset, FS_CardinalityType
  <2>2. i \in U
    OBVIOUS
  <2>3. Cardinality(U) # 0
    BY <2>1, <2>2, FS_EmptySet
  <2> QED
    BY <1>1, <2>1, <2>3 DEF Rank
<1>3. ASSUME NEW i \in K, NEW k \in K, i < k
      PROVE  Rank(K, i) < Rank(K, k)
  <2> DEFINE U == {l \in K : l <= i}
             V == {l \in K : l <= k}
  <2>1. IsFiniteSet(V)
    BY <1>2
  <2>2. U \in SUBSET V /\ k \in V /\ k \notin U
    <3>1. i \in Int /\ k \in Int /\ k <= k /\ ~ (k <= i)
      BY <1>1, <1>3
    <3>2. \A l \in K : l <= i => l <= k
      BY <1>1, <1>3
    <3> QED
      BY <3>1, <3>2
  <2>3. Cardinality(U) <= Cardinality(V) /\ Cardinality(U) # Cardinality(V)
    BY <2>1, <2>2, FS_Subset
  <2>4. Cardinality(U) \in Nat /\ Cardinality(V) \in Nat
    BY <1>2, FS_CardinalityType
  <2> QED
    BY <2>3, <2>4 DEF Rank
<1>4. ASSUME NEW j \in 1 .. Cardinality(K) PROVE \E i \in K : Rank(K, i) = j
  <2> DEFINE f == [i \in K |-> Rank(K, i)]
             T == 1 .. Cardinality(K)
  <2>1. f \in [K -> T]
    BY <1>2
  <2>2. \A a, b \in K : f[a] = f[b] => a = b
    <3>1. \A a, b \in K : f[a] = f[b] => ~ (a < b) /\ ~ (b < a)
      <4>1. ASSUME NEW a \in K PROVE Rank(K, a) \in Nat /\ a \in Int
        <5>1. Rank(K, a) \in 1 .. Cardinality(K)
          BY <1>2
        <5> QED
          BY <1>1, <5>1
      <4> QED
        BY <1>3, <4>1
    <3> QED
      BY <3>1
  <2>3. f \in Injection(K, T)
    BY <2>1, <2>2, Fun_IsInj
  <2>4. IsFiniteSet(T) /\ Cardinality(T) = Cardinality(K)
    BY <1>1, FS_Interval
  <2>5. f \in Surjection(K, T)
    BY <2>3, <2>4, FS_Injection
  <2> QED
    BY <2>5 DEF Surjection
<1> QED
  BY <1>1, <1>2, <1>3, <1>4

(* What Without leaves: the elements not in R, once for each time they are   *)
(* in s, in their order.                                                     *)
LEMMA WithoutFacts ==
  ASSUME NEW X, NEW s \in Seq(X), NEW R
  PROVE  /\ Without(s, R) \in Seq(X)
         /\ ToSet(Without(s, R)) = ToSet(s) \ R
         /\ Thins(Without(s, R), s)
<1> DEFINE K == Kept(s, R)
           N == 1 .. Cardinality(K)
           e == [j \in N |-> CHOOSE i \in K : Rank(K, i) = j]
           w == Without(s, R)
<1>1. DOMAIN s = 1 .. Len(s) /\ Len(s) \in Nat /\ \A i \in DOMAIN s : s[i] \in X
  BY LenProperties, ElementOfSeq
<1>2. K \in SUBSET (1 .. Len(s))
  BY <1>1 DEF Kept
<1>3. Cardinality(K) \in Nat
  BY <1>1, <1>2, RankFacts
<1>4. ASSUME NEW j \in N PROVE e[j] \in K /\ Rank(K, e[j]) = j
  <2>1. \E i \in K : Rank(K, i) = j
    BY <1>1, <1>2, RankFacts
  <2> HIDE DEF K
  <2> QED
    BY <2>1
<1>5. w = [j \in N |-> s[e[j]]]
  BY DEF Without
<1>6. K \subseteq DOMAIN s /\ \A i \in K : s[i] \notin R
  BY DEF Kept
<1>7. \A i \in DOMAIN s : s[i] \notin R => i \in K
  BY DEF Kept
<1>8. \A i \in K : Rank(K, i) \in N
  BY <1>1, <1>2, RankFacts
<1>9. \A i, k \in K : Rank(K, i) < Rank(K, k) => i < k
  <2>1. \A i, k \in K : i < k => Rank(K, i) < Rank(K, k)
    BY <1>1, <1>2, RankFacts
  <2>2. \A i \in K : i \in Nat /\ Rank(K, i) \in Nat
    BY <1>2, <1>3, <1>8
  <2> HIDE DEF K
  <2> QED
    BY <2>1, <2>2
<1> HIDE DEF K, e, w
<1>10. w \in Seq(X)
  <2>1. w \in [N -> X]
    BY <1>1, <1>4, <1>5, <1>6
  <2> QED
    BY <1>3, <2>1, SeqDef
<1>11. DOMAIN w = N /\ \A j \in N : w[j] = s[e[j]]
  BY <1>5
<1>12. Embeds(e, w, s)
  <2>1. e \in [N -> DOMAIN s]
    BY <1>4, <1>6 DEF e
  <2>2. \A i, j \in N : i < j => e[i] < e[j]
    BY <1>4, <1>9
  <2> QED
    BY <1>11, <2>1, <2>2 DEF Embeds
<1>13. ToSet(w) = ToSet(s) \ R
  <2>1. ASSUME NEW i \in DOMAIN s, s[i] \notin R PROVE \E j \in N : w[j] = s[i]
    <3>1. i \in K /\ Rank(K, i) \in N
      BY <1>7, <1>8, <2>1
    <3>2. e[Rank(K, i)] \in K /\ Rank(K, e[Rank(K, i)]) = Rank(K, i)
      BY <1>4, <3>1
    <3>3. e[Rank(K, i)] = i
      <4>1. \A a, b \in K : a < b => Rank(K, a) < Rank(K, b)
        BY <1>1, <1>2, RankFacts
      <4>2. e[Rank(K, i)] \in Nat /\ i \in Nat /\ Rank(K, i) \in Nat
        BY <1>2, <1>3, <3>1, <3>2
      <4> QED
        BY <3>1, <3>2, <4>1, <4>2
    <3> QED
      BY <1>11, <3>1, <3>3
  <2>2. \A j \in N : w[j] \in ToSet(s) /\ w[j] \notin R
    BY <1>4, <1>6, <1>11 DEF ToSet
  <2>3. ASSUME NEW x \in ToSet(s) \ R PROVE x \in ToSet(w)
    <3>1. PICK i \in DOMAIN s : x = s[i]
      BY DEF ToSet
    <3>2. PICK j \in N : w[j] = s[i]
      BY <2>1, <3>1
    <3> QED
      BY <1>11, <3>1, <3>2 DEF ToSet
  <2>4. ASSUME NEW x \in ToSet(w) PROVE x \in ToSet(s) \ R
    <3>1. PICK j \in N : x = w[j]
      BY <1>11 DEF ToSet
    <3> QED
      BY <2>2, <3>1
  <2> QED
    BY <2>3, <2>4
<1> QED
  BY <1>10, <1>12, <1>13 DEF Thins, w

(* Appending adds one element, at the end.                                   *)
LEMMA AppendFacts ==
  ASSUME NEW X, NEW s \in Seq(X), NEW x \in X
  PROVE  /\ Append(s, x) \in Seq(X)
         /\ DOMAIN Append(s, x) = DOMAIN s \union {Len(s) + 1}
         /\ Append(s, x)[Len(s) + 1] = x
         /\ \A i \in DOMAIN s : Append(s, x)[i] = s[i] /\ i < Len(s) + 1
         /\ ToSet(Append(s, x)) = ToSet(s) \union {x}
<1>1. DOMAIN s = 1 .. Len(s) /\ Len(s) \in Nat
  BY LenProperties
<1>2. /\ Append(s, x) \in Seq(X) /\ Len(Append(s, x)) = Len(s) + 1
      /\ \A i \in 1 .. Len(s) : Append(s, x)[i] = s[i]
      /\ Append(s, x)[Len(s) + 1] = x
  BY AppendProperties
<1>3. DOMAIN Append(s, x) = 1 .. Len(s) + 1
  BY <1>2, LenProperties
<1>4. 1 .. Len(s) + 1 = 1 .. Len(s) \union {Len(s) + 1}
  BY <1>1
<1> DEFINE t == Append(s, x)
<1> HIDE DEF t
<1>5. DOMAIN t = DOMAIN s \union {Len(s) + 1}
  BY <1>1, <1>3, <1>4 DEF t
<1>6. t[Len(s) + 1] = x /\ \A i \in DOMAIN s : t[i] = s[i]
  BY <1>1, <1>2 DEF t
<1>7. \A i \in DOMAIN s : i < Len(s) + 1
  BY <1>1
<1>8. ToSet(t) = ToSet(s) \union {x}
  BY <1>5, <1>6 DEF ToSet
<1> QED
  BY <1>2, <1>5, <1>6, <1>7, <1>8 DEF t

(* Cutting a sequence after n elements: what each part has where.            *)
LEMMA CutFacts ==
  ASSUME NEW X, NEW s \in Seq(X), NEW n \in 0 .. Len(s)
  PROVE  /\ SubSeq(s, 1, n) \in Seq(X) /\ DOMAIN SubSeq(s, 1, n) = 1 .. n
         /\ \A i \in 1 .. n : SubSeq(s, 1, n)[i] = s[i]
         /\ SubSeq(s, n + 1, Len(s)) \in Seq(X)
         /\ Len(SubSeq(s, n + 1, Len(s))) = Len(s) - n
         /\ DOMAIN SubSeq(s, n + 1, Len(s)) = 1 .. Len(s) - n
         /\ \A i \in 1 .. Len(s) - n : SubSeq(s, n + 1, Len(s))[i] = s[n + i]
<1>1. DOMAIN s = 1 .. Len(s) /\ Len(s) \in Nat /\ \A i \in 1 .. Len(s) : s[i] \in X
  BY LenProperties, ElementOfSeq
<1>2. 1 \in Int /\ n \in Int /\ n + 1 \in Int /\ Len(s) \in Int /\ n \in Nat
  BY <1>1
<1>3. /\ SubSeq(s, 1, n) \in Seq(X)
      /\ Len(SubSeq(s, 1, n)) = n
      /\ \A i \in 1 .. n : SubSeq(s, 1, n)[i] = s[i]
  <2>1. \A i \in 1 .. n : s[i] \in X
    BY <1>1
  <2>2. /\ SubSeq(s, 1, n) \in Seq(X)
        /\ Len(SubSeq(s, 1, n)) = IF 1 <= n THEN n - 1 + 1 ELSE 0
        /\ \A i \in 1 .. n - 1 + 1 : SubSeq(s, 1, n)[i] = s[1 + i - 1]
    BY <1>2, <2>1, SubSeqProperties
  <2>3. n - 1 + 1 = n /\ (IF 1 <= n THEN n - 1 + 1 ELSE 0) = n
    BY <1>2
  <2>4. \A i \in 1 .. n : 1 + i - 1 = i
    BY <1>2
  <2> QED
    BY <2>2, <2>3, <2>4
<1>4. /\ SubSeq(s, n + 1, Len(s)) \in Seq(X)
      /\ Len(SubSeq(s, n + 1, Len(s))) = Len(s) - n
      /\ \A i \in 1 .. Len(s) - n : SubSeq(s, n + 1, Len(s))[i] = s[n + i]
  <2>1. \A i \in n + 1 .. Len(s) : s[i] \in X
    BY <1>1, <1>2
  <2>2. /\ SubSeq(s, n + 1, Len(s)) \in Seq(X)
        /\ Len(SubSeq(s, n + 1, Len(s)))
             = IF n + 1 <= Len(s) THEN Len(s) - (n + 1) + 1 ELSE 0
        /\ \A i \in 1 .. Len(s) - (n + 1) + 1 :
             SubSeq(s, n + 1, Len(s))[i] = s[n + 1 + i - 1]
    BY <1>2, <2>1, SubSeqProperties
  <2>3. /\ Len(s) - (n + 1) + 1 = Len(s) - n
        /\ (IF n + 1 <= Len(s) THEN Len(s) - (n + 1) + 1 ELSE 0) = Len(s) - n
    <3>1. n <= Len(s) /\ n \in Int /\ Len(s) \in Int
      BY <1>2
    <3>2. CASE n + 1 <= Len(s)
      BY <3>1, <3>2
    <3>3. CASE n = Len(s)
      BY <3>1, <3>3
    <3> QED
      BY <3>1, <3>2, <3>3
  <2>4. \A i \in 1 .. Len(s) - n : n + 1 + i - 1 = n + i
    BY <1>2
  <2> QED
    BY <2>2, <2>3, <2>4
<1>5. DOMAIN SubSeq(s, 1, n) = 1 .. n
  BY <1>3, LenProperties
<1>6. DOMAIN SubSeq(s, n + 1, Len(s)) = 1 .. Len(s) - n
  BY <1>4, LenProperties
<1> QED
  BY <1>3, <1>4, <1>5, <1>6

(* What is left after n elements were taken from the front.                  *)
LEMMA CutThins ==
  ASSUME NEW X, NEW s \in Seq(X), NEW n \in 0 .. Len(s)
  PROVE  Thins(SubSeq(s, n + 1, Len(s)), s)
<1> DEFINE w == SubSeq(s, n + 1, Len(s))
           e == [i \in 1 .. Len(s) - n |-> n + i]
<1>1. DOMAIN s = 1 .. Len(s) /\ Len(s) \in Nat
  BY LenProperties
<1>2. DOMAIN w = 1 .. Len(s) - n /\ \A i \in 1 .. Len(s) - n : w[i] = s[n + i]
  BY CutFacts
<1>3. e \in [1 .. Len(s) - n -> 1 .. Len(s)]
  BY <1>1
<1>4. \A i, j \in 1 .. Len(s) - n : i < j => e[i] < e[j]
  BY <1>1
<1> HIDE DEF w
<1>5. \A i \in DOMAIN w : w[i] = s[e[i]]
  BY <1>2
<1> HIDE DEF e
<1>6. Embeds(e, w, s)
  BY <1>1, <1>2, <1>3, <1>4, <1>5 DEF Embeds
<1> QED
  BY <1>6 DEF Thins, w

(* The elements of a sequence are finitely many.                             *)
LEMMA ToSetFinite ==
  ASSUME NEW X, NEW s \in Seq(X)
  PROVE  IsFiniteSet(ToSet(s))
<1>1. DOMAIN s = 1 .. Len(s) /\ Len(s) \in Nat
  BY LenProperties
<1>2. IsFiniteSet(DOMAIN s)
  <2>1. 1 \in Int /\ Len(s) \in Int
    BY <1>1
  <2> QED
    BY <1>1, <2>1, FS_Interval
<1> DEFINE f == [i \in DOMAIN s |-> s[i]]
<1>3. f \in Surjection(DOMAIN s, ToSet(s))
  BY DEF Surjection, ToSet
<1> QED
  BY <1>2, <1>3, FS_Surjection

(* Removing the element at one place keeps the others, in their order.       *)
LEMMA RemoveAtFacts ==
  ASSUME NEW X, NEW s \in Seq(X), NEW p \in DOMAIN s
  PROVE  /\ RemoveAt(s, p) \in Seq(X) /\ Thins(RemoveAt(s, p), s)
         /\ Len(RemoveAt(s, p)) = Len(s) - 1
         /\ \A j \in DOMAIN RemoveAt(s, p) :
              \E i \in DOMAIN s \ {p} : RemoveAt(s, p)[j] = s[i]
         /\ \A i \in DOMAIN s \ {p} :
              \E j \in DOMAIN RemoveAt(s, p) : RemoveAt(s, p)[j] = s[i]
<1> DEFINE a == SubSeq(s, 1, p - 1)
           b == SubSeq(s, p + 1, Len(s))
           w == RemoveAt(s, p)
           n == Len(s) - 1
           e == [j \in 1 .. n |-> IF j < p THEN j ELSE j + 1]
<1>1. DOMAIN s = 1 .. Len(s) /\ Len(s) \in Nat
  BY LenProperties
<1>2. /\ p \in 1 .. Len(s) /\ p - 1 \in 0 .. Len(s) /\ p \in 0 .. Len(s)
      /\ n \in Nat /\ p - 1 \in Nat
  BY <1>1
<1>3. /\ a \in Seq(X)
      /\ DOMAIN a = 1 .. p - 1
      /\ \A i \in 1 .. p - 1 : a[i] = s[i]
  BY <1>2, CutFacts
<1>4. /\ b \in Seq(X)
      /\ Len(b) = Len(s) - p
      /\ \A i \in 1 .. Len(s) - p : b[i] = s[p + i]
  BY <1>2, CutFacts
<1> HIDE DEF a, b
<1>5. Len(a) = p - 1
  <2>1. DOMAIN a = 1 .. Len(a) /\ Len(a) \in Nat
    BY <1>3, LenProperties
  <2>2. 1 .. p - 1 = 1 .. Len(a)
    BY <1>3, <2>1
  <2> QED
    BY <1>2, <2>1, <2>2
<1>6. w = a \o b
  BY DEF RemoveAt, a, b
<1> HIDE DEF w
<1>7. /\ w \in Seq(X) /\ Len(w) = n
      /\ \A j \in 1 .. n : w[j] = IF j <= p - 1 THEN a[j] ELSE b[j - (p - 1)]
  <2>1. /\ a \o b \in Seq(X)
        /\ Len(a \o b) = Len(a) + Len(b)
        /\ \A i \in 1 .. Len(a) + Len(b) :
             (a \o b)[i] = IF i <= Len(a) THEN a[i] ELSE b[i - Len(a)]
    BY <1>3, <1>4, ConcatProperties
  <2>2. Len(a) + Len(b) = n
    BY <1>1, <1>2, <1>4, <1>5
  <2> QED
    BY <1>5, <1>6, <2>1, <2>2
<1>8. DOMAIN w = 1 .. n
  BY <1>7, LenProperties
<1>9. ASSUME NEW j \in 1 .. n
      PROVE  /\ e[j] \in DOMAIN s \ {p} /\ w[j] = s[e[j]]
  <2>1. j \in Int /\ p \in Int /\ Len(s) \in Int /\ n = Len(s) - 1
    BY <1>1, <1>2
  <2>2. CASE j < p
    <3>1. j \in 1 .. p - 1 /\ j \in 1 .. Len(s) /\ j # p /\ j <= p - 1
      BY <1>2, <2>1, <2>2
    <3>2. e[j] = j /\ w[j] = a[j]
      BY <1>7, <2>2, <3>1
    <3> QED
      BY <1>1, <1>3, <3>1, <3>2
  <2>3. CASE ~ (j < p)
    <3>1. /\ j - (p - 1) \in 1 .. Len(s) - p /\ p + (j - (p - 1)) = j + 1
          /\ j + 1 \in 1 .. Len(s) /\ j + 1 # p /\ ~ (j <= p - 1)
      BY <1>2, <2>1, <2>3
    <3>2. e[j] = j + 1 /\ w[j] = b[j - (p - 1)]
      BY <1>7, <2>3, <3>1
    <3>3. b[j - (p - 1)] = s[j + 1]
      BY <1>4, <3>1
    <3> QED
      BY <1>1, <3>1, <3>2, <3>3
  <2> QED
    BY <2>2, <2>3
<1>10. \A i, j \in 1 .. n : i < j => e[i] < e[j]
  BY <1>2
<1>11. ASSUME NEW i \in DOMAIN s \ {p} PROVE \E j \in 1 .. n : e[j] = i
  <2>1. i \in 1 .. Len(s) /\ i # p /\ i \in Int /\ p \in Int /\ n = Len(s) - 1
    BY <1>1, <1>2
  <2>2. CASE i < p
    <3>1. i \in 1 .. n
      BY <1>1, <1>2, <2>1, <2>2
    <3>2. e[i] = i
      BY <2>2, <3>1
    <3> QED
      BY <3>1, <3>2
  <2>3. CASE ~ (i < p)
    <3>1. i - 1 \in 1 .. n /\ ~ (i - 1 < p) /\ i - 1 + 1 = i
      BY <1>1, <1>2, <2>1, <2>3
    <3>2. e[i - 1] = i
      BY <3>1
    <3> QED
      BY <3>1, <3>2
  <2> QED
    BY <2>2, <2>3
<1>12. e \in [1 .. n -> DOMAIN s]
  <2>1. \A j \in 1 .. n : e[j] \in DOMAIN s
    BY <1>9
  <2> QED
    BY <2>1
<1> HIDE DEF e, n
<1>13. Embeds(e, w, s)
  BY <1>8, <1>9, <1>10, <1>12 DEF Embeds
<1>14. \A j \in DOMAIN w : \E i \in DOMAIN s \ {p} : w[j] = s[i]
  BY <1>8, <1>9
<1>15. \A i \in DOMAIN s \ {p} : \E j \in DOMAIN w : w[j] = s[i]
  BY <1>8, <1>9, <1>11
<1> QED
  BY <1>7, <1>13, <1>14, <1>15 DEF w, n, Thins

-----------------------------------------------------------------------------
(* Sizes.                                                                    *)

LEMMA AddSize ==
  ASSUME NEW A, IsFiniteSet(A), NEW r, r \notin A
  PROVE  /\ IsFiniteSet(A \union {r})
         /\ Cardinality(A \union {r}) = Cardinality(A) + 1
         /\ Cardinality(A) \in Nat
BY FS_AddElement, FS_CardinalityType

LEMMA LessSize ==
  ASSUME NEW A, IsFiniteSet(A), NEW G \in SUBSET A
  PROVE  /\ IsFiniteSet(A \ G) /\ IsFiniteSet(G)
         /\ Cardinality(A \ G) = Cardinality(A) - Cardinality(G)
         /\ Cardinality(A) \in Nat /\ Cardinality(G) \in Nat
<1>1. A \intersect G = G /\ A \ G \in SUBSET A
  OBVIOUS
<1>2. IsFiniteSet(G) /\ IsFiniteSet(A \ G)
  BY <1>1, FS_Subset
<1>3. Cardinality(A \ G) = Cardinality(A) - Cardinality(A \intersect G)
  BY FS_Difference
<1>4. Cardinality(A) \in Nat /\ Cardinality(G) \in Nat
  BY <1>2, FS_CardinalityType
<1> QED
  BY <1>1, <1>2, <1>3, <1>4

(* Records with different identities are as many as their identities.        *)
LEMMA SameManyIds ==
  ASSUME NEW A, \A x, y \in A : x.id = y.id => x = y, IsFiniteSet({x.id : x \in A})
  PROVE  IsFiniteSet(A) /\ Cardinality(A) = Cardinality({x.id : x \in A})
<1> DEFINE f == [x \in A |-> x.id]
           I == {x.id : x \in A}
<1>1. f \in [A -> I] /\ \A r \in I : \E x \in A : f[x] = r
  OBVIOUS
<1>2. \A x, y \in A : f[x] = f[y] => x = y
  OBVIOUS
<1> HIDE DEF f
<1>3. f \in Bijection(A, I)
  BY <1>1, <1>2 DEF Bijection, Injection, Surjection, IsInjective
<1>4. ExistsBijection(I, A)
  BY <1>3, Fun_ExistsBijSymmetric DEF ExistsBijection
<1> QED
  BY <1>4, FS_Bijection

(* There are at most as many identities as records.                          *)
LEMMA FewerIds ==
  ASSUME NEW A, IsFiniteSet(A)
  PROVE  /\ IsFiniteSet({x.id : x \in A})
         /\ Cardinality({x.id : x \in A}) <= Cardinality(A)
<1> DEFINE f == [x \in A |-> x.id]
<1>1. f \in Surjection(A, {x.id : x \in A})
  BY DEF Surjection
<1> QED
  BY <1>1, FS_Surjection

===============================================================================
