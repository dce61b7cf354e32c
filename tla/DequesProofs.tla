---------------------------- MODULE DequesProofs ----------------------------
(* Proofs about the deque strategies, for every number of requests, clients, *)
(* models and every configuration.                                           *)
EXTENDS Deques, FilterProofs

USE OwnerAssumption, ConfigAssumption, MaxOutAssumption, DequesAssumption

-----------------------------------------------------------------------------
(* The inductive invariant.                                                  *)

HeldIn(w) == UNION {ToSet(w[k]) : k \in Key}

IdsIn(s) == Ids(ToSet(s))

\* The key a request belongs to goes by its identity.
KeyOfId(r) == IF Batching THEN ModelOf[r] ELSE ClientOf[r]

\* A deque of key k: its own requests, each once, none that was never retried
\* behind a younger one.
GoodDeque(k, s) ==
  /\ s \in Seq(InferenceRequest)
  /\ \A i \in DOMAIN s : KeyOfId(s[i].id) = k
  /\ \A i, j \in DOMAIN s : s[i].id = s[j].id => i = j
  /\ \A i, j \in DOMAIN s : i < j /\ ~ s[j].retried => s[i].age >= s[j].age

Distinct(A) == \A x, y \in A : x.id = y.id => x = y

GoodDeques(w) ==
  /\ w \in [Key -> Seq(InferenceRequest)]
  /\ \A k \in Key : GoodDeque(k, w[k])

\* Deques w, timers t and dict order o that belong together.
Sound(w, t, o) ==
  /\ GoodDeques(w)
  /\ o \in Seq(Key) /\ IsInjective(o)
  /\ t \in [Key -> {Off} \union 0 .. MaxWait]
  /\ \A k \in Key : w[k] # <<>> \/ t[k] # Off => k \in ToSet(o)
  /\ Batching => \A k \in Key : w[k] # <<>> => t[k] # Off
  /\ ~ Batching => \A k \in Key : t[k] = Off

\* What is handed out is finite, and each request once.
OutGood == out \subseteq InferenceRequest /\ IsFiniteSet(out) /\ Distinct(out)

CountGood == IsFiniteSet(Ids(Held)) /\ TotalMatches

IInv ==
  /\ strategy \in Strategies
  /\ Sound(waiting, timer, order)
  /\ OutGood
  /\ CountGood

-----------------------------------------------------------------------------
(* Requests.                                                                 *)

LEMMA Fields ==
  ASSUME NEW x \in InferenceRequest
  PROVE  /\ x.id \in Request /\ x.age \in Int /\ x.retried \in BOOLEAN
         /\ x.age >= 0
         /\ KeyOf(x) = KeyOfId(x.id) /\ KeyOf(x) \in Key
<1>1. x.id \in Request /\ x.age \in 0 .. MaxAge /\ x.retried \in BOOLEAN
  BY DEF InferenceRequest
<1>2. x.age \in Int /\ x.age >= 0
  BY <1>1
<1>3. ClientOf[x.id] \in Client /\ ModelOf[x.id] \in Model
  BY <1>1
<1> QED
  BY <1>1, <1>2, <1>3 DEF KeyOf, KeyOfId, Key

LEMMA FreshFacts ==
  ASSUME NEW r \in Request
  PROVE  /\ Fresh(r) \in InferenceRequest /\ Fresh(r).id = r
         /\ Fresh(r).age = 0
BY DEF Fresh, InferenceRequest

LEMMA RetriedFacts ==
  ASSUME NEW x \in InferenceRequest
  PROVE  /\ Retried(x) \in InferenceRequest /\ Retried(x).id = x.id
         /\ Retried(x).retried
BY DEF Retried, InferenceRequest

-----------------------------------------------------------------------------
(* What the operations make of one deque.                                    *)

\* u is what is left of s, with the same identities, ages and retries.
Follows(u, s) ==
  \E e : /\ e \in [DOMAIN u -> DOMAIN s]
         /\ \A i, j \in DOMAIN u : i < j => e[i] < e[j]
         /\ \A i \in DOMAIN u : /\ u[i].id = s[e[i]].id
                               /\ u[i].age = s[e[i]].age
                               /\ u[i].retried = s[e[i]].retried

LEMMA ThinsFollows ==
  ASSUME NEW u, NEW s, Thins(u, s)
  PROVE  Follows(u, s)
BY DEF Thins, Embeds, Follows

LEMMA Indices ==
  ASSUME NEW s \in Seq(InferenceRequest)
  PROVE  /\ DOMAIN s = 1 .. Len(s) /\ Len(s) \in Nat
         /\ \A i \in DOMAIN s : i \in Int /\ s[i] \in InferenceRequest
<1>1. DOMAIN s = 1 .. Len(s) /\ Len(s) \in Nat
  BY LenProperties
<1>2. \A i \in 1 .. Len(s) : s[i] \in InferenceRequest
  BY ElementOfSeq
<1>3. \A i \in 1 .. Len(s) : i \in Int
  BY <1>1
<1> QED
  BY <1>1, <1>2, <1>3

LEMMA GoodFollows ==
  ASSUME NEW k, NEW s, GoodDeque(k, s), NEW u \in Seq(InferenceRequest), Follows(u, s)
  PROVE  GoodDeque(k, u)
<1>1. PICK e : /\ e \in [DOMAIN u -> DOMAIN s]
               /\ \A i, j \in DOMAIN u : i < j => e[i] < e[j]
               /\ \A i \in DOMAIN u : /\ u[i].id = s[e[i]].id
                                     /\ u[i].age = s[e[i]].age
                                     /\ u[i].retried = s[e[i]].retried
  BY DEF Follows
<1>2. s \in Seq(InferenceRequest)
  BY DEF GoodDeque
<1>3. \A i \in DOMAIN u : i \in Int
  BY Indices
<1>4. \A i \in DOMAIN s : i \in Int
  BY <1>2, Indices
<1>5. ASSUME NEW i \in DOMAIN u, NEW j \in DOMAIN u, u[i].id = u[j].id PROVE i = j
  <2>1. s[e[i]].id = s[e[j]].id /\ e[i] \in DOMAIN s /\ e[j] \in DOMAIN s
    BY <1>1, <1>5
  <2>2. e[i] = e[j]
    BY <2>1 DEF GoodDeque
  <2>3. ~ (e[i] < e[j]) /\ ~ (e[j] < e[i])
    BY <1>4, <2>1, <2>2
  <2>4. ~ (i < j) /\ ~ (j < i)
    BY <1>1, <2>3
  <2> QED
    BY <1>3, <2>4
<1>6. ASSUME NEW i \in DOMAIN u, NEW j \in DOMAIN u, i < j, ~ u[j].retried
      PROVE  u[i].age >= u[j].age
  <2>1. e[i] \in DOMAIN s /\ e[j] \in DOMAIN s /\ e[i] < e[j] /\ ~ s[e[j]].retried
    BY <1>1, <1>6
  <2>2. s[e[i]].age >= s[e[j]].age
    BY <2>1 DEF GoodDeque
  <2> QED
    BY <1>1, <2>2
<1>7. \A i \in DOMAIN u : KeyOfId(u[i].id) = k
  BY <1>1 DEF GoodDeque
<1> QED
  BY <1>5, <1>6, <1>7 DEF GoodDeque

(* A newly received request, or a retried one, at the end.                   *)
LEMMA GoodAppend ==
  ASSUME NEW k, NEW s, GoodDeque(k, s), NEW x \in InferenceRequest,
         KeyOf(x) = k, x.retried \/ x.age = 0, x.id \notin IdsIn(s)
  PROVE  GoodDeque(k, Append(s, x))
<1> DEFINE u == Append(s, x)
           n == Len(s) + 1
<1>1. s \in Seq(InferenceRequest)
  BY DEF GoodDeque
<1>2. /\ u \in Seq(InferenceRequest)
      /\ DOMAIN u = DOMAIN s \union {n} /\ u[n] = x
      /\ \A i \in DOMAIN s : u[i] = s[i] /\ i < n
  BY <1>1, AppendFacts
<1>3. n \in Int /\ \A i \in DOMAIN s : i \in Int /\ s[i] \in InferenceRequest
  BY <1>1, Indices
<1>4. \A i \in DOMAIN s : s[i].id # x.id
  BY DEF IdsIn, Ids, ToSet
<1> HIDE DEF u, n
<1>5. \A i \in DOMAIN u : KeyOfId(u[i].id) = k
  BY <1>2, Fields DEF GoodDeque
<1>6. \A i, j \in DOMAIN u : u[i].id = u[j].id => i = j
  BY <1>2, <1>4 DEF GoodDeque
<1>7. ASSUME NEW i \in DOMAIN u, NEW j \in DOMAIN u, i < j, ~ u[j].retried
      PROVE  u[i].age >= u[j].age
  <2>1. i # n
    BY <1>2, <1>3, <1>7
  <2>2. i \in DOMAIN s /\ u[i] = s[i]
    BY <1>2, <2>1
  <2>3. CASE j = n
    <3>1. x.age = 0 /\ u[j].age = 0
      BY <1>2, <1>7, <2>3
    <3>2. s[i].age >= 0
      BY <1>3, <2>2, Fields
    <3> QED
      BY <2>2, <3>1, <3>2
  <2>4. CASE j # n
    BY <1>2, <1>7, <2>2, <2>4 DEF GoodDeque
  <2> QED
    BY <2>3, <2>4
<1> QED
  BY <1>2, <1>5, <1>6, <1>7 DEF GoodDeque, u

LEMMA GoodEmpty ==
  ASSUME NEW k
  PROVE  GoodDeque(k, <<>>)
BY DEF GoodDeque

(* Cutting a deque after n requests: those, and no others, leave.            *)
LEMMA Cut ==
  ASSUME NEW k, NEW s, GoodDeque(k, s), NEW n \in 0 .. Len(s)
  PROVE  /\ GoodDeque(k, SubSeq(s, n + 1, Len(s)))
         /\ Follows(SubSeq(s, n + 1, Len(s)), s)
         /\ IdsIn(SubSeq(s, n + 1, Len(s))) = IdsIn(s) \ IdsIn(SubSeq(s, 1, n))
         /\ IdsIn(SubSeq(s, 1, n)) \subseteq IdsIn(s)
         /\ ToSet(SubSeq(s, 1, n)) \subseteq ToSet(s)
         /\ IsFiniteSet(IdsIn(SubSeq(s, 1, n)))
         /\ Cardinality(IdsIn(SubSeq(s, 1, n))) = n
<1> DEFINE a == SubSeq(s, 1, n)
           b == SubSeq(s, n + 1, Len(s))
<1>1. s \in Seq(InferenceRequest)
  BY DEF GoodDeque
<1>2. DOMAIN s = 1 .. Len(s) /\ Len(s) \in Nat
  BY <1>1, Indices
<1>3. /\ DOMAIN a = 1 .. n /\ \A i \in 1 .. n : a[i] = s[i]
      /\ b \in Seq(InferenceRequest)
      /\ DOMAIN b = 1 .. Len(s) - n /\ \A i \in 1 .. Len(s) - n : b[i] = s[n + i]
  BY <1>1, CutFacts
<1>4. Follows(b, s)
  BY <1>1, CutThins, ThinsFollows
<1> HIDE DEF a, b
<1>5. /\ \A i \in 1 .. n : i \in DOMAIN s
      /\ \A i \in 1 .. Len(s) - n : n + i \in DOMAIN s
      /\ \A i \in 1 .. n, j \in 1 .. Len(s) - n : i # n + j
      /\ \A i \in DOMAIN s : i \in 1 .. n \/ (i - n \in 1 .. Len(s) - n /\ n + (i - n) = i)
  BY <1>2
<1>6. /\ IdsIn(s) = {s[i].id : i \in DOMAIN s}
      /\ IdsIn(a) = {s[i].id : i \in 1 .. n}
      /\ IdsIn(b) = {s[n + i].id : i \in 1 .. Len(s) - n}
  <2>1. \A u : IdsIn(u) = {u[i].id : i \in DOMAIN u}
    BY DEF IdsIn, Ids, ToSet
  <2>2. IdsIn(a) = {a[i].id : i \in 1 .. n}
    BY <1>3, <2>1
  <2>3. IdsIn(b) = {b[i].id : i \in 1 .. Len(s) - n}
    BY <1>3, <2>1
  <2>4. {a[i].id : i \in 1 .. n} = {s[i].id : i \in 1 .. n}
    BY <1>3
  <2>5. {b[i].id : i \in 1 .. Len(s) - n} = {s[n + i].id : i \in 1 .. Len(s) - n}
    BY <1>3
  <2> QED
    BY <2>1, <2>2, <2>3, <2>4, <2>5
<1>7. \A i, j \in DOMAIN s : s[i].id = s[j].id => i = j
  BY DEF GoodDeque
<1>8. IdsIn(b) = IdsIn(s) \ IdsIn(a)
  <2>1. ASSUME NEW r \in IdsIn(b) PROVE r \in IdsIn(s) \ IdsIn(a)
    <3>1. PICK j \in 1 .. Len(s) - n : r = s[n + j].id
      BY <1>6
    <3>2. n + j \in DOMAIN s
      BY <1>5
    <3>3. ASSUME NEW i \in 1 .. n, r = s[i].id PROVE FALSE
      BY <1>5, <1>7, <3>1, <3>2, <3>3
    <3> QED
      BY <1>6, <3>1, <3>2, <3>3
  <2>2. ASSUME NEW r \in IdsIn(s) \ IdsIn(a) PROVE r \in IdsIn(b)
    <3>1. PICK i \in DOMAIN s : r = s[i].id
      BY <1>6
    <3>2. i \notin 1 .. n
      BY <1>6, <3>1
    <3>3. i - n \in 1 .. Len(s) - n /\ n + (i - n) = i
      BY <1>5, <3>2
    <3> QED
      BY <1>6, <3>1, <3>3
  <2> QED
    BY <2>1, <2>2
<1>9. IdsIn(a) \subseteq IdsIn(s)
  BY <1>5, <1>6
<1>10. IsFiniteSet(IdsIn(a)) /\ Cardinality(IdsIn(a)) = n
  <2> DEFINE D == 1 .. n
             f == [i \in D |-> s[i].id]
  <2>1. n \in Nat /\ 1 \in Int /\ n \in Int
    BY <1>2
  <2>2. IsFiniteSet(D) /\ Cardinality(D) = n
    BY <2>1, FS_Interval
  <2>3. f \in [D -> IdsIn(a)]
    BY <1>6
  <2>4. \A i, j \in D : f[i] = f[j] => i = j
    BY <1>5, <1>7
  <2>5. \A r \in IdsIn(a) : \E i \in D : f[i] = r
    BY <1>6
  <2>6. f \in Bijection(D, IdsIn(a))
    <3> HIDE DEF f, D
    <3> QED
      BY <2>3, <2>4, <2>5 DEF Bijection, Injection, Surjection, IsInjective
  <2>7. ExistsBijection(D, IdsIn(a))
    BY <2>6 DEF ExistsBijection
  <2> HIDE DEF D
  <2> QED
    BY <2>2, <2>7, FS_Bijection
<1>11. ToSet(a) \subseteq ToSet(s)
  BY <1>3, <1>5 DEF ToSet
<1>12. GoodDeque(k, b)
  BY <1>3, <1>4, GoodFollows
<1> QED
  BY <1>4, <1>8, <1>9, <1>10, <1>11, <1>12 DEF a, b

-----------------------------------------------------------------------------
(* What they make of the deques together.                                    *)

LEMMA HeldIds ==
  ASSUME NEW w, NEW r
  PROVE  r \in Ids(HeldIn(w)) <=> \E k \in Key : r \in IdsIn(w[k])
BY DEF Ids, IdsIn, HeldIn

(* No request is in the deques of two keys.                                  *)
LEMMA Apart ==
  ASSUME NEW w, GoodDeques(w), NEW k \in Key, NEW l \in Key, NEW r,
         r \in IdsIn(w[k]), r \in IdsIn(w[l])
  PROVE  k = l
<1>1. ASSUME NEW m \in Key, r \in IdsIn(w[m]) PROVE KeyOfId(r) = m
  <2>1. PICK i \in DOMAIN w[m] : r = w[m][i].id
    BY <1>1 DEF IdsIn, Ids, ToSet
  <2> QED
    BY <2>1 DEF GoodDeques, GoodDeque
<1> QED
  BY <1>1

LEMMA HeldDistinct ==
  ASSUME NEW w, GoodDeques(w)
  PROVE  Distinct(HeldIn(w)) /\ HeldIn(w) \subseteq InferenceRequest
<1>1. ASSUME NEW x \in HeldIn(w), NEW y \in HeldIn(w), x.id = y.id PROVE x = y
  <2>1. PICK k \in Key : x \in ToSet(w[k])
    BY DEF HeldIn
  <2>2. PICK l \in Key : y \in ToSet(w[l])
    BY DEF HeldIn
  <2>3. k = l
    BY <1>1, <2>1, <2>2, Apart DEF IdsIn, Ids
  <2>4. PICK i \in DOMAIN w[k] : x = w[k][i]
    BY <2>1 DEF ToSet
  <2>5. PICK j \in DOMAIN w[k] : y = w[k][j]
    BY <2>2, <2>3 DEF ToSet
  <2>6. i = j
    BY <1>1, <2>4, <2>5 DEF GoodDeques, GoodDeque
  <2> QED
    BY <2>4, <2>5, <2>6
<1>2. ASSUME NEW x \in HeldIn(w) PROVE x \in InferenceRequest
  <2>1. PICK k \in Key : x \in ToSet(w[k])
    BY DEF HeldIn
  <2>2. PICK i \in DOMAIN w[k] : x = w[k][i]
    BY <2>1 DEF ToSet
  <2>3. w[k] \in Seq(InferenceRequest)
    BY DEF GoodDeques
  <2> QED
    BY <2>2, <2>3, Indices
<1> QED
  BY <1>1, <1>2 DEF Distinct

(* One deque loses requests, the others do not change.                       *)
LEMMA OneLess ==
  ASSUME NEW w, GoodDeques(w), NEW k \in Key, NEW u, GoodDeque(k, u),
         NEW G, G \subseteq IdsIn(w[k]), IdsIn(u) = IdsIn(w[k]) \ G
  PROVE  /\ GoodDeques([w EXCEPT ![k] = u])
         /\ Ids(HeldIn([w EXCEPT ![k] = u])) = Ids(HeldIn(w)) \ G
<1> DEFINE v == [w EXCEPT ![k] = u]
<1>1. /\ v \in [Key -> Seq(InferenceRequest)] /\ v[k] = u
      /\ \A l \in Key : l # k => v[l] = w[l]
  BY DEF GoodDeques, GoodDeque
<1> HIDE DEF v
<1>2. GoodDeques(v)
  BY <1>1 DEF GoodDeques
<1>3. ASSUME NEW r PROVE r \in Ids(HeldIn(v)) <=> r \in Ids(HeldIn(w)) \ G
  <2>1. ASSUME NEW l \in Key, r \in IdsIn(v[l]) PROVE r \in Ids(HeldIn(w)) \ G
    <3>1. CASE l = k
      BY <1>1, <2>1, <3>1, HeldIds
    <3>2. CASE l # k
      <4>1. r \in IdsIn(w[l])
        BY <1>1, <2>1, <3>2
      <4>2. r \notin G
        BY <3>2, <4>1, Apart
      <4> QED
        BY <4>1, <4>2, HeldIds
    <3> QED
      BY <3>1, <3>2
  <2>2. ASSUME NEW l \in Key, r \in IdsIn(w[l]), r \notin G PROVE r \in Ids(HeldIn(v))
    <3>1. r \in IdsIn(v[l])
      BY <1>1, <2>2
    <3> QED
      BY <3>1, HeldIds
  <2> QED
    BY <2>1, <2>2, HeldIds
<1> QED
  BY <1>2, <1>3 DEF v

(* One deque gets a new request, or one that failed.                         *)
LEMMA OneMore ==
  ASSUME NEW w, GoodDeques(w), NEW x \in InferenceRequest, x.retried \/ x.age = 0,
         x.id \notin Ids(HeldIn(w))
  PROVE  LET v == [w EXCEPT ![KeyOf(x)] = Append(@, x)]
         IN  /\ GoodDeques(v)
             /\ Ids(HeldIn(v)) = Ids(HeldIn(w)) \union {x.id}
             /\ ToSet(v[KeyOf(x)]) = ToSet(w[KeyOf(x)]) \union {x}
             /\ \A l \in Key : l # KeyOf(x) => v[l] = w[l]
<1> DEFINE k == KeyOf(x)
           u == Append(w[k], x)
           v == [w EXCEPT ![k] = u]
<1>1. k \in Key
  BY Fields
<1>2. w[k] \in Seq(InferenceRequest) /\ GoodDeque(k, w[k])
  BY <1>1 DEF GoodDeques
<1>3. x.id \notin IdsIn(w[k])
  BY <1>1, HeldIds
<1>4. GoodDeque(k, u)
  BY <1>2, <1>3, GoodAppend
<1>5. u \in Seq(InferenceRequest) /\ ToSet(u) = ToSet(w[k]) \union {x}
  BY <1>2, AppendFacts
<1>6. IdsIn(u) = IdsIn(w[k]) \union {x.id}
  BY <1>5 DEF IdsIn, Ids
<1> HIDE DEF u
<1>7. /\ v \in [Key -> Seq(InferenceRequest)] /\ v[k] = u
      /\ \A l \in Key : l # k => v[l] = w[l]
  BY <1>1, <1>5 DEF GoodDeques
<1>8. v = [w EXCEPT ![KeyOf(x)] = Append(@, x)]
  BY DEF u
<1> HIDE DEF v, k
<1>9. GoodDeques(v)
  BY <1>4, <1>7 DEF GoodDeques
<1>10. ASSUME NEW r
       PROVE  r \in Ids(HeldIn(v)) <=> r \in Ids(HeldIn(w)) \union {x.id}
  <2>1. \A l \in Key : r \in IdsIn(v[l]) <=> r \in IdsIn(w[l]) \/ (l = k /\ r = x.id)
    BY <1>6, <1>7
  <2> QED
    BY <1>1, <2>1, HeldIds
<1> QED
  BY <1>5, <1>7, <1>8, <1>9, <1>10 DEF k

(* Requests leave all deques alike: tick, on_client_disconnected.            *)
LEMMA AllLess ==
  ASSUME NEW w, GoodDeques(w), NEW R, R \subseteq HeldIn(w)
  PROVE  LET v == [k \in Key |-> Without(w[k], R)]
         IN  /\ GoodDeques(v)
             /\ Ids(HeldIn(v)) = Ids(HeldIn(w)) \ Ids(R)
             /\ \A k \in Key : ToSet(v[k]) = ToSet(w[k]) \ R
<1> DEFINE v == [k \in Key |-> Without(w[k], R)]
<1>1. ASSUME NEW k \in Key
      PROVE  /\ v[k] \in Seq(InferenceRequest) /\ ToSet(v[k]) = ToSet(w[k]) \ R
             /\ GoodDeque(k, v[k])
  <2>1. w[k] \in Seq(InferenceRequest) /\ GoodDeque(k, w[k])
    BY DEF GoodDeques
  <2>2. /\ Without(w[k], R) \in Seq(InferenceRequest)
        /\ ToSet(Without(w[k], R)) = ToSet(w[k]) \ R
        /\ Follows(Without(w[k], R), w[k])
    BY <2>1, WithoutFacts, ThinsFollows
  <2> QED
    BY <2>1, <2>2, GoodFollows
<1>2. v \in [Key -> Seq(InferenceRequest)]
  BY <1>1
<1> HIDE DEF v
<1>3. GoodDeques(v)
  BY <1>1, <1>2 DEF GoodDeques
<1>4. HeldIn(v) = HeldIn(w) \ R
  BY <1>1 DEF HeldIn
<1>5. Ids(HeldIn(v)) = Ids(HeldIn(w)) \ Ids(R)
  BY <1>4, HeldDistinct DEF Ids, Distinct
<1> QED
  BY <1>1, <1>3, <1>5 DEF v

-----------------------------------------------------------------------------
(* Sizes.                                                                    *)

(* Requests with different identities are as many as their identities.       *)
LEMMA IdsSize ==
  ASSUME NEW A, Distinct(A), IsFiniteSet(Ids(A))
  PROVE  IsFiniteSet(A) /\ Cardinality(A) = Cardinality(Ids(A))
BY SameManyIds DEF Ids, Distinct

(* At most as many identities as requests.                                   *)
LEMMA FewIds ==
  ASSUME NEW A, IsFiniteSet(A)
  PROVE  IsFiniteSet(Ids(A)) /\ Cardinality(Ids(A)) <= Cardinality(A)
BY FewerIds DEF Ids

-----------------------------------------------------------------------------
(* The order of the dict.                                                    *)

LEMMA WithKeyFacts ==
  ASSUME order \in Seq(Key), IsInjective(order), NEW k \in Key
  PROVE  /\ WithKey(k) \in Seq(Key) /\ IsInjective(WithKey(k))
         /\ ToSet(WithKey(k)) = ToSet(order) \union {k}
<1>1. CASE k \in ToSet(order)
  BY <1>1 DEF WithKey
<1>2. CASE k \notin ToSet(order)
  <2> DEFINE o == Append(order, k)
             n == Len(order) + 1
  <2>1. /\ o \in Seq(Key) /\ DOMAIN o = DOMAIN order \union {n} /\ o[n] = k
        /\ \A i \in DOMAIN order : o[i] = order[i]
        /\ ToSet(o) = ToSet(order) \union {k}
    BY AppendFacts
  <2> HIDE DEF o, n
  <2>2. \A i \in DOMAIN order : order[i] # k
    BY <1>2 DEF ToSet
  <2>3. IsInjective(o)
    BY <2>1, <2>2 DEF IsInjective
  <2> QED
    BY <1>2, <2>1, <2>3 DEF WithKey, o
<1> QED
  BY <1>1, <1>2

LEMMA ThinsInjective ==
  ASSUME NEW u \in Seq(Key), NEW s \in Seq(Key), IsInjective(s), Thins(u, s)
  PROVE  IsInjective(u)
<1>1. PICK e : Embeds(e, u, s)
  BY DEF Thins
<1>2. \A i \in DOMAIN u : i \in Int
  BY LenProperties
<1>3. \A i \in DOMAIN s : i \in Int
  BY LenProperties
<1>4. ASSUME NEW i \in DOMAIN u, NEW j \in DOMAIN u, u[i] = u[j] PROVE i = j
  <2>1. e[i] \in DOMAIN s /\ e[j] \in DOMAIN s /\ s[e[i]] = s[e[j]]
    BY <1>1, <1>4 DEF Embeds
  <2>2. e[i] = e[j]
    BY <2>1 DEF IsInjective
  <2>3. ~ (e[i] < e[j]) /\ ~ (e[j] < e[i])
    BY <1>3, <2>1, <2>2
  <2> QED
    BY <1>1, <1>2, <2>3 DEF Embeds
<1> QED
  BY <1>4 DEF IsInjective

(* The rotation after place p: where everything is.                          *)
LEMMA Rotated ==
  ASSUME NEW s \in Seq(Key), IsInjective(s), NEW p \in DOMAIN s
  PROVE  LET u == SubSeq(s, p + 1, Len(s)) \o SubSeq(s, 1, p)
         IN  /\ u \in Seq(Key) /\ IsInjective(u) /\ ToSet(u) = ToSet(s)
             /\ DOMAIN u = DOMAIN s
             /\ \A i \in DOMAIN u :
                  u[i] = IF i <= Len(s) - p THEN s[p + i] ELSE s[i - (Len(s) - p)]
<1> DEFINE a == SubSeq(s, p + 1, Len(s))
           b == SubSeq(s, 1, p)
           n == Len(s) - p
           u == a \o b
           q == [i \in DOMAIN s |-> IF i <= n THEN p + i ELSE i - n]
<1>1. DOMAIN s = 1 .. Len(s) /\ Len(s) \in Nat
  BY LenProperties
<1>2. p \in 0 .. Len(s) /\ p \in Nat /\ n \in Nat /\ n + p = Len(s)
  BY <1>1
<1>3. /\ a \in Seq(Key)
      /\ Len(a) = n
      /\ \A i \in 1 .. n : a[i] = s[p + i]
      /\ b \in Seq(Key)
      /\ DOMAIN b = 1 .. p
      /\ \A i \in 1 .. p : b[i] = s[i]
  <2>1. p \in 0 .. Len(s)
    BY <1>2
  <2>2. /\ SubSeq(s, 1, p) \in Seq(Key) /\ DOMAIN SubSeq(s, 1, p) = 1 .. p
        /\ \A i \in 1 .. p : SubSeq(s, 1, p)[i] = s[i]
        /\ SubSeq(s, p + 1, Len(s)) \in Seq(Key)
        /\ Len(SubSeq(s, p + 1, Len(s))) = Len(s) - p
        /\ DOMAIN SubSeq(s, p + 1, Len(s)) = 1 .. Len(s) - p
        /\ \A i \in 1 .. Len(s) - p : SubSeq(s, p + 1, Len(s))[i] = s[p + i]
    BY <2>1, CutFacts
  <2> QED
    BY <2>2
<1>4. Len(b) = p
  <2>1. DOMAIN b = 1 .. Len(b) /\ Len(b) \in Nat
    BY <1>3, LenProperties
  <2>2. 1 .. p = 1 .. Len(b)
    BY <1>3, <2>1
  <2> HIDE DEF b
  <2> QED
    BY <1>2, <2>1, <2>2
<1> HIDE DEF a, b
<1>5. /\ u \in Seq(Key) /\ Len(u) = Len(s)
      /\ \A i \in 1 .. Len(u) : u[i] = IF i <= n THEN a[i] ELSE b[i - n]
  <2>1. /\ a \o b \in Seq(Key)
        /\ Len(a \o b) = Len(a) + Len(b)
        /\ \A i \in 1 .. Len(a) + Len(b) :
             (a \o b)[i] = IF i <= Len(a) THEN a[i] ELSE b[i - Len(a)]
    BY <1>3, ConcatProperties
  <2>2. Len(a) + Len(b) = Len(s)
    BY <1>2, <1>3, <1>4
  <2> QED
    BY <1>3, <2>1, <2>2
<1>6. DOMAIN u = DOMAIN s
  BY <1>1, <1>5, LenProperties
<1> HIDE DEF u
<1>7. ASSUME NEW i \in DOMAIN s
      PROVE  /\ q[i] \in DOMAIN s /\ i \in Int
             /\ i <= n => i \in 1 .. n
             /\ ~ (i <= n) => i - n \in 1 .. p
  <2>1. /\ i \in 1 .. Len(s) /\ n \in Nat /\ p \in Nat /\ n + p = Len(s)
        /\ q[i] = IF i <= n THEN p + i ELSE i - n
    BY <1>1, <1>2
  <2> HIDE DEF q, n
  <2>2. CASE i <= n
    BY <1>1, <2>1, <2>2
  <2>3. CASE ~ (i <= n)
    <3>1. i - n \in 1 .. p /\ i - n \in 1 .. Len(s)
      BY <2>1, <2>3
    <3> QED
      BY <1>1, <2>1, <2>3, <3>1
  <2> QED
    BY <2>2, <2>3
<1>8. \A i \in DOMAIN u : u[i] = IF i <= n THEN s[p + i] ELSE s[i - n]
  BY <1>1, <1>3, <1>5, <1>6, <1>7
<1>9. \A i \in DOMAIN u : u[i] = s[q[i]]
  BY <1>6, <1>8
<1>10. \A i, j \in DOMAIN s : q[i] = q[j] => i = j
  BY <1>1, <1>2
<1>14. \A i \in DOMAIN s : q[i] \in DOMAIN s
  BY <1>7
<1>11. \A j \in DOMAIN s : \E i \in DOMAIN s : q[i] = j
  <2> SUFFICES ASSUME NEW j \in DOMAIN s PROVE \E i \in DOMAIN s : q[i] = j
    OBVIOUS
  <2>1. CASE j <= p
    <3> DEFINE i == j + n
    <3>1. n \in Nat /\ n + p = Len(s) /\ j \in 1 .. Len(s) /\ p \in Nat
      BY <1>1, <1>2
    <3> HIDE DEF n
    <3>2. i \in DOMAIN s /\ ~ (i <= n) /\ i - n = j
      BY <1>1, <2>1, <3>1
    <3> HIDE DEF i
    <3> QED
      BY <3>2
  <2>2. CASE ~ (j <= p)
    <3>1. j - p \in DOMAIN s /\ j - p <= n /\ p + (j - p) = j
      BY <1>1, <1>2, <2>2
    <3> QED
      BY <3>1
  <2> QED
    BY <2>1, <2>2
<1> HIDE DEF q
<1>12. IsInjective(u)
  <2>1. ASSUME NEW i \in DOMAIN u, NEW j \in DOMAIN u, u[i] = u[j] PROVE i = j
    <3>1. i \in DOMAIN s /\ j \in DOMAIN s /\ s[q[i]] = s[q[j]]
      BY <1>6, <1>9, <2>1
    <3>2. q[i] = q[j]
      BY <1>14, <3>1 DEF IsInjective
    <3> QED
      BY <1>10, <3>1, <3>2
  <2> QED
    BY <2>1 DEF IsInjective
<1>13. ToSet(u) = ToSet(s)
  <2>1. ASSUME NEW i \in DOMAIN u PROVE \E j \in DOMAIN s : u[i] = s[j]
    BY <1>6, <1>9, <1>14
  <2>2. ASSUME NEW j \in DOMAIN s PROVE \E i \in DOMAIN u : u[i] = s[j]
    <3>1. PICK i \in DOMAIN s : q[i] = j
      BY <1>11
    <3>2. i \in DOMAIN u /\ u[i] = s[q[i]]
      BY <1>6, <1>9
    <3> QED
      BY <3>1, <3>2
  <2> QED
    BY <2>1, <2>2 DEF ToSet
<1> QED
  BY <1>5, <1>6, <1>8, <1>12, <1>13 DEF u, a, b

LEMMA Found ==
  ASSUME NEW s \in Seq(Key), NEW k \in ToSet(s)
  PROVE  LET p == CHOOSE i \in DOMAIN s : s[i] = k
         IN  p \in DOMAIN s /\ p \in Int /\ s[p] = k
<1>1. \E i \in DOMAIN s : s[i] = k
  BY DEF ToSet
<1>2. \A i \in DOMAIN s : i \in Int
  BY LenProperties
<1> QED
  BY <1>1, <1>2

(* The first key of a set in dict order.                                     *)
LEMMA FirstFacts ==
  ASSUME order \in Seq(Key), NEW K, K \subseteq ToSet(order), K # {}
  PROVE  First(K) \in K /\ \A l \in K : Place(First(K)) <= Place(l)
<1> DEFINE f == [k \in K |-> Place(k)]
<1>1. IsFiniteSet(K)
  BY ToSetFinite, FS_Subset
<1>2. f \in [K -> Int]
  BY Found DEF Place
<1>3. \E k \in K : \A l \in K : f[k] <= f[l]
  <2> HIDE DEF f
  <2> QED
    BY <1>1, <1>2, LeastExists
<1>4. \E k \in K : \A l \in K : Place(k) <= Place(l)
  BY <1>3
<1> QED
  BY <1>4 DEF First

-----------------------------------------------------------------------------
(* The head of a deque.                                                      *)

LEMMA OneHead ==
  ASSUME NEW k, NEW s, GoodDeque(k, s), s # <<>>
  PROVE  /\ GoodDeque(k, Tail(s)) /\ Tail(s) \in Seq(InferenceRequest)
         /\ Len(Tail(s)) = Len(s) - 1
         /\ ToSet(Tail(s)) \subseteq ToSet(s)
         /\ IdsIn(Tail(s)) = IdsIn(s) \ {Head(s).id}
         /\ Head(s) \in ToSet(s) /\ Head(s) \in InferenceRequest
         /\ KeyOfId(Head(s).id) = k /\ Head(s) = s[1] /\ 1 \in DOMAIN s
<1>1. s \in Seq(InferenceRequest)
  BY DEF GoodDeque
<1>2. /\ Len(s) \in Nat \ {0}
      /\ Head(s) = s[1]
      /\ Tail(s) \in Seq(InferenceRequest)
      /\ Len(Tail(s)) = Len(s) - 1
      /\ \A i \in 1 .. Len(s) - 1 : Tail(s)[i] = s[i + 1]
  <2>1. Len(s) \in Nat /\ Len(s) # 0
    BY <1>1, LenProperties, EmptySeq
  <2>2. /\ Head(s) = s[1]
        /\ Tail(s) \in Seq(InferenceRequest)
        /\ Len(Tail(s)) = Len(s) - 1
        /\ \A i \in 1 .. Len(Tail(s)) : Tail(s)[i] = s[i + 1]
    BY <1>1, HeadTailProperties
  <2> QED
    BY <2>1, <2>2
<1> DEFINE a == SubSeq(s, 1, 1)
           b == SubSeq(s, 1 + 1, Len(s))
           t == Tail(s)
<1>3. 1 \in 0 .. Len(s) /\ DOMAIN s = 1 .. Len(s) /\ Len(s) \in Nat
  BY <1>1, <1>2, Indices
<1>4. /\ GoodDeque(k, b) /\ IdsIn(b) = IdsIn(s) \ IdsIn(a)
      /\ b \in Seq(InferenceRequest)
  BY <1>3, Cut DEF GoodDeque
<1>5. /\ DOMAIN a = 1 .. 1 /\ \A i \in 1 .. 1 : a[i] = s[i]
      /\ DOMAIN b = 1 .. Len(s) - 1 /\ Len(b) = Len(s) - 1
      /\ \A i \in 1 .. Len(s) - 1 : b[i] = s[1 + i]
  BY <1>1, <1>3, CutFacts
<1> HIDE DEF a, b, t
<1>6. t \in Seq(InferenceRequest) /\ Len(t) = Len(b) /\ \A i \in 1 .. Len(t) : t[i] = b[i]
  <2>1. \A i \in 1 .. Len(s) - 1 : i + 1 = 1 + i
    BY <1>3
  <2>2. t \in Seq(InferenceRequest) /\ Len(t) = Len(s) - 1
    BY <1>2 DEF t
  <2>3. \A i \in 1 .. Len(s) - 1 : t[i] = s[i + 1]
    BY <1>2 DEF t
  <2> QED
    BY <1>5, <2>1, <2>2, <2>3
<1>7. t = b
  BY <1>4, <1>6, SeqEqual
<1>8. IdsIn(a) = {Head(s).id}
  <2>1. 1 .. 1 = {1}
    OBVIOUS
  <2>2. ToSet(a) = {s[1]}
    BY <1>5, <2>1 DEF ToSet
  <2> QED
    BY <1>2, <2>2 DEF IdsIn, Ids
<1>9. 1 \in DOMAIN s
  BY <1>2, <1>3
<1>10. Head(s) \in ToSet(s) /\ Head(s) \in InferenceRequest /\ KeyOfId(Head(s).id) = k
  BY <1>1, <1>2, <1>9, Indices DEF ToSet, GoodDeque
<1>11. ToSet(t) \subseteq ToSet(s)
  <2>1. \A i \in 1 .. Len(s) - 1 : 1 + i \in DOMAIN s
    BY <1>3
  <2>2. \A i \in DOMAIN b : b[i] \in {s[j] : j \in DOMAIN s}
    BY <1>5, <2>1
  <2>3. ToSet(b) \subseteq ToSet(s)
    BY <2>2 DEF ToSet
  <2> QED
    BY <1>7, <2>3
<1> QED
  BY <1>2, <1>4, <1>7, <1>8, <1>9, <1>10, <1>11 DEF t

-----------------------------------------------------------------------------
(* Deques, timers and order stay sound.                                      *)

LEMMA SoundOrder ==
  ASSUME NEW w, NEW t, NEW o, Sound(w, t, o), NEW u \in Seq(Key), IsInjective(u),
         \A k \in Key : w[k] # <<>> \/ t[k] # Off => k \in ToSet(u)
  PROVE  Sound(w, t, u)
BY DEF Sound

LEMMA NonEmpty ==
  ASSUME NEW s \in Seq(InferenceRequest)
  PROVE  s # <<>> <=> ToSet(s) # {}
<1>1. DOMAIN s = 1 .. Len(s) /\ Len(s) \in Nat
  BY LenProperties
<1>2. CASE s = <<>>
  BY <1>2 DEF ToSet
<1>3. CASE s # <<>>
  <2>1. Len(s) # 0
    BY <1>3, EmptySeq
  <2>2. 1 \in DOMAIN s
    BY <1>1, <2>1
  <2>3. s[1] \in ToSet(s)
    BY <2>2 DEF ToSet
  <2> QED
    BY <1>3, <2>3
<1> QED
  BY <1>2, <1>3

(* Requests may leave, and the timers of deques left empty may stop.         *)
LEMMA SoundLess ==
  ASSUME NEW w, NEW t, NEW o, Sound(w, t, o), NEW v, GoodDeques(v),
         \A k \in Key : ToSet(v[k]) \subseteq ToSet(w[k]),
         NEW u \in [Key -> {Off} \union 0 .. MaxWait],
         \A k \in Key : u[k] = t[k] \/ (u[k] = Off /\ v[k] = <<>>)
  PROVE  Sound(v, u, o)
<1>1. \A k \in Key : v[k] \in Seq(InferenceRequest) /\ w[k] \in Seq(InferenceRequest)
  BY DEF Sound, GoodDeques
<1>2. \A k \in Key : v[k] # <<>> => w[k] # <<>>
  BY <1>1, NonEmpty
<1>4. \A k \in Key : v[k] # <<>> \/ u[k] # Off => k \in ToSet(o)
  BY <1>2 DEF Sound
<1>5. Batching => \A k \in Key : v[k] # <<>> => u[k] # Off
  BY <1>2 DEF Sound
<1>6. ~ Batching => \A k \in Key : u[k] = Off
  BY DEF Sound
<1> QED
  BY <1>4, <1>5, <1>6 DEF Sound

(* A request enters.                                                         *)
LEMMA EnqueueSound ==
  ASSUME NEW w, NEW t, Sound(w, t, order), NEW x \in InferenceRequest,
         x.retried \/ x.age = 0, x.id \notin Ids(HeldIn(w)),
         Enqueue(w, t, x)
  PROVE  /\ Sound(waiting', timer', order')
         /\ Ids(HeldIn(waiting')) = Ids(HeldIn(w)) \union {x.id}
<1> DEFINE k == KeyOf(x)
<1>1. k \in Key /\ GoodDeques(w)
  BY Fields DEF Sound
<1>2. /\ GoodDeques(waiting')
      /\ Ids(HeldIn(waiting')) = Ids(HeldIn(w)) \union {x.id}
      /\ ToSet(waiting'[k]) = ToSet(w[k]) \union {x}
      /\ \A l \in Key : l # k => waiting'[l] = w[l]
  <2> DEFINE v == [w EXCEPT ![KeyOf(x)] = Append(@, x)]
  <2>1. /\ GoodDeques(v)
        /\ Ids(HeldIn(v)) = Ids(HeldIn(w)) \union {x.id}
        /\ ToSet(v[KeyOf(x)]) = ToSet(w[KeyOf(x)]) \union {x}
        /\ \A l \in Key : l # KeyOf(x) => v[l] = w[l]
    BY <1>1, OneMore
  <2>2. waiting' = v
    BY DEF Enqueue
  <2> HIDE DEF v
  <2> QED
    BY <2>1, <2>2
<1>3. timer' = IF Batching /\ t[k] = Off THEN [t EXCEPT ![k] = 0] ELSE t
  BY DEF Enqueue
<1>4. order' = WithKey(k)
  BY DEF Enqueue
<1> HIDE DEF k
<1>5. /\ order' \in Seq(Key) /\ IsInjective(order')
      /\ ToSet(order') = ToSet(order) \union {k}
  BY <1>1, <1>4, WithKeyFacts DEF Sound
<1>6. 0 \in 0 .. MaxWait
  OBVIOUS
<1>7. timer' \in [Key -> {Off} \union 0 .. MaxWait]
  BY <1>1, <1>3, <1>6 DEF Sound
<1>8. \A l \in Key : l # k => timer'[l] = t[l]
  BY <1>1, <1>3 DEF Sound
<1>9. \A l \in Key : waiting'[l] # <<>> \/ timer'[l] # Off => l \in ToSet(order')
  BY <1>2, <1>5, <1>8 DEF Sound
<1>10. Batching => \A l \in Key : waiting'[l] # <<>> => timer'[l] # Off
  <2>1. Batching => timer'[k] # Off
    BY <1>1, <1>3 DEF Sound, Off
  <2> QED
    BY <1>2, <1>8, <2>1 DEF Sound
<1>11. ~ Batching => \A l \in Key : timer'[l] = Off
  BY <1>3 DEF Sound
<1> QED
  BY <1>2, <1>5, <1>7, <1>9, <1>10, <1>11 DEF Sound

-----------------------------------------------------------------------------
(* What each operation does to the deques.                                   *)

LEMMA Unfold ==
  ASSUME IInv
  PROVE  /\ strategy \in Strategies /\ Sound(waiting, timer, order) /\ GoodDeques(waiting)
         /\ Held = HeldIn(waiting) /\ Distinct(Held) /\ Held \subseteq InferenceRequest
         /\ IsFiniteSet(Ids(Held)) /\ total = Cardinality(Ids(Held)) /\ total \in Nat
         /\ Ids(Held) \intersect Ids(out) = {}
         /\ out \subseteq InferenceRequest /\ IsFiniteSet(out) /\ Distinct(out)
         /\ order \in Seq(Key) /\ IsInjective(order)
<1>1. strategy \in Strategies /\ Sound(waiting, timer, order) /\ OutGood /\ CountGood
  BY DEF IInv
<1>2. GoodDeques(waiting) /\ order \in Seq(Key) /\ IsInjective(order)
  BY <1>1 DEF Sound
<1>3. Held = HeldIn(waiting)
  BY DEF Held, HeldIn
<1>4. Distinct(Held) /\ Held \subseteq InferenceRequest
  BY <1>2, <1>3, HeldDistinct
<1>5. IsFiniteSet(Ids(Held)) /\ total = Cardinality(Ids(Held)) /\ Ids(Held) \intersect Ids(out) = {}
  BY <1>1 DEF CountGood, TotalMatches
<1>6. total \in Nat
  BY <1>5, FS_CardinalityType
<1> QED
  BY <1>1, <1>2, <1>3, <1>4, <1>5, <1>6 DEF OutGood

LEMMA WaitingFacts ==
  ASSUME IInv, NEW k \in Waiting
  PROVE  /\ k \in Key /\ k \in ToSet(order)
         /\ waiting[k] # <<>> /\ GoodDeque(k, waiting[k])
         /\ Head(waiting[k]) \in Held /\ IdsIn(waiting[k]) \subseteq Ids(Held)
<1>1. k \in Key /\ waiting[k] # <<>>
  BY DEF Waiting
<1>2. GoodDeque(k, waiting[k]) /\ k \in ToSet(order)
  BY <1>1, Unfold DEF Sound, GoodDeques
<1>3. Head(waiting[k]) \in ToSet(waiting[k])
  BY <1>1, <1>2, OneHead
<1>4. Head(waiting[k]) \in Held
  BY <1>1, <1>3 DEF Held
<1>5. IdsIn(waiting[k]) \subseteq Ids(Held)
  BY <1>1 DEF Held, Ids, IdsIn
<1> QED
  BY <1>1, <1>2, <1>4, <1>5

LEMMA SomeoneWaits ==
  ASSUME IInv, total # 0
  PROVE  Waiting # {}
<1>1. Ids(Held) # {}
  BY Unfold, FS_EmptySet
<1>2. PICK x \in Held : TRUE
  BY <1>1 DEF Ids
<1>3. PICK k \in Key : x \in ToSet(waiting[k])
  BY <1>2 DEF Held
<1>4. waiting[k] \in Seq(InferenceRequest)
  BY Unfold DEF GoodDeques
<1>5. waiting[k] # <<>>
  BY <1>3, <1>4, NonEmpty
<1> QED
  BY <1>3, <1>5 DEF Waiting

(* The head of a deque leaves it.                                            *)
LEMMA HeadLeaves ==
  ASSUME IInv, NEW k \in Waiting
  PROVE  LET w == [waiting EXCEPT ![k] = Tail(@)]
         IN  /\ GoodDeques(w)
             /\ \A l \in Key : ToSet(w[l]) \subseteq ToSet(waiting[l])
             /\ Ids(HeldIn(w)) = Ids(Held) \ {Head(waiting[k]).id}
             /\ w[k] = Tail(waiting[k]) /\ \A l \in Key : l # k => w[l] = waiting[l]
<1> DEFINE u == Tail(waiting[k])
           w == [waiting EXCEPT ![k] = u]
           G == {Head(waiting[k]).id}
<1>1. /\ GoodDeque(k, u)
      /\ ToSet(u) \subseteq ToSet(waiting[k])
      /\ IdsIn(u) = IdsIn(waiting[k]) \ G
      /\ Head(waiting[k]) \in ToSet(waiting[k])
  BY WaitingFacts, OneHead
<1>2. G \subseteq IdsIn(waiting[k])
  BY <1>1 DEF IdsIn, Ids
<1>3. k \in Key /\ GoodDeques(waiting) /\ Held = HeldIn(waiting)
  BY Unfold, WaitingFacts
<1>4. w = [waiting EXCEPT ![k] = Tail(@)]
  OBVIOUS
<1> HIDE DEF u, G
<1>5. GoodDeques(w) /\ Ids(HeldIn(w)) = Ids(HeldIn(waiting)) \ G
  BY <1>1, <1>2, <1>3, OneLess
<1>6. w[k] = u /\ \A l \in Key : l # k => w[l] = waiting[l]
  BY <1>3 DEF GoodDeques
<1> HIDE DEF w
<1>7. \A l \in Key : ToSet(w[l]) \subseteq ToSet(waiting[l])
  BY <1>1, <1>6
<1> QED
  BY <1>3, <1>4, <1>5, <1>6, <1>7 DEF u, G

(* What _drop_oldest drops: the head of a deque, none older.                 *)
LEMMA OldestHeadFacts ==
  ASSUME IInv, Waiting # {}
  PROVE  /\ OldestHead \in Waiting
         /\ \A l \in Waiting : AgeOfHead(OldestHead) >= AgeOfHead(l)
<1> DEFINE O == {k \in Waiting : \A l \in Waiting : AgeOfHead(k) >= AgeOfHead(l)}
           f == [k \in Waiting |-> - AgeOfHead(k)]
<1>1. Waiting \subseteq ToSet(order)
  BY WaitingFacts
<1>2. IsFiniteSet(Waiting)
  BY <1>1, Unfold, ToSetFinite, FS_Subset
<1>3. \A k \in Waiting : AgeOfHead(k) \in Int
  <2> SUFFICES ASSUME NEW k \in Waiting PROVE AgeOfHead(k) \in Int
    OBVIOUS
  <2>1. Head(waiting[k]) \in InferenceRequest
    BY WaitingFacts, OneHead
  <2> QED
    BY <2>1, Fields DEF AgeOfHead
<1>4. f \in [Waiting -> Int]
  BY <1>3
<1>5. \E k \in Waiting : \A l \in Waiting : f[k] <= f[l]
  <2> HIDE DEF f
  <2> QED
    BY <1>2, <1>4, LeastExists
<1>6. O # {}
  <2>1. PICK k \in Waiting : \A l \in Waiting : f[k] <= f[l]
    BY <1>5
  <2>2. \A l \in Waiting : AgeOfHead(k) >= AgeOfHead(l)
    BY <1>3, <2>1
  <2> QED
    BY <2>2
<1>7. First(O) \in O
  <2>1. O \subseteq ToSet(order)
    BY <1>1
  <2> HIDE DEF O
  <2> QED
    BY <1>6, <2>1, Unfold, FirstFacts
<1> QED
  BY <1>7 DEF OldestHead

LEMMA RoomEffect ==
  ASSUME IInv, NEW r \in Request, r \notin Ids(Held) \union Ids(out), SubmitRoom(Fresh(r))
  PROVE  /\ Sound(waiting', timer', order')
         /\ Ids(HeldIn(waiting')) = Ids(Held) \union {r}
<1> DEFINE x == Fresh(r)
<1>1. x \in InferenceRequest /\ x.id = r /\ x.age = 0
  BY FreshFacts
<1>2. Sound(waiting, timer, order) /\ Held = HeldIn(waiting)
  BY Unfold
<1>3. Enqueue(waiting, timer, x)
  BY DEF SubmitRoom
<1> HIDE DEF x
<1> QED
  BY <1>1, <1>2, <1>3, EnqueueSound

LEMMA DropEffect ==
  ASSUME IInv, NEW r \in Request, r \notin Ids(Held) \union Ids(out), SubmitDropping(Fresh(r))
  PROVE  LET d == Head(waiting[OldestHead])
         IN  /\ Sound(waiting', timer', order')
             /\ Waiting # {} /\ d \in Held
             /\ Ids(HeldIn(waiting')) = (Ids(Held) \ {d.id}) \union {r}
<1> DEFINE x == Fresh(r)
           k == OldestHead
           w == [waiting EXCEPT ![k] = Tail(@)]
           t == [timer EXCEPT ![k] = IF w[k] = <<>> THEN Off ELSE @]
<1>1. x \in InferenceRequest /\ x.id = r /\ x.age = 0
  BY FreshFacts
<1>2. Waiting # {}
  <2>1. total >= MaxQueue /\ MaxQueue \in Nat \ {0} /\ total \in Nat
    BY Unfold DEF SubmitDropping
  <2> QED
    BY <2>1, SomeoneWaits
<1>3. k \in Waiting
  BY <1>2, OldestHeadFacts
<1>4. /\ GoodDeques(w)
      /\ \A l \in Key : ToSet(w[l]) \subseteq ToSet(waiting[l])
      /\ Ids(HeldIn(w)) = Ids(Held) \ {Head(waiting[k]).id}
  BY <1>3, HeadLeaves
<1>5. Enqueue(w, t, x)
  BY DEF SubmitDropping
<1>6. k \in Key /\ Head(waiting[k]) \in Held /\ Sound(waiting, timer, order)
  BY <1>3, Unfold, WaitingFacts
<1> HIDE DEF k, w, x
<1>7. /\ t \in [Key -> {Off} \union 0 .. MaxWait]
      /\ \A l \in Key : t[l] = timer[l] \/ (t[l] = Off /\ w[l] = <<>>)
  BY <1>6 DEF Sound
<1> HIDE DEF t
<1>8. Sound(w, t, order)
  BY <1>4, <1>6, <1>7, SoundLess
<1>9. x.id \notin Ids(HeldIn(w))
  BY <1>1, <1>4
<1>10. /\ Sound(waiting', timer', order')
       /\ Ids(HeldIn(waiting')) = Ids(HeldIn(w)) \union {x.id}
  BY <1>1, <1>5, <1>8, <1>9, EnqueueSound
<1> QED
  BY <1>1, <1>2, <1>4, <1>6, <1>10 DEF k

LEMMA ResubmitEffect ==
  ASSUME IInv, NEW x \in out, Resubmit(x)
  PROVE  /\ Sound(waiting', timer', order')
         /\ Ids(HeldIn(waiting')) = Ids(Held) \union {x.id}
         /\ x.id \notin Ids(Held) /\ x.id \in Ids(out)
         /\ Ids(out') = Ids(out) \ {x.id}
<1> DEFINE y == Retried(x)
<1>1. x \in InferenceRequest /\ Sound(waiting, timer, order) /\ Held = HeldIn(waiting)
  BY Unfold
<1>2. y \in InferenceRequest /\ y.id = x.id /\ y.retried
  BY <1>1, RetriedFacts
<1>3. x.id \in Ids(out) /\ x.id \notin Ids(Held)
  <2>1. x.id \in Ids(out)
    BY DEF Ids
  <2> QED
    BY <2>1, Unfold
<1>4. Enqueue(waiting, timer, y) /\ out' = out \ {x}
  BY DEF Resubmit
<1> HIDE DEF y
<1>5. /\ Sound(waiting', timer', order')
      /\ Ids(HeldIn(waiting')) = Ids(HeldIn(waiting)) \union {y.id}
  BY <1>1, <1>2, <1>3, <1>4, EnqueueSound
<1>6. Ids(out') = Ids(out) \ {x.id}
  BY <1>4, Unfold DEF Ids, Distinct
<1> QED
  BY <1>1, <1>2, <1>3, <1>5, <1>6

LEMMA TurnEffect ==
  ASSUME IInv, ServeTurn
  PROVE  LET c == First(Waiting)
             h == Head(waiting[c])
         IN  /\ Sound(waiting', timer', order')
             /\ c \in Waiting /\ Place(c) \in DOMAIN order
             /\ \A l \in Waiting : Place(c) <= Place(l)
             /\ waiting' = [waiting EXCEPT ![c] = Tail(@)]
             /\ order' = SubSeq(order, Place(c) + 1, Len(order)) \o SubSeq(order, 1, Place(c))
             /\ h \in Held /\ out' = out \union {h}
             /\ Ids(HeldIn(waiting')) = Ids(Held) \ {h.id}
<1> DEFINE c == First(Waiting)
           w == [waiting EXCEPT ![c] = Tail(@)]
           o == SubSeq(order, Place(c) + 1, Len(order)) \o SubSeq(order, 1, Place(c))
<1>1. waiting' = w /\ order' = o /\ out' = out \union {Head(waiting[c])} /\ timer' = timer
  BY DEF ServeTurn
<1>2. c \in Waiting /\ \A l \in Waiting : Place(c) <= Place(l)
  <2>1. Waiting # {}
    BY DEF ServeTurn
  <2>2. Waiting \subseteq ToSet(order)
    BY WaitingFacts
  <2> QED
    BY <2>1, <2>2, Unfold, FirstFacts
<1>3. /\ GoodDeques(w)
      /\ \A l \in Key : ToSet(w[l]) \subseteq ToSet(waiting[l])
      /\ Ids(HeldIn(w)) = Ids(Held) \ {Head(waiting[c]).id}
  BY <1>2, HeadLeaves
<1>4. Head(waiting[c]) \in Held /\ c \in ToSet(order)
  BY <1>2, WaitingFacts
<1>5. Place(c) \in DOMAIN order
  BY <1>4, Unfold, Found DEF Place
<1> HIDE DEF c
<1>6. o \in Seq(Key) /\ IsInjective(o) /\ ToSet(o) = ToSet(order)
  BY <1>5, Unfold, Rotated
<1> HIDE DEF w, o
<1>7. Sound(waiting, timer, order)
  BY Unfold
<1>8. timer \in [Key -> {Off} \union 0 .. MaxWait]
  BY <1>7 DEF Sound
<1>9. Sound(w, timer, order)
  BY <1>3, <1>7, <1>8, SoundLess
<1>10. Sound(w, timer, o)
  BY <1>6, <1>9, SoundOrder DEF Sound
<1> QED
  BY <1>1, <1>2, <1>3, <1>4, <1>5, <1>10 DEF c, w, o

(* Requests of a deque that change in other ways than identity and order.    *)
LEMMA Relabelled ==
  ASSUME NEW k, NEW s, GoodDeque(k, s), NEW u \in [DOMAIN s -> InferenceRequest],
         \A i \in DOMAIN s : u[i].id = s[i].id /\ u[i].retried = s[i].retried,
         \A i, j \in DOMAIN s : s[i].age >= s[j].age => u[i].age >= u[j].age
  PROVE  /\ GoodDeque(k, u) /\ u \in Seq(InferenceRequest)
         /\ IdsIn(u) = IdsIn(s) /\ (u = <<>> <=> s = <<>>)
<1>1. s \in Seq(InferenceRequest)
  BY DEF GoodDeque
<1>2. DOMAIN s = 1 .. Len(s) /\ Len(s) \in Nat
  BY <1>1, Indices
<1>3. u \in Seq(InferenceRequest)
  BY <1>2, SeqDef
<1>4. DOMAIN u = DOMAIN s
  OBVIOUS
<1>5. GoodDeque(k, u)
  BY <1>3, <1>4 DEF GoodDeque
<1>6. \A v : IdsIn(v) = {v[i].id : i \in DOMAIN v}
  BY DEF IdsIn, Ids, ToSet
<1>7. IdsIn(u) = IdsIn(s)
  <2>1. {u[i].id : i \in DOMAIN s} = {s[i].id : i \in DOMAIN s}
    OBVIOUS
  <2> QED
    BY <1>4, <1>6, <2>1
<1>8. u = <<>> <=> s = <<>>
  <2>1. ToSet(u) = {} <=> ToSet(s) = {}
    BY <1>4 DEF ToSet
  <2> QED
    BY <1>1, <1>3, <2>1, NonEmpty
<1> QED
  BY <1>3, <1>5, <1>7, <1>8

(* The batch that is flushed and what it leaves behind.                      *)
LEMMA FlushEffect ==
  ASSUME IInv, Flush
  PROVE  \E m \in Waiting, n \in 1 .. MaxBatch, B \in SUBSET Held :
           /\ Sound(waiting', timer', order')
           /\ out' = out \union B /\ total' = total - n
           /\ IsFiniteSet(Ids(B)) /\ Cardinality(Ids(B)) = n
           /\ Ids(HeldIn(waiting')) = Ids(Held) \ Ids(B)
<1> DEFINE m == First(Due)
           s == waiting[m]
           n == IF Len(s) < MaxBatch THEN Len(s) ELSE MaxBatch
           B == ToSet(SubSeq(s, 1, n))
           rest == SubSeq(s, n + 1, Len(s))
           w == [waiting EXCEPT ![m] = rest]
           t == [timer EXCEPT ![m] = IF rest = <<>> THEN Off ELSE 0]
<1>1. /\ waiting' = w /\ timer' = t /\ order' = order
      /\ out' = out \union B /\ total' = total - n
  BY DEF Flush
<1>2. m \in Waiting
  <2>1. Due # {} /\ Due \subseteq Waiting
    BY DEF Flush, Due
  <2>2. Due \subseteq ToSet(order)
    BY <2>1, WaitingFacts
  <2> QED
    BY <2>1, <2>2, Unfold, FirstFacts
<1> HIDE DEF m
<1>3. m \in Key /\ m \in ToSet(order) /\ s # <<>> /\ GoodDeque(m, s)
  BY <1>2, WaitingFacts
<1>4. s \in Seq(InferenceRequest)
  BY <1>3 DEF GoodDeque
<1>5. n \in 0 .. Len(s) /\ n \in 1 .. MaxBatch
  <2>1. Len(s) \in Nat /\ Len(s) # 0
    BY <1>3, <1>4, LenProperties, EmptySeq
  <2> HIDE DEF s
  <2> QED
    BY <2>1
<1>6. ToSet(s) \subseteq Held /\ Sound(waiting, timer, order) /\ Held = HeldIn(waiting)
  BY <1>3, Unfold DEF Held
<1> HIDE DEF s, n
<1>7. /\ GoodDeque(m, rest)
      /\ IdsIn(rest) = IdsIn(s) \ Ids(B)
      /\ Ids(B) \subseteq IdsIn(s) /\ B \subseteq ToSet(s)
      /\ IsFiniteSet(Ids(B)) /\ Cardinality(Ids(B)) = n
  BY <1>3, <1>5, Cut DEF IdsIn
<1> HIDE DEF B, rest
<1>10. GoodDeques(w) /\ Ids(HeldIn(w)) = Ids(HeldIn(waiting)) \ Ids(B)
  <2> DEFINE G == Ids(B)
  <2>1. GoodDeques(waiting)
    BY <1>6 DEF Sound
  <2>2. G \subseteq IdsIn(waiting[m]) /\ IdsIn(rest) = IdsIn(waiting[m]) \ G
    BY <1>7 DEF s
  <2>3. GoodDeque(m, rest)
    BY <1>7
  <2> HIDE DEF G
  <2>4. GoodDeques(w) /\ Ids(HeldIn(w)) = Ids(HeldIn(waiting)) \ G
    BY <1>3, <2>1, <2>2, <2>3, OneLess
  <2> QED
    BY <2>4 DEF G
<1>11. w[m] = rest /\ \A l \in Key : l # m => w[l] = waiting[l]
  BY <1>3, <1>6 DEF Sound, GoodDeques
<1>12. 0 \in 0 .. MaxWait
  OBVIOUS
<1>13. /\ t \in [Key -> {Off} \union 0 .. MaxWait]
       /\ t[m] = IF rest = <<>> THEN Off ELSE 0
       /\ \A l \in Key : l # m => t[l] = timer[l]
  BY <1>3, <1>6, <1>12 DEF Sound
<1> HIDE DEF w, t
<1>15. \A l \in Key : w[l] # <<>> => t[l] # Off
  BY <1>6, <1>11, <1>13 DEF Sound, Flush, Off
<1>16. \A l \in Key : w[l] # <<>> \/ t[l] # Off => l \in ToSet(order)
  BY <1>3, <1>6, <1>11, <1>13 DEF Sound
<1>17. Sound(w, t, order)
  BY <1>6, <1>10, <1>13, <1>15, <1>16 DEF Sound, Flush
<1> QED
  BY <1>1, <1>2, <1>5, <1>6, <1>7, <1>10, <1>17

LEMMA TickEffect ==
  ASSUME IInv, Tick
  PROVE  /\ Sound(waiting', timer', order')
         /\ Expired \subseteq Held
         /\ Ids(HeldIn(waiting')) = Ids(Held) \ Ids(Expired)
         /\ total' = total - Cardinality(Expired)
<1> DEFINE v == [k \in Key |-> Without(waiting[k], Expired)]
<1>1. /\ waiting' = v /\ order' = order /\ total' = total - Cardinality(Expired)
      /\ timer' = [k \in Key |-> IF k \in Key /\ waiting'[k] = <<>> THEN Off ELSE timer[k]]
  BY DEF Tick, StopEmptied
<1>2. Expired \subseteq Held
  BY DEF Expired
<1>3. GoodDeques(waiting) /\ Held = HeldIn(waiting) /\ Sound(waiting, timer, order)
  BY Unfold
<1>4. /\ GoodDeques(v)
      /\ Ids(HeldIn(v)) = Ids(HeldIn(waiting)) \ Ids(Expired)
      /\ \A k \in Key : ToSet(v[k]) = ToSet(waiting[k]) \ Expired
  BY <1>2, <1>3, AllLess
<1> HIDE DEF v
<1>5. /\ timer' \in [Key -> {Off} \union 0 .. MaxWait]
      /\ \A k \in Key : timer'[k] = timer[k] \/ (timer'[k] = Off /\ v[k] = <<>>)
  BY <1>1, <1>3 DEF Sound
<1>6. \A k \in Key : ToSet(v[k]) \subseteq ToSet(waiting[k])
  BY <1>4
<1>7. Sound(v, timer', order)
  BY <1>3, <1>4, <1>5, <1>6, SoundLess
<1> QED
  BY <1>1, <1>2, <1>3, <1>4, <1>7

LEMMA PurgeEffect ==
  ASSUME IInv, NEW c \in Client, PurgeClient(c)
  PROVE  LET R == {x \in Held : ClientOf[x.id] = c}
         IN  /\ Sound(waiting', timer', order')
             /\ R \subseteq Held
             /\ Ids(HeldIn(waiting')) = Ids(Held) \ Ids(R)
             /\ total' = total - Cardinality(R)
             /\ Ids(R) = {r \in Ids(Held) : ClientOf[r] = c}
<1> DEFINE R == {x \in Held : ClientOf[x.id] = c}
           v == [k \in Key |-> Without(waiting[k], R)]
<1>1. waiting' = v /\ order' = order /\ timer' = timer /\ total' = total - Cardinality(R)
  BY DEF PurgeClient
<1>2. R \subseteq Held /\ Ids(R) = {r \in Ids(Held) : ClientOf[r] = c}
  BY DEF Ids
<1>3. GoodDeques(waiting) /\ Held = HeldIn(waiting) /\ Sound(waiting, timer, order)
  BY Unfold
<1> HIDE DEF R
<1>4. /\ GoodDeques(v)
      /\ Ids(HeldIn(v)) = Ids(HeldIn(waiting)) \ Ids(R)
      /\ \A k \in Key : ToSet(v[k]) = ToSet(waiting[k]) \ R
  BY <1>2, <1>3, AllLess
<1> HIDE DEF v
<1>5. timer \in [Key -> {Off} \union 0 .. MaxWait]
  BY <1>3 DEF Sound
<1>6. \A k \in Key : ToSet(v[k]) \subseteq ToSet(waiting[k])
  BY <1>4
<1>7. Sound(v, timer, order)
  BY <1>3, <1>4, <1>5, <1>6, SoundLess
<1> QED
  BY <1>1, <1>2, <1>3, <1>4, <1>7 DEF R

(* The requests of a deque are as many as it is long.                        *)
LEMMA LenIds ==
  ASSUME NEW k, NEW s, GoodDeque(k, s)
  PROVE  IsFiniteSet(IdsIn(s)) /\ Cardinality(IdsIn(s)) = Len(s)
<1> DEFINE n == Len(s)
           a == SubSeq(s, 1, n)
           b == SubSeq(s, n + 1, Len(s))
<1>1. s \in Seq(InferenceRequest) /\ n \in Nat /\ n \in 0 .. Len(s)
  BY LenProperties DEF GoodDeque
<1>2. /\ IdsIn(b) = IdsIn(s) \ IdsIn(a) /\ IdsIn(a) \subseteq IdsIn(s)
      /\ IsFiniteSet(IdsIn(a)) /\ Cardinality(IdsIn(a)) = n
  BY <1>1, Cut
<1>3. DOMAIN b = 1 .. Len(s) - n
  BY <1>1, CutFacts
<1> HIDE DEF a, b
<1>4. DOMAIN b = {}
  BY <1>1, <1>3
<1>5. IdsIn(b) = {}
  BY <1>4 DEF IdsIn, Ids, ToSet
<1> QED
  BY <1>2, <1>5

LEMMA ForgetEffect ==
  ASSUME IInv, NEW c \in Client, ForgetClient(c)
  PROVE  /\ Sound(waiting', timer', order')
         /\ Ids(HeldIn(waiting')) = Ids(Held) \ IdsIn(waiting[c])
         /\ IdsIn(waiting[c]) = {r \in Ids(Held) : ClientOf[r] = c}
         /\ IdsIn(waiting[c]) \subseteq Ids(Held)
         /\ total' = total - Cardinality(IdsIn(waiting[c]))
         /\ Thins(order', order)
<1> DEFINE w == [waiting EXCEPT ![c] = <<>>]
           G == IdsIn(waiting[c])
<1>1. /\ ~ Batching
      /\ order' = Without(order, {c}) /\ waiting' = w
      /\ total' = total - Len(waiting[c]) /\ timer' = timer
  BY DEF ForgetClient
<1>2. c \in Key /\ GoodDeques(waiting) /\ Held = HeldIn(waiting) /\ Sound(waiting, timer, order)
  BY Unfold DEF Key
<1>3. GoodDeque(c, waiting[c])
  BY <1>2 DEF GoodDeques
<1>4. Cardinality(G) = Len(waiting[c])
  BY <1>3, LenIds
<1>5. G = {r \in Ids(Held) : ClientOf[r] = c}
  <2>1. ASSUME NEW k \in Key, NEW r \in IdsIn(waiting[k]) PROVE ClientOf[r] = k
    <3>1. PICK i \in DOMAIN waiting[k] : r = waiting[k][i].id
      BY <2>1 DEF IdsIn, Ids, ToSet
    <3>2. KeyOfId(r) = k
      BY <1>2, <3>1 DEF GoodDeques, GoodDeque
    <3> QED
      BY <1>1, <3>2 DEF KeyOfId
  <2>2. \A r : r \in Ids(Held) <=> \E k \in Key : r \in IdsIn(waiting[k])
    BY <1>2, HeldIds
  <2>3. \A k \in Key : \A r \in IdsIn(waiting[k]) : ClientOf[r] = k
    BY <2>1
  <2>4. \A r : r \in G <=> r \in Ids(Held) /\ ClientOf[r] = c
    BY <1>2, <2>2, <2>3
  <2> HIDE DEF G
  <2> QED
    BY <2>4
<1>6. GoodDeques(w) /\ Ids(HeldIn(w)) = Ids(HeldIn(waiting)) \ G
  <2>1. GoodDeque(c, <<>>)
    BY GoodEmpty
  <2> DEFINE u == <<>>
  <2>2. IdsIn(u) = IdsIn(waiting[c]) \ G /\ G \subseteq IdsIn(waiting[c])
    BY DEF IdsIn, Ids, ToSet
  <2>3. GoodDeque(c, u) /\ w = [waiting EXCEPT ![c] = u]
    BY <2>1
  <2> HIDE DEF G, u, w
  <2> QED
    BY <1>2, <2>2, <2>3, OneLess
<1>7. \A k \in Key : ToSet(w[k]) \subseteq ToSet(waiting[k])
  <2>1. /\ w[c] = <<>> /\ \A k \in Key : k # c => w[k] = waiting[k]
        /\ ToSet(<<>>) = {}
    BY <1>2 DEF GoodDeques, ToSet
  <2> HIDE DEF w
  <2> QED
    BY <2>1
<1>8. w[c] = <<>>
  BY <1>2 DEF GoodDeques
<1> HIDE DEF w
<1>9. timer \in [Key -> {Off} \union 0 .. MaxWait]
  BY <1>2 DEF Sound
<1>10. Sound(w, timer, order)
  BY <1>2, <1>6, <1>7, <1>9, SoundLess
<1>11. /\ order' \in Seq(Key) /\ ToSet(order') = ToSet(order) \ {c}
       /\ Thins(order', order)
  BY <1>1, Unfold, WithoutFacts
<1>12. IsInjective(order')
  BY <1>11, Unfold, ThinsInjective
<1>13. \A k \in Key : w[k] # <<>> \/ timer[k] # Off => k \in ToSet(order')
  BY <1>1, <1>8, <1>10, <1>11 DEF Sound
<1>14. Sound(w, timer, order')
  BY <1>10, <1>11, <1>12, <1>13, SoundOrder
<1> QED
  BY <1>1, <1>2, <1>4, <1>5, <1>6, <1>11, <1>14

LEMMA ConnectEffect ==
  ASSUME IInv, NEW c \in Client, OnClientConnected(c)
  PROVE  Sound(waiting', timer', order')
<1>1. c \in Key /\ Sound(waiting, timer, order)
  BY Unfold DEF Key
<1>2. waiting' = waiting /\ timer' = timer /\ order' = WithKey(c)
  BY DEF OnClientConnected
<1>3. /\ order' \in Seq(Key) /\ IsInjective(order')
      /\ ToSet(order') = ToSet(order) \union {c}
  BY <1>1, <1>2, Unfold, WithKeyFacts
<1>4. Sound(waiting, timer, order')
  BY <1>1, <1>3, SoundOrder DEF Sound
<1> QED
  BY <1>2, <1>4

LEMMA AdvanceEffect ==
  ASSUME IInv, Advance
  PROVE  /\ Sound(waiting', timer', order')
         /\ Ids(HeldIn(waiting')) = Ids(Held) /\ Ids(out') = Ids(out)
         /\ out' \subseteq InferenceRequest /\ IsFiniteSet(out') /\ Distinct(out')
<1> DEFINE Up(n, top) == IF n < top THEN n + 1 ELSE n
           Older(x) == [x EXCEPT !.age = Up(@, MaxAge)]
           u(k) == [i \in DOMAIN waiting[k] |-> Older(waiting[k][i])]
<1>1. /\ waiting' = [k \in Key |-> u(k)]
      /\ timer' = [k \in Key |-> IF timer[k] = Off THEN Off ELSE Up(timer[k], MaxWait)]
      /\ out' = {Older(x) : x \in out}
      /\ order' = order
  BY DEF Advance
<1>2. Sound(waiting, timer, order) /\ GoodDeques(waiting) /\ Held = HeldIn(waiting)
  BY Unfold
<1>3. \A top \in Nat : \A n \in 0 .. top : /\ Up(n, top) \in 0 .. top
                                       /\ \A m \in 0 .. top : n >= m => Up(n, top) >= Up(m, top)
  OBVIOUS
<1>4. MaxAge \in Nat /\ MaxWait \in Nat
  OBVIOUS
<1> HIDE DEF Up
<1>5. ASSUME NEW x \in InferenceRequest
      PROVE  /\ Older(x) \in InferenceRequest /\ Older(x).id = x.id
             /\ Older(x).retried = x.retried /\ Older(x).age = Up(x.age, MaxAge)
  <2>1. x.age \in 0 .. MaxAge
    BY DEF InferenceRequest
  <2>2. Up(x.age, MaxAge) \in 0 .. MaxAge
    BY <1>3, <1>4, <2>1
  <2> QED
    BY <2>2 DEF InferenceRequest
<1> HIDE DEF Older
<1>6. ASSUME NEW k \in Key
      PROVE  /\ GoodDeque(k, u(k)) /\ u(k) \in Seq(InferenceRequest)
             /\ IdsIn(u(k)) = IdsIn(waiting[k]) /\ (u(k) = <<>> <=> waiting[k] = <<>>)
             /\ ToSet(u(k)) = {Older(x) : x \in ToSet(waiting[k])}
  <2> DEFINE s == waiting[k]
             v == u(k)
  <2>1. s \in Seq(InferenceRequest) /\ GoodDeque(k, s)
    BY <1>2 DEF GoodDeques
  <2>2. \A i \in DOMAIN s : s[i] \in InferenceRequest /\ v[i] = Older(s[i])
    BY <2>1, Indices
  <2>3. /\ v \in [DOMAIN s -> InferenceRequest]
        /\ \A i \in DOMAIN s : v[i].id = s[i].id /\ v[i].retried = s[i].retried
        /\ \A i \in DOMAIN s : v[i].age = Up(s[i].age, MaxAge)
    BY <1>5, <2>2
  <2>4. \A i \in DOMAIN s : s[i].age \in 0 .. MaxAge
    BY <2>2 DEF InferenceRequest
  <2>5. ToSet(v) = {Older(x) : x \in ToSet(s)}
    BY <2>2 DEF ToSet
  <2> HIDE DEF s, v
  <2>6. \A i, j \in DOMAIN s : s[i].age >= s[j].age => v[i].age >= v[j].age
    BY <1>3, <1>4, <2>3, <2>4
  <2>7. /\ GoodDeque(k, v) /\ v \in Seq(InferenceRequest)
        /\ IdsIn(v) = IdsIn(s) /\ (v = <<>> <=> s = <<>>)
    BY <2>1, <2>3, <2>6, Relabelled
  <2> QED
    BY <2>5, <2>7 DEF s, v
<1> HIDE DEF u
<1>7. GoodDeques(waiting') /\ \A k \in Key : waiting'[k] = u(k)
  <2>1. waiting' \in [Key -> Seq(InferenceRequest)] /\ \A k \in Key : waiting'[k] = u(k)
    BY <1>1, <1>6
  <2> QED
    BY <1>6, <2>1 DEF GoodDeques
<1>8. Ids(HeldIn(waiting')) = Ids(Held)
  <2>1. \A r : r \in Ids(HeldIn(waiting')) <=> r \in Ids(HeldIn(waiting))
    BY <1>6, <1>7, HeldIds
  <2> QED
    BY <1>2, <2>1
<1>9. \A k \in Key : /\ timer[k] = Off => timer'[k] = Off
                    /\ timer[k] # Off => /\ timer[k] \in 0 .. MaxWait
                                          /\ timer'[k] = Up(timer[k], MaxWait)
  BY <1>1, <1>2 DEF Sound
<1>10. timer' \in [Key -> {Off} \union 0 .. MaxWait]
  BY <1>1, <1>3, <1>4, <1>9
<1>11. Batching => \A k \in Key : waiting'[k] # <<>> => timer'[k] # Off
  <2>1. \A n \in 0 .. MaxWait : Up(n, MaxWait) # Off
    BY <1>3, <1>4 DEF Off
  <2> QED
    BY <1>2, <1>6, <1>7, <1>9, <2>1 DEF Sound
<1>12. Sound(waiting', timer', order')
  BY <1>1, <1>2, <1>6, <1>7, <1>9, <1>10, <1>11 DEF Sound
<1>13. out \subseteq InferenceRequest /\ IsFiniteSet(out) /\ Distinct(out)
  BY Unfold
<1>14. out' \subseteq InferenceRequest /\ Ids(out') = Ids(out) /\ Distinct(out')
  <2>1. \A x \in out : Older(x) \in InferenceRequest /\ Older(x).id = x.id
    BY <1>5, <1>13
  <2>2. \A x, y \in out : x.id = y.id => Older(x) = Older(y)
    BY <1>13 DEF Distinct
  <2>3. Ids(out') = Ids(out)
    BY <1>1, <2>1 DEF Ids
  <2>4. Distinct(out')
    BY <1>1, <2>1, <2>2 DEF Distinct
  <2> QED
    BY <1>1, <2>1, <2>3, <2>4
<1>15. IsFiniteSet(out')
  <2> DEFINE f == [x \in out |-> Older(x)]
  <2>1. f \in Surjection(out, out')
    BY <1>1 DEF Surjection
  <2> QED
    BY <1>13, <2>1, FS_Surjection
<1> QED
  BY <1>8, <1>12, <1>14, <1>15

-----------------------------------------------------------------------------
(* The invariant is inductive.                                               *)

LEMMA Assemble ==
  ASSUME strategy' = strategy, strategy \in Strategies,
         Sound(waiting', timer', order'),
         out' \subseteq InferenceRequest, IsFiniteSet(out'), Distinct(out'),
         IsFiniteSet(Ids(HeldIn(waiting'))), total' = Cardinality(Ids(HeldIn(waiting'))),
         Ids(HeldIn(waiting')) \intersect Ids(out') = {}
  PROVE  IInv'
<1>1. Sound(waiting, timer, order)'
  BY DEF Sound, GoodDeques, GoodDeque, KeyOfId, Batching
<1>2. Held' = HeldIn(waiting')
  BY DEF Held, HeldIn
<1> QED
  BY <1>1, <1>2 DEF IInv, OutGood, CountGood, TotalMatches

(* Requests leave the deques: expired, purged or handed out.                 *)
LEMMA Leaves ==
  ASSUME IInv, strategy' = strategy, Sound(waiting', timer', order'),
         NEW G \in SUBSET Ids(Held), Ids(HeldIn(waiting')) = Ids(Held) \ G,
         total' = total - Cardinality(G),
         out' = out \/ \E B \in SUBSET Held : Ids(B) = G /\ out' = out \union B
  PROVE  IInv'
<1>1. /\ IsFiniteSet(Ids(Held) \ G) /\ IsFiniteSet(G)
      /\ Cardinality(Ids(Held) \ G) = Cardinality(Ids(Held)) - Cardinality(G)
  BY Unfold, LessSize
<1>2. CASE out' = out
  BY <1>1, <1>2, Unfold, Assemble
<1>3. ASSUME NEW B \in SUBSET Held, Ids(B) = G, out' = out \union B PROVE IInv'
  <2>1. Distinct(B) /\ B \subseteq InferenceRequest
    BY Unfold DEF Distinct
  <2>2. IsFiniteSet(B)
    BY <1>1, <1>3, <2>1, IdsSize
  <2>3. IsFiniteSet(out')
    BY <1>3, <2>2, Unfold, FS_Union
  <2>4. Ids(out') = Ids(out) \union G
    BY <1>3 DEF Ids
  <2>5. \A x \in out, y \in B : x.id # y.id
    BY Unfold DEF Ids
  <2>6. Distinct(out')
    BY <1>3, <2>1, <2>5, Unfold DEF Distinct
  <2>7. Ids(HeldIn(waiting')) \intersect Ids(out') = {}
    BY <2>4, Unfold
  <2>8. out' \subseteq InferenceRequest
    BY <1>3, <2>1, Unfold
  <2> QED
    BY <1>1, <2>3, <2>6, <2>7, <2>8, Unfold, Assemble
<1> QED
  BY <1>2, <1>3

LEMMA InitIInv == Init => IInv
<1> SUFFICES ASSUME Init PROVE IInv
  OBVIOUS
<1>1. /\ strategy \in Strategies /\ order = <<>>
      /\ waiting = [k \in Key |-> <<>>] /\ timer = [k \in Key |-> Off]
      /\ total = 0 /\ out = {}
  BY DEF Init
<1>2. ToSet(<<>>) = {} /\ IsInjective(<<>>)
  BY DEF ToSet, IsInjective
<1>3. waiting \in [Key -> Seq(InferenceRequest)] /\ \A k \in Key : waiting[k] = <<>>
  BY <1>1
<1>4. GoodDeques(waiting)
  BY <1>3, GoodEmpty DEF GoodDeques
<1>5. timer \in [Key -> {Off} \union 0 .. MaxWait] /\ \A k \in Key : timer[k] = Off
  BY <1>1
<1>6. order \in Seq(Key)
  BY <1>1
<1>7. Sound(waiting, timer, order)
  BY <1>1, <1>2, <1>3, <1>4, <1>5, <1>6 DEF Sound
<1>8. Ids(Held) = {} /\ Ids(out) = {}
  BY <1>1, <1>2, <1>3 DEF Held, Ids
<1> QED
  BY <1>1, <1>7, <1>8, FS_EmptySet DEF IInv, OutGood, CountGood, TotalMatches, Distinct

LEMMA SubmitKeeps ==
  ASSUME IInv, NEW r \in Request, Submit(r)
  PROVE  IInv'
<1>1. r \notin Ids(Held) \union Ids(out)
  BY DEF Submit
<1>2. CASE SubmitRoom(Fresh(r))
  <2>1. Sound(waiting', timer', order') /\ Ids(HeldIn(waiting')) = Ids(Held) \union {r}
    BY <1>1, <1>2, RoomEffect
  <2>2. strategy' = strategy /\ out' = out /\ total' = total + 1
    BY <1>2 DEF SubmitRoom
  <2>3. /\ IsFiniteSet(Ids(HeldIn(waiting')))
        /\ total' = Cardinality(Ids(HeldIn(waiting')))
    BY <1>1, <2>1, <2>2, Unfold, AddSize
  <2>4. Ids(HeldIn(waiting')) \intersect Ids(out') = {}
    BY <1>1, <2>1, <2>2, Unfold
  <2> QED
    BY <2>1, <2>2, <2>3, <2>4, Unfold, Assemble
<1>3. CASE SubmitDropping(Fresh(r))
  <2> DEFINE d == Head(waiting[OldestHead])
  <2>1. /\ Sound(waiting', timer', order') /\ d \in Held
        /\ Ids(HeldIn(waiting')) = (Ids(Held) \ {d.id}) \union {r}
    BY <1>1, <1>3, DropEffect
  <2>2. strategy' = strategy /\ out' = out /\ total' = total
    BY <1>3 DEF SubmitDropping
  <2> HIDE DEF d
  <2>3. d.id \in Ids(Held)
    BY <2>1 DEF Ids
  <2> DEFINE G == {d.id}
             A == Ids(Held) \ G
  <2>4. G \in SUBSET Ids(Held) /\ Cardinality(G) = 1
    BY <2>3, FS_Singleton
  <2>5. IsFiniteSet(A) /\ Cardinality(A) = total - 1
    BY <2>4, Unfold, LessSize
  <2> HIDE DEF A
  <2>6. r \notin A
    BY <1>1 DEF A
  <2>7. /\ IsFiniteSet(A \union {r})
        /\ Cardinality(A \union {r}) = total
    BY <2>5, <2>6, Unfold, AddSize
  <2>8. Ids(HeldIn(waiting')) = A \union {r}
    BY <2>1 DEF A
  <2>9. Ids(HeldIn(waiting')) \intersect Ids(out') = {}
    BY <1>1, <2>1, <2>2, Unfold
  <2> QED
    BY <2>1, <2>2, <2>7, <2>8, <2>9, Unfold, Assemble
<1> QED
  BY <1>2, <1>3 DEF Submit

LEMMA ResubmitKeeps ==
  ASSUME IInv, NEW x \in out, Resubmit(x)
  PROVE  IInv'
<1>1. /\ Sound(waiting', timer', order')
      /\ Ids(HeldIn(waiting')) = Ids(Held) \union {x.id}
      /\ x.id \notin Ids(Held) /\ Ids(out') = Ids(out) \ {x.id}
  BY ResubmitEffect
<1>2. strategy' = strategy /\ out' = out \ {x} /\ total' = total + 1
  BY DEF Resubmit
<1>3. /\ IsFiniteSet(Ids(HeldIn(waiting')))
      /\ total' = Cardinality(Ids(HeldIn(waiting')))
  BY <1>1, <1>2, Unfold, AddSize
<1>4. IsFiniteSet(out')
  BY <1>2, Unfold, FS_Subset
<1>5. out' \subseteq InferenceRequest /\ Distinct(out')
  BY <1>2, Unfold DEF Distinct
<1>6. Ids(HeldIn(waiting')) \intersect Ids(out') = {}
  BY <1>1, Unfold
<1> QED
  BY <1>1, <1>2, <1>3, <1>4, <1>5, <1>6, Unfold, Assemble

LEMMA SettleKeeps ==
  ASSUME IInv, NEW x \in out, Settle(x)
  PROVE  IInv'
<1>1. /\ strategy' = strategy /\ order' = order /\ waiting' = waiting
      /\ timer' = timer /\ total' = total /\ out' = out \ {x}
  BY DEF Settle
<1>2. IsFiniteSet(out')
  BY <1>1, Unfold, FS_Subset
<1>3. out' \subseteq InferenceRequest /\ Distinct(out') /\ Ids(out') \subseteq Ids(out)
  BY <1>1, Unfold DEF Distinct, Ids
<1>4. Ids(HeldIn(waiting')) = Ids(Held) /\ Ids(Held) \intersect Ids(out') = {}
  BY <1>1, <1>3, Unfold
<1> QED
  BY <1>1, <1>2, <1>3, <1>4, Unfold, Assemble

LEMMA ServeTurnKeeps ==
  ASSUME IInv, ServeTurn
  PROVE  IInv'
<1> DEFINE h == Head(waiting[First(Waiting)])
           B == {h}
           G == {h.id}
<1>1. /\ Sound(waiting', timer', order')
      /\ h \in Held /\ out' = out \union B
      /\ Ids(HeldIn(waiting')) = Ids(Held) \ G
  BY TurnEffect
<1>2. strategy' = strategy /\ total' = total - 1
  BY DEF ServeTurn
<1> HIDE DEF h
<1>3. G \in SUBSET Ids(Held) /\ B \in SUBSET Held /\ Ids(B) = G
  BY <1>1 DEF Ids
<1>4. Cardinality(G) = 1
  BY FS_Singleton
<1> HIDE DEF G, B
<1> QED
  BY <1>1, <1>2, <1>3, <1>4, Leaves

LEMMA FlushKeeps ==
  ASSUME IInv, Flush
  PROVE  IInv'
<1>1. PICK m \in Waiting, n \in 1 .. MaxBatch, B \in SUBSET Held :
           /\ Sound(waiting', timer', order')
           /\ out' = out \union B /\ total' = total - n
           /\ IsFiniteSet(Ids(B)) /\ Cardinality(Ids(B)) = n
           /\ Ids(HeldIn(waiting')) = Ids(Held) \ Ids(B)
  BY FlushEffect
<1>2. strategy' = strategy
  BY DEF Flush
<1>3. Ids(B) \in SUBSET Ids(Held)
  BY DEF Ids
<1> QED
  BY <1>1, <1>2, <1>3, Leaves

(* The requests of R leave and are counted one by one.                       *)
LEMMA PurgeKeeps ==
  ASSUME IInv, strategy' = strategy, out' = out, Sound(waiting', timer', order'),
         NEW R \in SUBSET Held, Ids(HeldIn(waiting')) = Ids(Held) \ Ids(R),
         total' = total - Cardinality(R)
  PROVE  IInv' /\ Cardinality(R) = Cardinality(Ids(R)) /\ Cardinality(R) \in Nat
<1>1. Ids(R) \in SUBSET Ids(Held)
  BY DEF Ids
<1>2. IsFiniteSet(Ids(R)) /\ Cardinality(Ids(R)) \in Nat
  BY <1>1, Unfold, LessSize
<1>3. Distinct(R)
  BY Unfold DEF Distinct
<1>4. Cardinality(R) = Cardinality(Ids(R))
  BY <1>2, <1>3, IdsSize
<1> QED
  BY <1>1, <1>2, <1>4, Leaves

LEMMA TickKeeps ==
  ASSUME IInv, Tick
  PROVE  IInv'
<1>1. strategy' = strategy /\ out' = out
  BY DEF Tick
<1> QED
  BY <1>1, TickEffect, PurgeKeeps

LEMMA DisconnectKeeps ==
  ASSUME IInv, NEW c \in Client, OnClientDisconnected(c)
  PROVE  IInv'
<1>1. CASE PurgeClient(c)
  <2>1. strategy' = strategy /\ out' = out
    BY <1>1 DEF PurgeClient
  <2> QED
    BY <1>1, <2>1, PurgeEffect, PurgeKeeps
<1>2. CASE ForgetClient(c)
  <2>1. strategy' = strategy /\ out' = out
    BY <1>2 DEF ForgetClient
  <2> QED
    BY <1>2, <2>1, ForgetEffect, Leaves
<1> QED
  BY <1>1, <1>2 DEF OnClientDisconnected

LEMMA ConnectKeeps ==
  ASSUME IInv, NEW c \in Client, OnClientConnected(c)
  PROVE  IInv'
<1>1. strategy' = strategy /\ out' = out /\ total' = total /\ waiting' = waiting
  BY DEF OnClientConnected
<1>2. Sound(waiting', timer', order')
  BY ConnectEffect
<1> QED
  BY <1>1, <1>2, Unfold, Assemble

LEMMA AdvanceKeeps ==
  ASSUME IInv, Advance
  PROVE  IInv'
<1>1. strategy' = strategy /\ total' = total
  BY DEF Advance
<1> QED
  BY <1>1, AdvanceEffect, Unfold, Assemble

LEMMA NextIInv == IInv /\ [Next]_vars => IInv'
<1> SUFFICES ASSUME IInv, [Next]_vars PROVE IInv'
  OBVIOUS
<1>1. ASSUME NEW r \in Request, Submit(r) PROVE IInv'
  BY <1>1, SubmitKeeps
<1>2. ASSUME NEW x \in out, Resubmit(x) PROVE IInv'
  BY <1>2, ResubmitKeeps
<1>3. ASSUME NEW x \in out, Settle(x) PROVE IInv'
  BY <1>3, SettleKeeps
<1>4. CASE ServeTurn
  BY <1>4, ServeTurnKeeps
<1>5. CASE Flush
  BY <1>5, FlushKeeps
<1>6. CASE Tick
  BY <1>6, TickKeeps
<1>7. ASSUME NEW c \in Client, OnClientConnected(c) PROVE IInv'
  BY <1>7, ConnectKeeps
<1>8. ASSUME NEW c \in Client, OnClientDisconnected(c) PROVE IInv'
  BY <1>8, DisconnectKeeps
<1>9. CASE Advance
  BY <1>9, AdvanceKeeps
<1>10. CASE UNCHANGED vars
  <2>1. /\ strategy' = strategy /\ order' = order /\ waiting' = waiting
        /\ timer' = timer /\ total' = total /\ out' = out
    BY <1>10 DEF vars
  <2> QED
    BY <2>1, Unfold, Assemble
<1> QED
  BY <1>1, <1>2, <1>3, <1>4, <1>5, <1>6, <1>7, <1>8, <1>9, <1>10 DEF Next, NextBatch

THEOREM IInvAlways == Spec => []IInv
BY InitIInv, NextIInv, PTL DEF Spec

-----------------------------------------------------------------------------
(* What it gives.                                                            *)

(* The deques, their keys, the timers and what was handed out have the       *)
(* values the code can give them; in particular the dict has each key once,  *)
(* and one for every deque with requests and every timer that runs.          *)
THEOREM TypeCorrect == Spec => []TypeOK
<1>1. IInv => TypeOK
  <2> SUFFICES ASSUME IInv PROVE TypeOK
    OBVIOUS
  <2>1. Sound(waiting, timer, order) /\ GoodDeques(waiting)
    BY Unfold
  <2>2. ASSUME NEW k \in Key, NEW x \in ToSet(waiting[k]) PROVE KeyOf(x) = k
    <3>1. PICK i \in DOMAIN waiting[k] : x = waiting[k][i]
      BY <2>2 DEF ToSet
    <3>2. GoodDeque(k, waiting[k])
      BY <2>1 DEF GoodDeques
    <3>3. KeyOfId(x.id) = k
      BY <3>1, <3>2 DEF GoodDeque
    <3>4. x \in InferenceRequest
      BY <3>1, <3>2, Indices DEF GoodDeque
    <3> QED
      BY <3>3, <3>4, Fields
  <2>3. waiting \in [Key -> Seq(InferenceRequest)]
    BY <2>1 DEF GoodDeques
  <2>4. total \in Int
    BY Unfold
  <2> QED
    BY <2>1, <2>2, <2>3, <2>4, Unfold DEF TypeOK, Sound
<1> QED
  BY <1>1, IInvAlways, PTL

(* _total, kept by hand in six methods of both strategies, is the number of  *)
(* requests the deques hold; each is held once and none is in dispatch.      *)
THEOREM TotalAlwaysMatches == Spec => []TotalMatches
<1>1. IInv => TotalMatches
  BY DEF IInv, CountGood
<1> QED
  BY <1>1, IInvAlways, PTL

-----------------------------------------------------------------------------
(* The timers.                                                               *)

TimersKept ==
  Batching => \A k \in Key : \A x \in ToSet(waiting[k]) :
    x.id \in Ids(ToSet(waiting'[k])) =>
      /\ timer'[k] # Off
      /\ timer'[k] >= timer[k] \/ Cardinality(TakenBefore(k, x)) = MaxBatch

LEMMA TimerRuns ==
  ASSUME IInv, Batching, NEW k \in Key, NEW x \in ToSet(waiting[k])
  PROVE  timer[k] \in 0 .. MaxWait /\ timer[k] # Off
<1>1. Sound(waiting, timer, order) /\ waiting[k] \in Seq(InferenceRequest)
  BY Unfold DEF GoodDeques
<1>2. waiting[k] # <<>>
  BY <1>1, NonEmpty
<1> QED
  BY <1>1, <1>2 DEF Sound

LEMMA AppendOne ==
  ASSUME NEW x \in InferenceRequest
  PROVE  ToSet(Append(<<>>, x)) = {x}
<1>1. <<>> \in Seq(InferenceRequest)
  OBVIOUS
<1>2. Append(<<>>, x) = <<x>>
  BY <1>1
<1> QED
  BY <1>2 DEF ToSet

(* It is enough that no timer of a request that waits on is set back.        *)
LEMMA TimersRunOn ==
  ASSUME IInv,
         Batching => \A k \in Key : \A x \in ToSet(waiting[k]) :
           x.id \in Ids(ToSet(waiting'[k])) => timer'[k] \in Nat /\ timer'[k] >= timer[k]
  PROVE  TimersKept
BY DEF TimersKept, Off

LEMMA TimersUntouched ==
  ASSUME IInv, timer' = timer
  PROVE  TimersKept
<1> SUFFICES ASSUME Batching, NEW k \in Key, NEW x \in ToSet(waiting[k])
             PROVE  timer'[k] \in Nat /\ timer'[k] >= timer[k]
  BY TimersRunOn
<1> QED
  BY TimerRuns

(* Entering a deque starts a timer only where none runs.                     *)
LEMMA EnqueueStarts ==
  ASSUME IInv, NEW w, NEW x \in InferenceRequest, Enqueue(w, timer, x)
  PROVE  TimersKept
<1> SUFFICES ASSUME Batching, NEW k \in Key, NEW y \in ToSet(waiting[k])
             PROVE  timer'[k] \in Nat /\ timer'[k] >= timer[k]
  BY TimersRunOn
<1>1. timer[k] \in 0 .. MaxWait /\ timer[k] # Off
  BY TimerRuns
<1>2. timer' = IF Batching /\ timer[KeyOf(x)] = Off THEN [timer EXCEPT ![KeyOf(x)] = 0] ELSE timer
  BY DEF Enqueue
<1>3. timer'[k] = timer[k]
  BY <1>1, <1>2, Unfold, Fields DEF Sound
<1> QED
  BY <1>1, <1>3

(* An overflow stops the timer of a deque it empties, and only that.         *)
LEMMA DropKeepsTimers ==
  ASSUME IInv, NEW r \in Request, r \notin Ids(Held) \union Ids(out), SubmitDropping(Fresh(r))
  PROVE  TimersKept
<1> DEFINE x == Fresh(r)
           d == OldestHead
           w == [waiting EXCEPT ![d] = Tail(@)]
           t == [timer EXCEPT ![d] = IF w[d] = <<>> THEN Off ELSE @]
<1>1. x \in InferenceRequest /\ x.id = r
  BY FreshFacts
<1>2. Enqueue(w, t, x)
  BY DEF SubmitDropping
<1>3. /\ timer \in [Key -> {Off} \union 0 .. MaxWait]
      /\ waiting \in [Key -> Seq(InferenceRequest)]
  BY Unfold DEF Sound, GoodDeques
<1>4. \A l \in Key : t[l] = timer[l] \/ (l = d /\ w[l] = <<>>)
  BY <1>3
<1>5. /\ waiting' = [w EXCEPT ![KeyOf(x)] = Append(@, x)]
      /\ timer' = IF Batching /\ t[KeyOf(x)] = Off THEN [t EXCEPT ![KeyOf(x)] = 0] ELSE t
      /\ w \in [Key -> Seq(InferenceRequest) \union {Tail(waiting[d])}]
      /\ DOMAIN t = Key
  BY <1>2, <1>3 DEF Enqueue
<1> HIDE DEF x, d, w, t
<1> SUFFICES ASSUME Batching, NEW k \in Key, NEW y \in ToSet(waiting[k]),
                    y.id \in Ids(ToSet(waiting'[k]))
             PROVE  timer'[k] \in Nat /\ timer'[k] >= timer[k]
  BY TimersRunOn
<1>6. timer[k] \in 0 .. MaxWait /\ timer[k] # Off
  BY TimerRuns
<1>7. y.id # x.id
  <2>1. y \in Held
    BY DEF Held
  <2> QED
    BY <1>1, <2>1 DEF Ids
<1>8. w[k] # <<>>
  <2> SUFFICES ASSUME w[k] = <<>> PROVE FALSE
    OBVIOUS
  <2>1. waiting'[k] = <<>> \/ waiting'[k] = Append(<<>>, x)
    BY <1>5
  <2>2. ToSet(<<>>) = {}
    BY DEF ToSet
  <2>3. ToSet(Append(<<>>, x)) = {x}
    BY <1>1, AppendOne
  <2> QED
    BY <1>7, <2>1, <2>2, <2>3 DEF Ids
<1>9. t[k] = timer[k]
  BY <1>4, <1>8
<1>10. timer'[k] = timer[k]
  BY <1>5, <1>6, <1>9
<1> QED
  BY <1>6, <1>10

(* A batch sets a timer back only if it is full, and only for what it leaves *)
(* behind.                                                                   *)
LEMMA FlushKeepsTimers ==
  ASSUME IInv, Flush
  PROVE  TimersKept
<1> DEFINE m == First(Due)
           s == waiting[m]
           n == IF Len(s) < MaxBatch THEN Len(s) ELSE MaxBatch
           B == ToSet(SubSeq(s, 1, n))
           rest == SubSeq(s, n + 1, Len(s))
<1>1. /\ waiting' = [waiting EXCEPT ![m] = rest]
      /\ timer' = [timer EXCEPT ![m] = IF rest = <<>> THEN Off ELSE 0]
      /\ out' = out \union B
  BY DEF Flush
<1>2. /\ timer \in [Key -> {Off} \union 0 .. MaxWait]
      /\ waiting \in [Key -> Seq(InferenceRequest)]
      /\ \A k \in Key : GoodDeque(k, waiting[k])
  BY Unfold DEF Sound, GoodDeques
<1> SUFFICES ASSUME Batching, NEW k \in Key, NEW x \in ToSet(waiting[k]),
                    x.id \in Ids(ToSet(waiting'[k]))
             PROVE  /\ timer'[k] # Off
                    /\ timer'[k] >= timer[k] \/ Cardinality(TakenBefore(k, x)) = MaxBatch
  BY DEF TimersKept
<1>3. CASE k # m
  <2>1. timer'[k] = timer[k]
    BY <1>1, <1>2, <1>3
  <2> QED
    BY <2>1, TimerRuns
<1>4. CASE k = m
  <2>1. s \in Seq(InferenceRequest) /\ GoodDeque(m, s) /\ x \in ToSet(s) /\ m \in Key
    BY <1>2, <1>4
  <2>2. waiting'[m] = rest /\ timer'[m] = IF rest = <<>> THEN Off ELSE 0
    BY <1>1, <1>2, <2>1
  <2>3. DOMAIN s = 1 .. Len(s) /\ Len(s) \in Nat /\ \A i \in DOMAIN s : s[i] \in InferenceRequest
    BY <2>1, Indices
  <2>4. n \in 0 .. Len(s) /\ (n = MaxBatch \/ n = Len(s))
    <3> HIDE DEF s
    <3> QED
      BY <2>3
  <2>5. x.id \in IdsIn(rest)
    BY <1>4, <2>2 DEF IdsIn
  <2> HIDE DEF s, n
  <2>6. /\ IdsIn(rest) = IdsIn(s) \ Ids(B) /\ Ids(B) \subseteq IdsIn(s)
        /\ IsFiniteSet(Ids(B)) /\ Cardinality(Ids(B)) = n
        /\ B \subseteq ToSet(s)
    BY <2>1, <2>4, Cut DEF IdsIn
  <2>7. /\ DOMAIN SubSeq(s, 1, n) = 1 .. n /\ \A i \in 1 .. n : SubSeq(s, 1, n)[i] = s[i]
        /\ DOMAIN rest = 1 .. Len(s) - n
    BY <2>1, <2>4, CutFacts
  <2>8. \A i \in 1 .. n : s[i] \in B
    BY <2>7 DEF ToSet
  <2>9. \A y \in B : \E i \in 1 .. n : y = s[i]
    BY <2>7 DEF ToSet
  <2> HIDE DEF B
  <2>10. n = MaxBatch /\ rest # <<>>
    <3>1. DOMAIN rest # {}
      BY <2>5 DEF IdsIn, Ids, ToSet
    <3>2. n # Len(s)
      BY <2>3, <2>7, <3>1
    <3> QED
      BY <2>4, <3>1, <3>2
  <2>11. PICK j \in DOMAIN s : s[j] = x
    BY <2>1 DEF ToSet
  <2>12. \A i \in 1 .. n : i \in DOMAIN s /\ i < j
    <3>1. j \notin 1 .. n
      <4>1. x.id \notin Ids(B)
        BY <2>5, <2>6
      <4> QED
        BY <2>8, <2>11, <4>1 DEF Ids
    <3>2. DOMAIN s = 1 .. Len(s) /\ Len(s) \in Nat
      BY <2>3
    <3>3. j \in 1 .. Len(s)
      BY <3>2
    <3>4. n \in 0 .. Len(s)
      BY <2>4
    <3>5. \A i \in 1 .. n : i \in 1 .. Len(s) /\ i < j
      BY <3>1, <3>2, <3>3, <3>4
    <3> QED
      BY <3>2, <3>5
  <2>13. B \intersect out = {}
    <3>1. B \subseteq Held
      BY <2>1, <2>6 DEF Held, s
    <3>2. Ids(Held) \intersect Ids(out) = {}
      BY Unfold
    <3> QED
      BY <3>1, <3>2 DEF Ids
  <2>14. TakenBefore(k, x) \subseteq B
    BY <1>1 DEF TakenBefore
  <2>15. ASSUME NEW y \in B PROVE y \in TakenBefore(k, x)
    <3>1. PICK i \in 1 .. n : y = s[i]
      BY <2>9
    <3>2. i \in DOMAIN s /\ i < j
      BY <2>12
    <3>3. y \in out' \ out
      BY <1>1, <2>13
    <3> QED
      BY <1>4, <2>11, <3>1, <3>2, <3>3 DEF TakenBefore, s
  <2>16. Cardinality(B) = n
    <3>1. B \subseteq Held
      BY <2>1, <2>6 DEF Held, s
    <3>2. \A y, z \in B : y.id = z.id => y = z
      BY <3>1, Unfold DEF Distinct
    <3> QED
      BY <2>6, <3>2, SameManyIds DEF Ids
  <2>17. TakenBefore(k, x) = B
    BY <2>14, <2>15
  <2> QED
    BY <1>4, <2>2, <2>10, <2>16, <2>17 DEF Off
<1> QED
  BY <1>3, <1>4

LEMMA TickKeepsTimers ==
  ASSUME IInv, Tick
  PROVE  TimersKept
<1>1. timer' = [k \in Key |-> IF k \in Key /\ waiting'[k] = <<>> THEN Off ELSE timer[k]]
  BY DEF Tick, StopEmptied
<1> SUFFICES ASSUME Batching, NEW k \in Key, NEW x \in ToSet(waiting[k]),
                    x.id \in Ids(ToSet(waiting'[k]))
             PROVE  timer'[k] \in Nat /\ timer'[k] >= timer[k]
  BY TimersRunOn
<1>2. waiting'[k] # <<>>
  BY DEF Ids, ToSet
<1>3. timer'[k] = timer[k]
  BY <1>1, <1>2
<1>4. timer[k] \in Nat /\ timer[k] >= timer[k]
  BY TimerRuns
<1> QED
  BY <1>3, <1>4

LEMMA AdvanceKeepsTimers ==
  ASSUME IInv, Advance
  PROVE  TimersKept
<1> SUFFICES ASSUME Batching, NEW k \in Key, NEW x \in ToSet(waiting[k])
             PROVE  timer'[k] \in Nat /\ timer'[k] >= timer[k]
  BY TimersRunOn
<1>1. timer[k] \in 0 .. MaxWait /\ timer[k] # Off
  BY TimerRuns
<1>2. timer'[k] = IF timer[k] < MaxWait THEN timer[k] + 1 ELSE timer[k]
  BY <1>1 DEF Advance
<1> QED
  BY <1>1, <1>2

LEMMA NextKeepsTimers == IInv /\ [Next]_vars => [TimersKept]_vars
<1> SUFFICES ASSUME IInv, Next PROVE TimersKept
  OBVIOUS
<1>1. ASSUME NEW r \in Request, Submit(r) PROVE TimersKept
  <2>1. CASE SubmitRoom(Fresh(r))
    BY <2>1, FreshFacts, EnqueueStarts DEF SubmitRoom
  <2>2. CASE SubmitDropping(Fresh(r))
    BY <1>1, <2>2, DropKeepsTimers DEF Submit
  <2> QED
    BY <1>1, <2>1, <2>2 DEF Submit
<1>2. ASSUME NEW x \in out, Resubmit(x) PROVE TimersKept
  BY <1>2, Unfold, RetriedFacts, EnqueueStarts DEF Resubmit
<1>3. ASSUME NEW x \in out, Settle(x) PROVE TimersKept
  BY <1>3, TimersUntouched DEF Settle
<1>4. CASE NextBatch
  BY <1>4, TimersUntouched, FlushKeepsTimers DEF NextBatch, ServeTurn
<1>5. CASE Tick
  BY <1>5, TickKeepsTimers
<1>6. ASSUME NEW c \in Client, OnClientConnected(c) \/ OnClientDisconnected(c) PROVE TimersKept
  BY <1>6, TimersUntouched DEF OnClientConnected, OnClientDisconnected, ForgetClient, PurgeClient
<1>7. CASE Advance
  BY <1>7, AdvanceKeepsTimers
<1> QED
  BY <1>1, <1>2, <1>3, <1>4, <1>5, <1>6, <1>7 DEF Next

(* Whatever comes, goes, overflows, fails or expires, a request of           *)
(* batch_optimized waits on a running timer, which only a full batch of      *)
(* requests from before it in its deque sets back.                           *)
THEOREM TimersAlwaysKept == Spec => TimerKept
<1>1. IInv /\ [Next]_vars
        => [Batching => \A k \in Key : \A x \in ToSet(waiting[k]) :
              x.id \in Ids(ToSet(waiting'[k])) =>
                /\ timer'[k] # Off
                /\ timer'[k] >= timer[k] \/ Cardinality(TakenBefore(k, x)) = MaxBatch]_vars
  BY NextKeepsTimers DEF TimersKept
<1> QED
  BY <1>1, IInvAlways, PTL DEF Spec, TimerKept

-----------------------------------------------------------------------------
(* The refinement: deques, dict, timers and total implement Scheduler.       *)

(* The instance speaks of the same finite sets and sizes.                    *)
LEMMA SameSizes ==
  ASSUME NEW A
  PROVE  /\ S!IsFiniteSet(A) <=> IsFiniteSet(A)
         /\ S!Cardinality(A) = Cardinality(A)
<1>1. S!IsFiniteSet(A) <=> IsFiniteSet(A)
  BY DEF S!IsFiniteSet, IsFiniteSet
<1>2. S!Cardinality(A) = Cardinality(A)
  BY DEF S!Cardinality, Cardinality
<1> QED
  BY <1>1, <1>2

LEMMA HeldNext == Held' = HeldIn(waiting')
BY DEF Held, HeldIn

LEMMA InitRefines == Init => S!Init
<1> SUFFICES ASSUME Init PROVE S!Init
  OBVIOUS
<1>1. \A k \in Key : waiting[k] = <<>>
  BY DEF Init
<1>2. Held = {} /\ out = {}
  BY <1>1 DEF Held, ToSet, Init
<1> QED
  BY <1>2 DEF S!Init, Ids

LEMMA SubmitRefines ==
  ASSUME IInv, NEW r \in Request, Submit(r)
  PROVE  S!Submit(r)
<1>1. r \notin Ids(Held) \union Ids(out)
  BY DEF Submit
<1>2. Cardinality(Ids(Held)) = total /\ total \in Nat
  BY Unfold
<1>3. CASE SubmitRoom(Fresh(r))
  <2>1. Ids(HeldIn(waiting')) = Ids(Held) \union {r}
    BY <1>1, <1>3, RoomEffect
  <2>2. Cardinality(Ids(Held)) < MaxQueue /\ out' = out
    BY <1>2, <1>3 DEF SubmitRoom
  <2>3. Ids(Held') \in S!AfterSubmit(Ids(Held), r)
    BY <2>1, <2>2, HeldNext, SameSizes DEF S!AfterSubmit
  <2> QED
    BY <1>1, <2>2, <2>3 DEF S!Submit
<1>4. CASE SubmitDropping(Fresh(r))
  <2> DEFINE d == Head(waiting[OldestHead])
  <2>1. d \in Held /\ Ids(HeldIn(waiting')) = (Ids(Held) \ {d.id}) \union {r}
    BY <1>1, <1>4, DropEffect
  <2>2. ~ (Cardinality(Ids(Held)) < MaxQueue) /\ OverflowPolicy = "drop_oldest" /\ out' = out
    BY <1>2, <1>4 DEF SubmitDropping
  <2> HIDE DEF d
  <2>3. d.id \in Ids(Held)
    BY <2>1 DEF Ids
  <2>4. Ids(Held') \in S!AfterSubmit(Ids(Held), r)
    BY <2>1, <2>2, <2>3, HeldNext, SameSizes DEF S!AfterSubmit
  <2> QED
    BY <1>1, <2>2, <2>4 DEF S!Submit
<1> QED
  BY <1>3, <1>4 DEF Submit

(* Handing out n requests to a caller that has less than MaxOut in dispatch. *)
LEMMA HandsOut ==
  ASSUME IInv, Cardinality(out) < MaxOut, NEW n \in 1 .. MaxBatch, NEW B \in SUBSET Held,
         IsFiniteSet(Ids(B)), Cardinality(Ids(B)) = n,
         out' = out \union B, Ids(HeldIn(waiting')) = Ids(Held) \ Ids(B)
  PROVE  \E C \in SUBSET Ids(Held) : S!NextBatch(C)
<1> DEFINE C == Ids(B)
<1>1. C \in SUBSET Ids(Held) /\ Ids(out') = Ids(out) \union C
  BY DEF Ids
<1>2. /\ IsFiniteSet(Ids(out)) /\ Cardinality(Ids(out)) \in Nat
      /\ Cardinality(Ids(out)) <= MaxOut - 1
  <2>1. IsFiniteSet(Ids(out)) /\ Cardinality(Ids(out)) <= Cardinality(out)
    BY Unfold, FewIds
  <2>2. Cardinality(Ids(out)) \in Nat /\ Cardinality(out) \in Nat
    BY <2>1, Unfold, FS_CardinalityType
  <2> QED
    BY <2>1, <2>2
<1>3. IsFiniteSet(C) /\ Cardinality(C) = n
  OBVIOUS
<1> HIDE DEF C
<1>4. C # {}
  <2>1. Cardinality(C) # 0
    BY <1>3
  <2> QED
    BY <2>1, FS_EmptySet
<1>5. /\ IsFiniteSet(Ids(out) \union C)
      /\ Cardinality(Ids(out) \union C)
           = Cardinality(Ids(out)) + Cardinality(C) - Cardinality(Ids(out) \intersect C)
      /\ Cardinality(Ids(out) \intersect C) \in Nat
  <2>1. IsFiniteSet(Ids(out) \intersect C)
    BY <1>2, FS_Subset
  <2>2. Cardinality(Ids(out) \intersect C) \in Nat
    BY <2>1, FS_CardinalityType
  <2> QED
    BY <1>2, <1>3, <2>2, FS_Union
<1>6. Cardinality(Ids(out) \union C) <= MaxOut + MaxBatch - 1
  BY <1>2, <1>3, <1>5
<1>7. Ids(Held') = Ids(Held) \ C
  BY HeldNext DEF C
<1> QED
  BY <1>1, <1>4, <1>5, <1>6, <1>7, SameSizes DEF S!NextBatch

LEMMA ServeTurnRefines ==
  ASSUME IInv, ServeTurn
  PROVE  \E C \in SUBSET Ids(Held) : S!NextBatch(C)
<1> DEFINE h == Head(waiting[First(Waiting)])
           B == {h}
<1>1. h \in Held /\ out' = out \union B /\ Ids(HeldIn(waiting')) = Ids(Held) \ {h.id}
  BY TurnEffect
<1>2. Cardinality(out) < MaxOut
  BY DEF ServeTurn
<1> HIDE DEF h
<1>3. B \in SUBSET Held /\ Ids(B) = {h.id}
  BY <1>1 DEF Ids
<1>4. IsFiniteSet({h.id}) /\ Cardinality({h.id}) = 1
  BY FS_Singleton
<1>5. 1 \in 1 .. MaxBatch
  OBVIOUS
<1> HIDE DEF B
<1> QED
  BY <1>1, <1>2, <1>3, <1>4, <1>5, HandsOut

LEMMA FlushRefines ==
  ASSUME IInv, Flush
  PROVE  \E C \in SUBSET Ids(Held) : S!NextBatch(C)
<1>1. Cardinality(out) < MaxOut
  BY DEF Flush
<1> QED
  BY <1>1, FlushEffect, HandsOut

LEMMA SettleRefines ==
  ASSUME IInv, NEW x \in out, Settle(x)
  PROVE  {x.id} \in SUBSET Ids(out) /\ S!Settle({x.id})
<1>1. out' = out \ {x} /\ waiting' = waiting
  BY DEF Settle
<1>2. Ids(out') = Ids(out) \ {x.id} /\ x.id \in Ids(out)
  BY <1>1, Unfold DEF Ids, Distinct
<1>3. Held' = Held
  BY <1>1, Unfold, HeldNext
<1> QED
  BY <1>2, <1>3 DEF S!Settle

LEMMA TickRefines ==
  ASSUME IInv, Tick
  PROVE  \E E \in SUBSET Ids(Held) : S!Tick(E)
<1>1. Ids(Expired) \in SUBSET Ids(Held)
  BY DEF Expired, Ids
<1>2. Ids(Held') = Ids(Held) \ Ids(Expired)
  BY TickEffect, HeldNext
<1> QED
  BY <1>1, <1>2 DEF S!Tick, Tick

LEMMA DisconnectRefines ==
  ASSUME IInv, NEW c \in Client, OnClientDisconnected(c)
  PROVE  S!OnClientDisconnected(c)
<1>1. Ids(Held') = Ids(Held) \ {r \in Ids(Held) : ClientOf[r] = c} /\ out' = out
  <2>1. CASE PurgeClient(c)
    BY <2>1, PurgeEffect, HeldNext DEF PurgeClient
  <2>2. CASE ForgetClient(c)
    BY <2>2, ForgetEffect, HeldNext DEF ForgetClient
  <2> QED
    BY <2>1, <2>2 DEF OnClientDisconnected
<1> QED
  BY <1>1 DEF S!OnClientDisconnected, S!OfClient

LEMMA NextRefines == IInv /\ [Next]_vars => [S!Next]_(S!vars)
<1> SUFFICES ASSUME IInv, [Next]_vars PROVE [S!Next]_(S!vars)
  OBVIOUS
<1>1. ASSUME NEW r \in Request, Submit(r) PROVE S!Next
  BY <1>1, SubmitRefines DEF S!Next
<1>2. ASSUME NEW x \in out, Resubmit(x) PROVE S!Next
  <2>1. S!Resubmit(x.id)
    BY <1>2, ResubmitEffect, HeldNext DEF S!Resubmit
  <2>2. x.id \in Ids(out)
    BY DEF Ids
  <2> QED
    BY <2>1, <2>2 DEF S!Next
<1>3. ASSUME NEW x \in out, Settle(x) PROVE S!Next
  BY <1>3, SettleRefines DEF S!Next
<1>4. CASE ServeTurn
  BY <1>4, ServeTurnRefines DEF S!Next
<1>5. CASE Flush
  BY <1>5, FlushRefines DEF S!Next
<1>6. CASE Tick
  BY <1>6, TickRefines DEF S!Next
<1>7. ASSUME NEW c \in Client, OnClientConnected(c) PROVE UNCHANGED S!vars
  <2>1. waiting' = waiting /\ out' = out
    BY <1>7 DEF OnClientConnected
  <2> QED
    BY <2>1, HeldNext, Unfold DEF S!vars
<1>8. ASSUME NEW c \in Client, OnClientDisconnected(c) PROVE S!Next
  BY <1>8, DisconnectRefines DEF S!Next
<1>9. CASE Advance
  BY <1>9, AdvanceEffect, HeldNext DEF S!vars
<1>10. CASE UNCHANGED vars
  <2>1. waiting' = waiting /\ out' = out
    BY <1>10 DEF vars
  <2> QED
    BY <2>1, HeldNext, Unfold DEF S!vars
<1> QED
  BY <1>1, <1>2, <1>3, <1>4, <1>5, <1>6, <1>7, <1>8, <1>9, <1>10 DEF Next, NextBatch

(* round_robin and batch_optimized keep the promise of the Scheduler ABC,    *)
(* with a batch adding its size less one to what the caller has in dispatch. *)
THEOREM Refinement == Spec => Refines
<1>1. Spec => S!Init
  BY InitRefines DEF Spec
<1>2. Spec => [][S!Next]_(S!vars)
  BY NextRefines, IInvAlways, PTL DEF Spec
<1> QED
  BY <1>1, <1>2, PTL DEF Refines, S!Spec

-----------------------------------------------------------------------------
(* What a step may never do.                                                 *)

(* Deques are sorted but for retries, so the oldest head is older than all.  *)
LEMMA OldestIsOldest ==
  ASSUME IInv, Waiting # {}, NEW y \in Held, ~ y.retried
  PROVE  Head(waiting[OldestHead]).age >= y.age
<1>1. PICK l \in Key : y \in ToSet(waiting[l])
  BY DEF Held
<1> DEFINE s == waiting[l]
<1>2. PICK j \in DOMAIN s : y = s[j]
  BY <1>1 DEF ToSet
<1>3. GoodDeque(l, s) /\ s \in Seq(InferenceRequest)
  BY Unfold DEF GoodDeques
<1>4. s # <<>>
  BY <1>1, <1>3, NonEmpty
<1>5. l \in Waiting
  BY <1>4 DEF Waiting
<1>6. /\ Head(s) = s[1] /\ 1 \in DOMAIN s /\ Head(s) \in InferenceRequest
      /\ DOMAIN s = 1 .. Len(s) /\ Len(s) \in Nat
  BY <1>3, <1>4, OneHead, Indices
<1>7. AgeOfHead(l) = Head(s).age /\ AgeOfHead(OldestHead) = Head(waiting[OldestHead]).age
  BY DEF AgeOfHead
<1>8. AgeOfHead(OldestHead) >= AgeOfHead(l) /\ OldestHead \in Waiting
  BY <1>5, OldestHeadFacts
<1>9. Head(waiting[OldestHead]) \in InferenceRequest
  BY <1>8, WaitingFacts, OneHead
<1> HIDE DEF s
<1>10. Head(s).age >= y.age
  <2>1. CASE j = 1
    <3>1. Head(s).age = y.age /\ y.age \in Int
      BY <1>2, <1>6, <2>1, Fields
    <3> QED
      BY <3>1
  <2>2. CASE j # 1
    <3>1. 1 < j
      BY <1>2, <1>6, <2>2
    <3>2. s[1].age >= s[j].age
      BY <1>2, <1>3, <1>6, <3>1 DEF GoodDeque
    <3> QED
      BY <1>2, <1>6, <3>2
  <2> QED
    BY <2>1, <2>2
<1>11. /\ Head(waiting[OldestHead]).age \in Int /\ Head(s).age \in Int
       /\ y \in InferenceRequest
  BY <1>6, <1>9, Unfold, Fields
<1>12. y.age \in Int
  BY <1>11, Fields
<1> QED
  BY <1>7, <1>8, <1>10, <1>11, <1>12

DropsOldest ==
  \A d \in Held : d.id \notin Ids(Held') /\ out' = out /\ total' = total
    => \A y \in Held : y.retried \/ d.age >= y.age

(* Requests that leave in other ways are counted, or handed out.             *)
LEMMA CountedIsNoDrop ==
  ASSUME IInv, NEW G \in SUBSET Ids(Held), Ids(HeldIn(waiting')) = Ids(Held) \ G,
         total' = total - Cardinality(G)
  PROVE  DropsOldest
<1>1. IsFiniteSet(G) /\ Cardinality(G) \in Nat /\ total \in Nat
  BY Unfold, LessSize
<1>2. SUFFICES ASSUME NEW d \in Held, d.id \notin Ids(Held'), total' = total PROVE FALSE
  BY DEF DropsOldest
<1>3. Cardinality(G) = 0
  BY <1>1, <1>2
<1>4. G = {}
  BY <1>1, <1>3, FS_EmptySet
<1>5. d.id \in Ids(Held)
  BY DEF Ids
<1> QED
  BY <1>2, <1>4, <1>5, HeldNext

LEMMA KeptIsNoDrop ==
  ASSUME Ids(Held) \subseteq Ids(HeldIn(waiting'))
  PROVE  DropsOldest
BY HeldNext DEF DropsOldest, Ids

LEMMA OverflowDropsOldest ==
  ASSUME IInv, NEW r \in Request, r \notin Ids(Held) \union Ids(out), SubmitDropping(Fresh(r))
  PROVE  DropsOldest
<1> DEFINE h == Head(waiting[OldestHead])
<1>1. Waiting # {} /\ h \in Held /\ Ids(HeldIn(waiting')) = (Ids(Held) \ {h.id}) \union {r}
  BY DropEffect
<1>2. ASSUME NEW d \in Held, d.id \notin Ids(Held'), NEW y \in Held, ~ y.retried
      PROVE  d.age >= y.age
  <2>1. h.age >= y.age
    BY <1>1, <1>2, OldestIsOldest
  <2> HIDE DEF h
  <2>2. d.id \in Ids(Held)
    BY DEF Ids
  <2>3. d.id = h.id
    BY <1>1, <1>2, <2>2, HeldNext
  <2>4. d = h
    BY <1>1, <2>3, Unfold DEF Distinct
  <2> QED
    BY <2>1, <2>4
<1> QED
  BY <1>2 DEF DropsOldest

LEMMA NextDropsOldest == IInv /\ [Next]_vars => [DropsOldest]_vars
<1> SUFFICES ASSUME IInv, Next PROVE DropsOldest
  OBVIOUS
<1>1. ASSUME NEW r \in Request, Submit(r) PROVE DropsOldest
  <2>1. r \notin Ids(Held) \union Ids(out)
    BY <1>1 DEF Submit
  <2>2. CASE SubmitRoom(Fresh(r))
    BY <2>1, <2>2, RoomEffect, KeptIsNoDrop
  <2>3. CASE SubmitDropping(Fresh(r))
    BY <2>1, <2>3, OverflowDropsOldest
  <2> QED
    BY <1>1, <2>2, <2>3 DEF Submit
<1>2. ASSUME NEW x \in out, Resubmit(x) PROVE DropsOldest
  BY <1>2, ResubmitEffect, KeptIsNoDrop
<1>3. ASSUME waiting' = waiting PROVE DropsOldest
  BY <1>3, Unfold, KeptIsNoDrop
<1>4. ASSUME NEW x \in out, Settle(x) PROVE DropsOldest
  BY <1>3, <1>4 DEF Settle
<1>5. CASE ServeTurn
  <2>1. total' = total - 1 /\ total \in Nat
    BY <1>5, Unfold DEF ServeTurn
  <2> QED
    BY <2>1 DEF DropsOldest
<1>6. CASE Flush
  <2>1. PICK n \in 1 .. MaxBatch : total' = total - n
    BY <1>6, FlushEffect
  <2>2. total' # total
    BY <2>1, Unfold
  <2> QED
    BY <2>2 DEF DropsOldest
<1>7. ASSUME NEW R \in SUBSET Held, Ids(HeldIn(waiting')) = Ids(Held) \ Ids(R),
             total' = total - Cardinality(R)
      PROVE  DropsOldest
  <2>1. Ids(R) \in SUBSET Ids(Held)
    BY DEF Ids
  <2>2. IsFiniteSet(Ids(R)) /\ Distinct(R)
    BY <2>1, Unfold, LessSize DEF Distinct
  <2>3. Cardinality(R) = Cardinality(Ids(R))
    BY <2>2, IdsSize
  <2> QED
    BY <1>7, <2>1, <2>3, CountedIsNoDrop
<1>8. CASE Tick
  BY <1>7, <1>8, TickEffect
<1>9. ASSUME NEW c \in Client, OnClientConnected(c) PROVE DropsOldest
  BY <1>3, <1>9 DEF OnClientConnected
<1>10. ASSUME NEW c \in Client, PurgeClient(c) PROVE DropsOldest
  BY <1>7, <1>10, PurgeEffect
<1>11. ASSUME NEW c \in Client, ForgetClient(c) PROVE DropsOldest
  BY <1>11, ForgetEffect, CountedIsNoDrop
<1>12. CASE Advance
  BY <1>12, AdvanceEffect, KeptIsNoDrop
<1> QED
  BY <1>1, <1>2, <1>4, <1>5, <1>6, <1>8, <1>9, <1>10, <1>11, <1>12
     DEF Next, NextBatch, OnClientDisconnected

(* An overflow drops no request while an older one is held, save retries,    *)
(* although it looks at the heads of the deques only.                        *)
THEOREM OverflowDropsTheOldest == Spec => DropsOldestButRetries
<1>1. IInv /\ [Next]_vars
        => [\A d \in Held : d.id \notin Ids(Held') /\ out' = out /\ total' = total
              => \A y \in Held : y.retried \/ d.age >= y.age]_vars
  BY NextDropsOldest DEF DropsOldest
<1> QED
  BY <1>1, IInvAlways, PTL DEF Spec, DropsOldestButRetries

-----------------------------------------------------------------------------
(* Turns.                                                                    *)

\* l comes before k in s.
Precedes(l, k, s) == \E i, j \in DOMAIN s : i < j /\ s[i] = l /\ s[j] = k

\* Those that come before k in s; Ahead(k) in terms of any order.
AheadIn(k, s) ==
  {l \in ToSet(s) : (CHOOSE i \in DOMAIN s : s[i] = l) < (CHOOSE i \in DOMAIN s : s[i] = k)}

LEMMA PrecedesFacts ==
  ASSUME NEW s \in Seq(Key), IsInjective(s), NEW k \in ToSet(s), NEW l
  PROVE  l \in AheadIn(k, s) <=> Precedes(l, k, s)
<1> DEFINE at(m) == CHOOSE i \in DOMAIN s : s[i] = m
<1>1. \A m \in ToSet(s) : at(m) \in DOMAIN s /\ s[at(m)] = m
  BY Found
<1>2. ASSUME NEW i \in DOMAIN s PROVE s[i] \in ToSet(s) /\ at(s[i]) = i
  <2>1. s[i] \in ToSet(s)
    BY DEF ToSet
  <2>2. at(s[i]) \in DOMAIN s /\ s[at(s[i])] = s[i]
    BY <1>1, <2>1
  <2> HIDE DEF at
  <2> QED
    BY <2>1, <2>2 DEF IsInjective
<1>3. l \in AheadIn(k, s) <=> l \in ToSet(s) /\ at(l) < at(k)
  BY DEF AheadIn
<1> HIDE DEF at
<1> QED
  BY <1>1, <1>2, <1>3 DEF Precedes

\* k is in the new order, and nobody comes before it who did not before.
KeepsTurn(k) ==
  /\ k \in ToSet(order')
  /\ \A l : Precedes(l, k, order') => Precedes(l, k, order)

TurnsKept ==
  \A k \in Waiting : Len(waiting'[k]) >= Len(waiting[k]) => Ahead(k)' \subseteq Ahead(k)

LEMMA KeptByEach ==
  ASSUME IInv, IInv',
         \A k \in Waiting : Len(waiting'[k]) >= Len(waiting[k]) => KeepsTurn(k)
  PROVE  TurnsKept
<1>1. /\ order \in Seq(Key) /\ IsInjective(order)
      /\ order' \in Seq(Key) /\ IsInjective(order')
  BY DEF IInv, Sound
<1>2. ASSUME NEW k \in Waiting, KeepsTurn(k) PROVE Ahead(k)' \subseteq Ahead(k)
  <2>1. k \in ToSet(order) /\ k \in ToSet(order')
    BY <1>2, WaitingFacts DEF KeepsTurn
  <2>2. AheadIn(k, order') \subseteq AheadIn(k, order)
    BY <1>1, <1>2, <2>1, PrecedesFacts DEF KeepsTurn
  <2>3. Ahead(k)' = AheadIn(k, order') /\ Ahead(k) = AheadIn(k, order)
    BY DEF Ahead, AheadIn, Place
  <2> QED
    BY <2>2, <2>3
<1> QED
  BY <1>2 DEF TurnsKept

(* New keys go to the end.                                                   *)
LEMMA WithKeyKeeps ==
  ASSUME IInv, NEW c \in Key, order' = WithKey(c), NEW k \in Waiting
  PROVE  KeepsTurn(k)
<1>1. k \in ToSet(order) /\ order \in Seq(Key) /\ IsInjective(order)
  BY WaitingFacts, Unfold
<1>2. ToSet(order') = ToSet(order) \union {c}
  BY <1>1, WithKeyFacts
<1>3. ASSUME c \notin ToSet(order), NEW l, Precedes(l, k, order') PROVE Precedes(l, k, order)
  <2> DEFINE n == Len(order) + 1
  <2>1. /\ DOMAIN order' = DOMAIN order \union {n} /\ order'[n] = c
        /\ \A i \in DOMAIN order : order'[i] = order[i] /\ i < n
    BY <1>1, <1>3, AppendFacts DEF WithKey
  <2>2. n \in Int /\ \A i \in DOMAIN order : i \in Int
    BY <1>1, LenProperties
  <2> HIDE DEF n
  <2>3. PICK i \in DOMAIN order', j \in DOMAIN order' : i < j /\ order'[i] = l /\ order'[j] = k
    BY <1>3 DEF Precedes
  <2>4. j # n
    BY <1>1, <1>3, <2>1, <2>3
  <2>5. j \in DOMAIN order /\ j < n
    BY <2>1, <2>4
  <2>6. i # n
    BY <2>2, <2>3, <2>5
  <2>7. i \in DOMAIN order /\ order[i] = l /\ order[j] = k
    BY <2>1, <2>3, <2>5, <2>6
  <2> QED
    BY <2>3, <2>5, <2>7 DEF Precedes
<1>4. c \in ToSet(order) => order' = order
  BY DEF WithKey
<1> QED
  BY <1>1, <1>2, <1>3, <1>4 DEF KeepsTurn

(* Keys that leave take nobody's place.                                      *)
LEMMA ThinsKeeps ==
  ASSUME NEW k, k \in ToSet(order'), Thins(order', order)
  PROVE  KeepsTurn(k)
BY DEF KeepsTurn, Thins, Embeds, Precedes

(* The rotation: those before the client served, itself and nobody who waits *)
(* go to the end.                                                            *)
LEMMA RotationKeeps ==
  ASSUME IInv, ServeTurn, NEW k \in Waiting, Len(waiting'[k]) >= Len(waiting[k])
  PROVE  KeepsTurn(k)
<1> DEFINE c == First(Waiting)
           p == Place(c)
           n == Len(order) - p
<1>1. /\ c \in Waiting /\ p \in DOMAIN order /\ p <= Place(k)
      /\ waiting' = [waiting EXCEPT ![c] = Tail(@)]
      /\ order' = SubSeq(order, p + 1, Len(order)) \o SubSeq(order, 1, p)
  BY TurnEffect
<1>2. order \in Seq(Key) /\ IsInjective(order) /\ c \in ToSet(order) /\ k \in ToSet(order)
  BY <1>1, Unfold, WaitingFacts
<1>3. order[p] = c /\ Place(k) \in DOMAIN order /\ order[Place(k)] = k
  BY <1>2, Found DEF Place
<1>4. k # c
  <2>1. c \in Key /\ waiting[c] # <<>> /\ GoodDeque(c, waiting[c]) /\ GoodDeques(waiting)
    BY <1>1, WaitingFacts, Unfold
  <2>2. Len(Tail(waiting[c])) = Len(waiting[c]) - 1 /\ Len(waiting[c]) \in Nat
    BY <2>1, OneHead, Indices DEF GoodDeque
  <2>3. waiting'[c] = Tail(waiting[c])
    BY <1>1, <2>1 DEF GoodDeques
  <2>4. Len(waiting'[c]) = Len(waiting[c]) - 1
    BY <2>2, <2>3
  <2>5. ~ (Len(waiting'[c]) >= Len(waiting[c]))
    BY <2>2, <2>4
  <2> HIDE DEF c
  <2> QED
    BY <2>5
<1> HIDE DEF c, p
<1>5. /\ ToSet(order') = ToSet(order) /\ DOMAIN order' = DOMAIN order
      /\ \A i \in DOMAIN order' :
           order'[i] = IF i <= n THEN order[p + i] ELSE order[i - n]
  BY <1>1, <1>2, Rotated
<1>6. DOMAIN order = 1 .. Len(order) /\ Len(order) \in Nat
  BY <1>2, LenProperties
<1>7. ASSUME NEW l, Precedes(l, k, order') PROVE Precedes(l, k, order)
  <2>1. PICK i \in DOMAIN order', j \in DOMAIN order' : i < j /\ order'[i] = l /\ order'[j] = k
    BY <1>7 DEF Precedes
  <2>2. i \in Int /\ j \in Int /\ n \in Int /\ p \in Int /\ Place(k) \in Int
    BY <1>1, <1>3, <1>5, <1>6, <2>1
  <2>3. j <= n
    <3>1. SUFFICES ASSUME ~ (j <= n) PROVE FALSE
      OBVIOUS
    <3>2. order[j - n] = k /\ j - n \in DOMAIN order /\ j - n <= p
      <4>1. order[j - n] = k
        BY <1>5, <2>1, <3>1
      <4>2. j \in 1 .. Len(order) /\ p \in 1 .. Len(order) /\ Len(order) \in Nat
        BY <1>1, <1>5, <1>6, <2>1
      <4>3. j - n \in 1 .. Len(order) /\ j - n <= p
        BY <3>1, <4>2
      <4> QED
        BY <1>6, <4>1, <4>3
    <3>3. j - n = Place(k)
      BY <1>2, <1>3, <3>2 DEF IsInjective
    <3>4. Place(k) = p
      BY <1>1, <2>2, <3>2, <3>3
    <3> QED
      BY <1>3, <1>4, <3>4
  <2>4. i <= n
    BY <2>1, <2>2, <2>3
  <2>5. order[p + i] = l /\ order[p + j] = k
    BY <1>5, <2>1, <2>3, <2>4
  <2>6. p + i \in DOMAIN order /\ p + j \in DOMAIN order /\ p + i < p + j
    <3>1. /\ i \in 1 .. Len(order) /\ j \in 1 .. Len(order)
          /\ p \in 1 .. Len(order) /\ Len(order) \in Nat
      BY <1>1, <1>5, <1>6, <2>1
    <3>2. p + i \in 1 .. Len(order) /\ p + j \in 1 .. Len(order) /\ p + i < p + j
      BY <2>1, <2>3, <2>4, <3>1
    <3> QED
      BY <1>6, <3>2
  <2> QED
    BY <2>5, <2>6 DEF Precedes
<1> QED
  BY <1>2, <1>5, <1>7 DEF KeepsTurn

LEMMA NextKeepsTurns == IInv /\ IInv' /\ [Next]_vars => [TurnsKept]_vars
<1> SUFFICES ASSUME IInv, IInv', Next PROVE TurnsKept
  OBVIOUS
<1>1. ASSUME order' = order PROVE TurnsKept
  <2>1. \A k \in Waiting : KeepsTurn(k)
    BY <1>1, WaitingFacts DEF KeepsTurn
  <2> QED
    BY <2>1, KeptByEach
<1>2. ASSUME NEW c \in Key, order' = WithKey(c) PROVE TurnsKept
  <2>1. \A k \in Waiting : KeepsTurn(k)
    BY <1>2, WithKeyKeeps
  <2> QED
    BY <2>1, KeptByEach
<1>3. ASSUME NEW w, NEW t, NEW x \in InferenceRequest, Enqueue(w, t, x) PROVE TurnsKept
  <2>1. KeyOf(x) \in Key
    BY Fields
  <2> QED
    BY <1>2, <1>3, <2>1 DEF Enqueue
<1>4. ASSUME NEW r \in Request, Submit(r) PROVE TurnsKept
  <2>1. Fresh(r) \in InferenceRequest
    BY FreshFacts
  <2> QED
    BY <1>3, <1>4, <2>1 DEF Submit, SubmitRoom, SubmitDropping
<1>5. ASSUME NEW x \in out, Resubmit(x) PROVE TurnsKept
  <2>1. Retried(x) \in InferenceRequest
    BY RetriedFacts, Unfold
  <2> QED
    BY <1>3, <1>5, <2>1 DEF Resubmit
<1>6. ASSUME NEW x \in out, Settle(x) PROVE TurnsKept
  BY <1>1, <1>6 DEF Settle
<1>7. CASE ServeTurn
  BY <1>7, RotationKeeps, KeptByEach
<1>8. CASE Flush \/ Tick \/ Advance
  BY <1>1, <1>8 DEF Flush, Tick, Advance
<1>9. ASSUME NEW c \in Client, OnClientConnected(c) PROVE TurnsKept
  <2>1. c \in Key
    BY DEF Key
  <2> QED
    BY <1>2, <1>9, <2>1 DEF OnClientConnected
<1>10. ASSUME NEW c \in Client, PurgeClient(c) PROVE TurnsKept
  BY <1>1, <1>10 DEF PurgeClient
<1>11. ASSUME NEW c \in Client, ForgetClient(c) PROVE TurnsKept
  <2>1. Thins(order', order) /\ order' = Without(order, {c})
    BY <1>11, ForgetEffect DEF ForgetClient
  <2>2. ToSet(order') = ToSet(order) \ {c}
    BY <2>1, Unfold, WithoutFacts
  <2>3. ASSUME NEW k \in Waiting, Len(waiting'[k]) >= Len(waiting[k]) PROVE KeepsTurn(k)
    <3>1. k \in ToSet(order) /\ k \in Key /\ waiting[k] # <<>>
      BY WaitingFacts
    <3>2. k # c
      <4>1. SUFFICES ASSUME k = c PROVE FALSE
        OBVIOUS
      <4>2. waiting'[k] = <<>> /\ waiting[k] \in Seq(InferenceRequest)
        BY <1>11, <3>1, <4>1, Unfold DEF ForgetClient, GoodDeques
      <4>3. Len(waiting'[k]) = 0 /\ Len(waiting[k]) \in Nat /\ Len(waiting[k]) # 0
        BY <3>1, <4>2, LenProperties, EmptySeq
      <4> QED
        BY <2>3, <4>3
    <3>3. k \in ToSet(order')
      BY <2>2, <3>1, <3>2
    <3> QED
      BY <2>1, <3>3, ThinsKeeps
  <2> QED
    BY <2>3, KeptByEach
<1> QED
  BY <1>4, <1>5, <1>6, <1>7, <1>8, <1>9, <1>10, <1>11
     DEF Next, NextBatch, OnClientDisconnected

(* A client with a request waiting keeps its turn: whatever others do, nobody *)
(* gets before it in the rotation who was not before it.                     *)
THEOREM TurnsAlwaysKept == Spec => TurnKept
<1>1. IInv /\ IInv' /\ [Next]_vars
        => [\A k \in Waiting : Len(waiting'[k]) >= Len(waiting[k])
              => Ahead(k)' \subseteq Ahead(k)]_vars
  BY NextKeepsTurns DEF TurnsKept
<1> QED
  BY <1>1, IInvAlways, PTL DEF Spec, TurnKept

=============================================================================
