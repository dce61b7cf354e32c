---------------------------- MODULE TiersProofs ----------------------------
(* Proofs about the tiered strategies, for every number of requests, tiers,  *)
(* priorities and every configuration.                                       *)
EXTENDS Tiers, FilterProofs

(* What most proofs need of the constants: all but how scores are weighted.  *)
LEMMA Bounds ==
  /\ Strategies \subseteq {"priority_tiered", "tiered_deadline", "deadline_aware"}
  /\ NumTiers \in Nat \ {0}
  /\ Priority \subseteq Nat /\ Urgency \subseteq Nat
  /\ {AgeWeight, TTL, MaxTime} \subseteq Nat
BY TiersAssumption

USE OwnerAssumption, ConfigAssumption, MaxOutAssumption, Bounds

-----------------------------------------------------------------------------
(* The inductive invariant.                                                  *)

HeldIn(w) == UNION {ToSet(w[t]) : t \in Tier}

IdsIn(s) == Ids(ToSet(s))

Distinct(A) == \A x, y \in A : x.id = y.id => x = y

\* A tier at time n: its own requests, each once, received by now, those that
\* never failed behind none that is younger.
GoodTier(t, s, n) ==
  /\ s \in Seq(InferenceRequest)
  /\ \A i \in DOMAIN s : TierFor(s[i].priority) = t
  /\ \A i \in DOMAIN s : s[i].received_at <= n
  /\ \A i, j \in DOMAIN s : s[i].id = s[j].id => i = j
  /\ \A i, j \in DOMAIN s : i < j /\ ~ s[j].retried => s[i].received_at <= s[j].received_at

GoodTiers(w, n) ==
  /\ w \in [Tier -> Seq(InferenceRequest)]
  /\ \A t \in Tier : GoodTier(t, w[t], n)
  /\ \A t, u \in Tier : \A r \in IdsIn(w[t]) \intersect IdsIn(w[u]) : t = u

OutGood ==
  /\ out \subseteq InferenceRequest /\ IsFiniteSet(out) /\ Distinct(out)
  /\ \A x \in out : x.received_at <= now

CountGood ==
  /\ IsFiniteSet(Ids(Held))
  /\ strategy # "deadline_aware" => total = Cardinality(Ids(Held))
  /\ total \in Int
  /\ Ids(Held) \intersect Ids(out) = {}

IInv ==
  /\ strategy \in Strategies /\ now \in 0 .. MaxTime
  /\ passed \subseteq Request \X Request
  /\ GoodTiers(tiers, now)
  /\ OutGood
  /\ CountGood

-----------------------------------------------------------------------------
(* Requests and scores.                                                      *)

LEMMA Fields ==
  ASSUME NEW x \in InferenceRequest
  PROVE  /\ x.id \in Request /\ x.priority \in Nat /\ x.base \in Nat
         /\ x.received_at \in Nat /\ x.score \in Nat /\ x.retried \in BOOLEAN
         /\ TierFor(x.priority) \in Tier
<1>1. /\ x.id \in Request /\ x.priority \in Priority /\ x.base \in Urgency
      /\ x.received_at \in 0 .. MaxTime /\ x.score \in Nat /\ x.retried \in BOOLEAN
  BY DEF InferenceRequest
<1>2. x.priority \in Nat /\ x.base \in Nat /\ x.received_at \in Nat
  <2>1. Priority \subseteq Nat /\ Urgency \subseteq Nat
    OBVIOUS
  <2>2. \A m : m \in 0 .. MaxTime => m \in Nat
    OBVIOUS
  <2> QED
    BY <1>1, <2>1, <2>2
<1>3. TierFor(x.priority) \in 0 .. NumTiers - 1
  <2>1. NumTiers \in Nat \ {0}
    OBVIOUS
  <2> QED
    BY <1>2, <2>1 DEF TierFor
<1> QED
  BY <1>1, <1>2, <1>3 DEF Tier

LEMMA TimesMonotone ==
  ASSUME NEW w \in Nat, NEW a \in Nat, NEW b \in Nat, a <= b
  PROVE  w * a \in Nat /\ w * a <= w * b
<1>1. PICK d \in Nat : b = a + d
  <2>1. b - a \in Nat /\ b = a + (b - a)
    OBVIOUS
  <2> QED
    BY <2>1
<1>2. ASSUME NEW c \in Nat PROVE w * c \in Nat
  BY <1>2
<1>3. w * b = w * a + w * d
  BY <1>1
<1> QED
  BY <1>2, <1>3

(* An age counts for no less when it grows, whatever the budget.             *)
LEMMA AgeTermMonotone ==
  ASSUME NEW c \in Client, NEW a \in Nat, NEW b \in Nat, a <= b
  PROVE  /\ AgeTerm(a, LatencyBudget[c]) \in Nat
         /\ AgeTerm(a, LatencyBudget[c]) <= AgeTerm(b, LatencyBudget[c])
<1> DEFINE budget == LatencyBudget[c]
           capped(age) == IF age < budget THEN age ELSE budget
           w == AgeWeight \div budget
<1>1. budget \in Nat \ {0}
  BY TiersAssumption
<1>2. w \in Nat
  <2>1. AgeWeight \in Nat
    BY TiersAssumption
  <2> HIDE DEF budget
  <2> QED
    BY <1>1, <2>1
<1>3. capped(a) \in Nat /\ capped(b) \in Nat /\ capped(a) <= capped(b)
  <2> HIDE DEF budget
  <2> QED
    BY <1>1
<1>4. AgeTerm(a, budget) = w * capped(a) /\ AgeTerm(b, budget) = w * capped(b)
  BY DEF AgeTerm
<1> HIDE DEF w, capped
<1>5. w * capped(a) \in Nat /\ w * capped(a) <= w * capped(b)
  BY <1>2, <1>3, TimesMonotone
<1> QED
  BY <1>4, <1>5

(* A score is a natural number and never falls while the clock runs.         *)
LEMMA ScoreMonotone ==
  ASSUME NEW x \in InferenceRequest, NEW t \in Nat, NEW u \in Nat,
         x.received_at <= t, t <= u
  PROVE  ComputeScore(x, t) \in Nat /\ ComputeScore(x, t) <= ComputeScore(x, u)
<1>1. x.base \in Nat /\ x.received_at \in Nat /\ ClientOf[x.id] \in Client
  BY Fields, OwnerAssumption
<1> DEFINE a == t - x.received_at
           b == u - x.received_at
           term(age) == AgeTerm(age, LatencyBudget[ClientOf[x.id]])
<1>2. a \in Nat /\ b \in Nat /\ a <= b
  BY <1>1
<1> HIDE DEF a, b
<1>3. term(a) \in Nat /\ term(a) <= term(b) /\ term(b) \in Nat
  BY <1>1, <1>2, AgeTermMonotone
<1>4. /\ ComputeScore(x, t) = IF Scored THEN x.base + term(a) ELSE 0
      /\ ComputeScore(x, u) = IF Scored THEN x.base + term(b) ELSE 0
  BY DEF ComputeScore, a, b
<1> HIDE DEF term
<1> QED
  BY <1>1, <1>3, <1>4

\* x with the score it gets when it enters its tier in this step.
Entered(x) == [x EXCEPT !.score = ComputeScore(x, now')]

LEMMA EnteredFacts ==
  ASSUME NEW x \in InferenceRequest, now' \in Nat, x.received_at <= now'
  PROVE  /\ Entered(x) \in InferenceRequest /\ Entered(x).id = x.id
         /\ Entered(x).priority = x.priority /\ Entered(x).received_at = x.received_at
         /\ Entered(x).retried = x.retried
         /\ Entered(x).score = ComputeScore(x, now')
         /\ ComputeScore(Entered(x), now') = ComputeScore(x, now')
<1> DEFINE c == ComputeScore(x, now')
           y == Entered(x)
<1>1. c \in Nat
  BY ScoreMonotone
<1>2. y = [x EXCEPT !.score = c]
  BY DEF Entered
<1> HIDE DEF c
<1>3. /\ y \in InferenceRequest /\ y.id = x.id /\ y.priority = x.priority
      /\ y.received_at = x.received_at /\ y.retried = x.retried /\ y.base = x.base
      /\ y.score = c
  BY <1>1, <1>2 DEF InferenceRequest
<1> HIDE DEF y
<1>4. ComputeScore(y, now') = ComputeScore(x, now')
  BY <1>3 DEF ComputeScore
<1> QED
  BY <1>3, <1>4 DEF y, c

LEMMA FreshFacts ==
  ASSUME NEW r \in Request, NEW p \in Priority, NEW b \in Urgency, now \in 0 .. MaxTime
  PROVE  /\ Fresh(r, p, b) \in InferenceRequest /\ Fresh(r, p, b).id = r
         /\ Fresh(r, p, b).received_at = now
BY DEF Fresh, InferenceRequest

LEMMA RetriedFacts ==
  ASSUME NEW x \in InferenceRequest
  PROVE  LET y == [x EXCEPT !.retried = TRUE]
         IN  /\ y \in InferenceRequest /\ y.id = x.id /\ y.received_at = x.received_at
             /\ y.retried /\ y.priority = x.priority /\ y.base = x.base
BY DEF InferenceRequest

-----------------------------------------------------------------------------
(* What the operations make of one tier.                                     *)

LEMMA Indices ==
  ASSUME NEW s \in Seq(InferenceRequest)
  PROVE  /\ DOMAIN s = 1 .. Len(s) /\ Len(s) \in Nat
         /\ \A i \in DOMAIN s : i \in Int /\ s[i] \in InferenceRequest
<1>1. DOMAIN s = 1 .. Len(s) /\ Len(s) \in Nat
  BY LenProperties
<1>2. \A i \in 1 .. Len(s) : s[i] \in InferenceRequest
  BY ElementOfSeq
<1>3. \A i \in 1 .. Len(s) : i \in Int
  BY <1>1
<1> QED
  BY <1>1, <1>2, <1>3

LEMMA GoodThins ==
  ASSUME NEW t, NEW s, NEW n, GoodTier(t, s, n), NEW u \in Seq(InferenceRequest), Thins(u, s)
  PROVE  GoodTier(t, u, n)
<1>1. PICK e : Embeds(e, u, s)
  BY DEF Thins
<1>2. s \in Seq(InferenceRequest)
  BY DEF GoodTier
<1>3. \A i \in DOMAIN u : i \in Int
  BY Indices
<1>4. \A i \in DOMAIN s : i \in Int
  BY <1>2, Indices
<1>5. /\ \A i \in DOMAIN u : e[i] \in DOMAIN s /\ u[i] = s[e[i]]
      /\ \A i, j \in DOMAIN u : i < j => e[i] < e[j]
  BY <1>1 DEF Embeds
<1>6. ASSUME NEW i \in DOMAIN u, NEW j \in DOMAIN u, u[i].id = u[j].id PROVE i = j
  <2>1. s[e[i]].id = s[e[j]].id /\ e[i] \in DOMAIN s /\ e[j] \in DOMAIN s
    BY <1>5, <1>6
  <2>2. e[i] = e[j]
    BY <2>1 DEF GoodTier
  <2>3. ~ (e[i] < e[j]) /\ ~ (e[j] < e[i])
    BY <1>4, <2>1, <2>2
  <2>4. ~ (i < j) /\ ~ (j < i)
    BY <1>5, <2>3
  <2> QED
    BY <1>3, <2>4
<1>7. ASSUME NEW i \in DOMAIN u, NEW j \in DOMAIN u, i < j, ~ u[j].retried
      PROVE  u[i].received_at <= u[j].received_at
  <2>1. e[i] \in DOMAIN s /\ e[j] \in DOMAIN s /\ e[i] < e[j] /\ ~ s[e[j]].retried
    BY <1>5, <1>7
  <2>2. s[e[i]].received_at <= s[e[j]].received_at
    BY <2>1 DEF GoodTier
  <2> QED
    BY <1>5, <2>2
<1>8. \A i \in DOMAIN u : /\ TierFor(u[i].priority) = t
                         /\ u[i].received_at <= n
  BY <1>5 DEF GoodTier
<1> QED
  BY <1>6, <1>7, <1>8 DEF GoodTier

(* A request enters at the end.                                              *)
LEMMA GoodAppend ==
  ASSUME NEW t, NEW s, NEW n \in Nat, GoodTier(t, s, n), NEW y \in InferenceRequest,
         TierFor(y.priority) = t, y.received_at <= n,
         ~ y.retried => y.received_at = n, y.id \notin IdsIn(s)
  PROVE  GoodTier(t, Append(s, y), n)
<1> DEFINE u == Append(s, y)
           m == Len(s) + 1
<1>1. s \in Seq(InferenceRequest)
  BY DEF GoodTier
<1>2. /\ u \in Seq(InferenceRequest)
      /\ DOMAIN u = DOMAIN s \union {m} /\ u[m] = y
      /\ \A i \in DOMAIN s : u[i] = s[i] /\ i < m
  BY <1>1, AppendFacts
<1>3. m \in Int /\ \A i \in DOMAIN s : i \in Int /\ s[i] \in InferenceRequest
  BY <1>1, Indices
<1>4. \A i \in DOMAIN s : s[i].id # y.id
  BY DEF IdsIn, Ids, ToSet
<1> HIDE DEF u, m
<1>5. \A i \in DOMAIN u : /\ TierFor(u[i].priority) = t
                         /\ u[i].received_at <= n
  BY <1>2 DEF GoodTier
<1>6. \A i, j \in DOMAIN u : u[i].id = u[j].id => i = j
  BY <1>2, <1>4 DEF GoodTier
<1>7. ASSUME NEW i \in DOMAIN u, NEW j \in DOMAIN u, i < j, ~ u[j].retried
      PROVE  u[i].received_at <= u[j].received_at
  <2>1. i # m
    BY <1>2, <1>3, <1>7
  <2>2. i \in DOMAIN s /\ u[i] = s[i]
    BY <1>2, <2>1
  <2>3. CASE j = m
    <3>1. u[j].received_at = n
      BY <1>2, <1>7, <2>3
    <3> QED
      BY <1>5, <3>1
  <2>4. CASE j # m
    BY <1>2, <1>7, <2>2, <2>4 DEF GoodTier
  <2> QED
    BY <2>3, <2>4
<1> QED
  BY <1>2, <1>5, <1>6, <1>7 DEF GoodTier, u

(* One request leaves.                                                       *)
LEMMA GoodRemove ==
  ASSUME NEW t, NEW s, NEW n, GoodTier(t, s, n), NEW p \in DOMAIN s
  PROVE  /\ GoodTier(t, RemoveAt(s, p), n)
         /\ ToSet(RemoveAt(s, p)) = ToSet(s) \ {s[p]}
         /\ IdsIn(RemoveAt(s, p)) = IdsIn(s) \ {s[p].id}
         /\ s[p] \in ToSet(s) /\ s[p] \in InferenceRequest
<1> DEFINE w == RemoveAt(s, p)
<1>1. s \in Seq(InferenceRequest)
  BY DEF GoodTier
<1>2. /\ w \in Seq(InferenceRequest) /\ Thins(w, s)
      /\ \A j \in DOMAIN w : \E i \in DOMAIN s \ {p} : w[j] = s[i]
      /\ \A i \in DOMAIN s \ {p} : \E j \in DOMAIN w : w[j] = s[i]
  BY <1>1, RemoveAtFacts
<1> HIDE DEF w
<1>3. GoodTier(t, w, n)
  BY <1>2, GoodThins
<1>4. \A i, j \in DOMAIN s : s[i].id = s[j].id => i = j
  BY DEF GoodTier
<1>5. ToSet(w) = ToSet(s) \ {s[p]}
  <2>1. ASSUME NEW x \in ToSet(w) PROVE x \in ToSet(s) \ {s[p]}
    <3>1. PICK j \in DOMAIN w : x = w[j]
      BY <2>1 DEF ToSet
    <3>2. PICK i \in DOMAIN s \ {p} : x = s[i]
      BY <1>2, <3>1
    <3>3. s[i] # s[p] /\ s[i] \in ToSet(s)
      BY <1>4, <3>2 DEF ToSet
    <3> QED
      BY <3>2, <3>3
  <2>2. ASSUME NEW x \in ToSet(s) \ {s[p]} PROVE x \in ToSet(w)
    <3>1. PICK i \in DOMAIN s : x = s[i]
      BY <2>2 DEF ToSet
    <3>2. i \in DOMAIN s \ {p}
      BY <2>2, <3>1
    <3>3. PICK j \in DOMAIN w : w[j] = s[i]
      BY <1>2, <3>2
    <3> QED
      BY <3>1, <3>3 DEF ToSet
  <2> QED
    BY <2>1, <2>2
<1>6. Distinct(ToSet(s)) /\ s[p] \in ToSet(s)
  BY <1>4 DEF Distinct, ToSet
<1>7. IdsIn(w) = IdsIn(s) \ {s[p].id}
  BY <1>5, <1>6 DEF IdsIn, Ids, Distinct
<1>8. s[p] \in InferenceRequest
  BY <1>1, Indices
<1> QED
  BY <1>3, <1>5, <1>6, <1>7, <1>8 DEF w

-----------------------------------------------------------------------------
(* What they make of the tiers together.                                     *)

LEMMA HeldIds ==
  ASSUME NEW w, NEW r
  PROVE  r \in Ids(HeldIn(w)) <=> \E t \in Tier : r \in IdsIn(w[t])
BY DEF Ids, IdsIn, HeldIn

LEMMA HeldFacts ==
  ASSUME NEW w, NEW n, GoodTiers(w, n)
  PROVE  /\ Distinct(HeldIn(w)) /\ HeldIn(w) \subseteq InferenceRequest
         /\ \A t \in Tier : \A x \in ToSet(w[t]) : TierFor(x.priority) = t
<1>1. ASSUME NEW t \in Tier, NEW x \in ToSet(w[t])
      PROVE  x \in InferenceRequest /\ TierFor(x.priority) = t /\ x.id \in IdsIn(w[t])
  <2>1. PICK i \in DOMAIN w[t] : x = w[t][i]
    BY <1>1 DEF ToSet
  <2>2. w[t] \in Seq(InferenceRequest) /\ GoodTier(t, w[t], n)
    BY DEF GoodTiers
  <2> QED
    BY <1>1, <2>1, <2>2, Indices DEF GoodTier, IdsIn, Ids
<1>2. ASSUME NEW x \in HeldIn(w), NEW y \in HeldIn(w), x.id = y.id PROVE x = y
  <2>1. PICK t \in Tier : x \in ToSet(w[t])
    BY DEF HeldIn
  <2>2. PICK u \in Tier : y \in ToSet(w[u])
    BY DEF HeldIn
  <2>3. t = u
    BY <1>1, <1>2, <2>1, <2>2 DEF GoodTiers
  <2>4. PICK i \in DOMAIN w[t] : x = w[t][i]
    BY <2>1 DEF ToSet
  <2>5. PICK j \in DOMAIN w[t] : y = w[t][j]
    BY <2>2, <2>3 DEF ToSet
  <2>6. i = j
    BY <1>2, <2>4, <2>5 DEF GoodTiers, GoodTier
  <2> QED
    BY <2>4, <2>5, <2>6
<1>3. HeldIn(w) \subseteq InferenceRequest
  BY <1>1 DEF HeldIn
<1> QED
  BY <1>1, <1>2, <1>3 DEF Distinct

(* A request leaves one tier.                                                *)
Fewer(w, t, p) == [w EXCEPT ![t] = RemoveAt(@, p)]

LEMMA OneLess ==
  ASSUME NEW w, NEW n, GoodTiers(w, n), NEW t \in Tier, NEW p \in DOMAIN w[t],
         NEW x, x = w[t][p], NEW v, v = Fewer(w, t, p)
  PROVE  /\ GoodTiers(v, n)
         /\ HeldIn(v) = HeldIn(w) \ {x}
         /\ Ids(HeldIn(v)) = Ids(HeldIn(w)) \ {x.id}
         /\ x \in HeldIn(w) /\ TierFor(x.priority) = t
<1> DEFINE u == RemoveAt(w[t], p)
<1>1. GoodTier(t, w[t], n)
  BY DEF GoodTiers
<1>2. /\ GoodTier(t, u, n) /\ ToSet(u) = ToSet(w[t]) \ {x}
      /\ IdsIn(u) = IdsIn(w[t]) \ {x.id} /\ x \in ToSet(w[t])
  BY <1>1, GoodRemove
<1>4. v = [w EXCEPT ![t] = u]
  BY DEF Fewer
<1> HIDE DEF u
<1>3. /\ v \in [Tier -> Seq(InferenceRequest)] /\ v[t] = u
      /\ \A l \in Tier : l # t => v[l] = w[l]
  BY <1>2, <1>4 DEF GoodTiers, GoodTier
<1>5. GoodTiers(v, n)
  <2>1. \A l \in Tier : GoodTier(l, v[l], n) /\ IdsIn(v[l]) \subseteq IdsIn(w[l])
    BY <1>2, <1>3 DEF GoodTiers
  <2> QED
    BY <1>3, <2>1 DEF GoodTiers
<1>6. x \in HeldIn(w) /\ TierFor(x.priority) = t
  <2>1. TierFor(x.priority) = t
    BY <1>2, HeldFacts
  <2>2. x \in HeldIn(w)
    BY <1>2 DEF HeldIn
  <2> QED
    BY <2>1, <2>2
<1>7. HeldIn(v) = HeldIn(w) \ {x}
  <2>1. \A l \in Tier : l # t => x \notin ToSet(w[l])
    BY <1>6, HeldFacts
  <2>2. \A l \in Tier : ToSet(v[l]) = ToSet(w[l]) \ {x}
    BY <1>2, <1>3, <2>1
  <2> QED
    BY <2>2 DEF HeldIn
<1>8. Ids(HeldIn(v)) = Ids(HeldIn(w)) \ {x.id}
  <2>1. \A y \in HeldIn(w) : y.id = x.id => y = x
    BY <1>6, HeldFacts DEF Distinct
  <2> HIDE DEF HeldIn
  <2> QED
    BY <1>6, <1>7, <2>1 DEF Ids
<1> QED
  BY <1>5, <1>6, <1>7, <1>8

(* A request enters its tier now.                                            *)
LEMMA OneMore ==
  ASSUME NEW w, GoodTiers(w, now), now \in Nat, now' \in Nat, now <= now',
         NEW x \in InferenceRequest, x.received_at <= now, ~ x.retried => x.received_at = now,
         x.id \notin Ids(HeldIn(w)), Push(w, x)
  PROVE  /\ GoodTiers(tiers', now)
         /\ HeldIn(tiers') = HeldIn(w) \union {Entered(x)}
         /\ Ids(HeldIn(tiers')) = Ids(HeldIn(w)) \union {x.id}
<1> DEFINE y == Entered(x)
           t == TierFor(x.priority)
           u == Append(w[t], y)
           v == [w EXCEPT ![t] = u]
<1>1. /\ y \in InferenceRequest /\ y.id = x.id /\ y.priority = x.priority
      /\ y.received_at = x.received_at /\ y.retried = x.retried
  <2>1. x.received_at <= now'
    BY Fields
  <2> QED
    BY <2>1, EnteredFacts
<1>2. t \in Tier
  BY Fields
<1>3. GoodTier(t, w[t], now) /\ w[t] \in Seq(InferenceRequest)
  BY <1>2 DEF GoodTiers
<1>4. y.id \notin IdsIn(w[t])
  BY <1>1, <1>2, HeldIds
<1>5. tiers' = v
  BY DEF Push, Entered
<1> HIDE DEF y
<1>6. TierFor(y.priority) = t /\ y.received_at <= now
  BY <1>1
<1> HIDE DEF t
<1>7. GoodTier(t, u, now)
  BY <1>1, <1>3, <1>4, <1>6, GoodAppend
<1>8. u \in Seq(InferenceRequest) /\ ToSet(u) = ToSet(w[t]) \union {y}
  BY <1>1, <1>3, AppendFacts
<1>9. IdsIn(u) = IdsIn(w[t]) \union {x.id}
  BY <1>1, <1>8 DEF IdsIn, Ids
<1> HIDE DEF u
<1>10. /\ v \in [Tier -> Seq(InferenceRequest)] /\ v[t] = u
       /\ \A l \in Tier : l # t => v[l] = w[l]
  BY <1>2, <1>8 DEF GoodTiers
<1> HIDE DEF v
<1>11. ASSUME NEW l \in Tier, NEW m \in Tier, NEW r, r \in IdsIn(v[l]), r \in IdsIn(v[m])
       PROVE  l = m
  <2>1. CASE r = x.id
    <3>1. \A k \in Tier : r \notin IdsIn(w[k])
      BY <2>1, HeldIds
    <3> QED
      BY <1>10, <1>11, <3>1
  <2>2. CASE r # x.id
    <3>1. r \in IdsIn(w[l]) /\ r \in IdsIn(w[m])
      BY <1>9, <1>10, <1>11, <2>2
    <3> QED
      BY <3>1 DEF GoodTiers
  <2> QED
    BY <2>1, <2>2
<1>12. GoodTiers(v, now)
  BY <1>7, <1>10, <1>11 DEF GoodTiers
<1>13. HeldIn(v) = HeldIn(w) \union {y}
  <2>1. \A z : z \in HeldIn(v) <=> \E l \in Tier : z \in ToSet(v[l])
    BY DEF HeldIn
  <2>2. \A z : z \in HeldIn(w) <=> \E l \in Tier : z \in ToSet(w[l])
    BY DEF HeldIn
  <2>3. \A l \in Tier : ToSet(v[l]) = IF l = t THEN ToSet(w[l]) \union {y} ELSE ToSet(w[l])
    BY <1>8, <1>10
  <2> QED
    BY <1>2, <2>1, <2>2, <2>3
<1>14. Ids(HeldIn(v)) = Ids(HeldIn(w)) \union {x.id}
  BY <1>1, <1>13 DEF Ids
<1> QED
  BY <1>5, <1>12, <1>13, <1>14 DEF y

(* Requests leave all tiers alike: tick, on_client_disconnected.             *)
LEMMA AllLess ==
  ASSUME NEW w, NEW n, GoodTiers(w, n), NEW R, R \subseteq HeldIn(w)
  PROVE  LET v == [t \in Tier |-> Without(w[t], R)]
         IN  /\ GoodTiers(v, n)
             /\ HeldIn(v) = HeldIn(w) \ R
             /\ Ids(HeldIn(v)) = Ids(HeldIn(w)) \ Ids(R)
<1> DEFINE v == [t \in Tier |-> Without(w[t], R)]
<1>1. ASSUME NEW t \in Tier
      PROVE  /\ v[t] \in Seq(InferenceRequest) /\ ToSet(v[t]) = ToSet(w[t]) \ R
             /\ GoodTier(t, v[t], n)
  <2>1. w[t] \in Seq(InferenceRequest) /\ GoodTier(t, w[t], n)
    BY DEF GoodTiers
  <2>2. /\ Without(w[t], R) \in Seq(InferenceRequest)
        /\ ToSet(Without(w[t], R)) = ToSet(w[t]) \ R
        /\ Thins(Without(w[t], R), w[t])
    BY <2>1, WithoutFacts
  <2> QED
    BY <2>1, <2>2, GoodThins
<1>2. v \in [Tier -> Seq(InferenceRequest)]
  BY <1>1
<1> HIDE DEF v
<1>3. \A t \in Tier : IdsIn(v[t]) \subseteq IdsIn(w[t])
  BY <1>1 DEF IdsIn, Ids
<1>4. GoodTiers(v, n)
  BY <1>1, <1>2, <1>3 DEF GoodTiers
<1>5. HeldIn(v) = HeldIn(w) \ R
  BY <1>1 DEF HeldIn
<1>6. Ids(HeldIn(v)) = Ids(HeldIn(w)) \ Ids(R)
  BY <1>5, HeldFacts DEF Ids, Distinct
<1> QED
  BY <1>4, <1>5, <1>6 DEF v

-----------------------------------------------------------------------------
(* Which request an operation takes.                                         *)

LEMMA NonEmpty ==
  ASSUME NEW s \in Seq(InferenceRequest)
  PROVE  s # <<>> => 1 \in DOMAIN s /\ DOMAIN s # {} /\ IsFiniteSet(DOMAIN s)
<1>1. DOMAIN s = 1 .. Len(s) /\ Len(s) \in Nat
  BY LenProperties
<1>2. IsFiniteSet(DOMAIN s)
  <2>1. 1 \in Int /\ Len(s) \in Int
    BY <1>1
  <2> QED
    BY <1>1, <2>1, FS_Interval
<1>3. ASSUME s # <<>> PROVE 1 \in DOMAIN s
  <2>1. Len(s) # 0
    BY <1>3, EmptySeq
  <2> QED
    BY <1>1, <2>1
<1> QED
  BY <1>2, <1>3

LEMMA TiersFinite ==
  ASSUME Nonempty # {}
  PROVE  /\ Highest \in Nonempty /\ \A u \in Nonempty : Highest <= u
         /\ Lowest \in Nonempty /\ \A u \in Nonempty : u <= Lowest
<1>1. IsFiniteSet(Tier)
  <2>1. 0 \in Int /\ NumTiers - 1 \in Int
    OBVIOUS
  <2> QED
    BY <2>1, FS_Interval DEF Tier
<1>2. Nonempty \subseteq Tier
  BY DEF Nonempty
<1>3. IsFiniteSet(Nonempty) /\ \A t \in Nonempty : t \in Int
  <2>1. \A t \in Tier : t \in Int
    BY DEF Tier
  <2> QED
    BY <1>1, <1>2, <2>1, FS_Subset
<1> DEFINE f == [t \in Nonempty |-> t]
           g == [t \in Nonempty |-> - t]
<1>4. f \in [Nonempty -> Int] /\ g \in [Nonempty -> Int]
  BY <1>3
<1>5. \E t \in Nonempty : \A u \in Nonempty : f[t] <= f[u]
  <2> HIDE DEF f
  <2> QED
    BY <1>3, <1>4, LeastExists
<1>6. \E t \in Nonempty : \A u \in Nonempty : g[t] <= g[u]
  <2> HIDE DEF g
  <2> QED
    BY <1>3, <1>4, LeastExists
<1>7. \E t \in Nonempty : \A u \in Nonempty : t <= u
  BY <1>5
<1>8. \E t \in Nonempty : \A u \in Nonempty : u <= t
  BY <1>3, <1>6
<1> QED
  BY <1>7, <1>8 DEF Highest, Lowest

(* heappop takes the best score and, of equal ones, the first to enter.      *)
LEMMA NextInFacts ==
  ASSUME GoodTiers(tiers, now), NEW t \in Nonempty
  PROVE  /\ NextIn(t) \in DOMAIN tiers[t]
         /\ Scored => \A j \in DOMAIN tiers[t] :
              \/ tiers[t][NextIn(t)].score > tiers[t][j].score
              \/ tiers[t][NextIn(t)].score = tiers[t][j].score /\ NextIn(t) <= j
         /\ ~ Scored => NextIn(t) = 1
<1> DEFINE q == tiers[t]
           D == DOMAIN q
           Before(i, j) == q[i].score > q[j].score \/ (q[i].score = q[j].score /\ i <= j)
           R == {p \in D \X D : Before(p[1], p[2])}
<1>1. q # <<>> /\ q \in Seq(InferenceRequest)
  BY DEF Nonempty, GoodTiers
<1>2. 1 \in D /\ D # {} /\ IsFiniteSet(D)
  BY <1>1, NonEmpty
<1>3. \A i \in D : i \in Int /\ q[i].score \in Int
  <2>1. \A i \in D : i \in Int /\ q[i] \in InferenceRequest
    BY <1>1, Indices
  <2> QED
    BY <2>1, Fields
<1> HIDE DEF q
<1>4. \A i, j \in D : <<i, j>> \in R <=> Before(i, j)
  OBVIOUS
<1>5. \A i, j \in D : Before(i, j) \/ Before(j, i)
  BY <1>3
<1>6. \A i, j, k \in D : Before(i, j) /\ Before(j, k) => Before(i, k)
  BY <1>3
<1> HIDE DEF D, Before, R
<1>7. \E i \in D : \A j \in D : <<i, j>> \in R
  BY <1>2, <1>4, <1>5, <1>6, FirstExists
<1>8. \E i \in D : \A j \in D : Before(i, j)
  BY <1>4, <1>7
<1>9. NextIn(t) = IF Scored THEN CHOOSE i \in D : \A j \in D : Before(i, j) ELSE 1
  BY DEF NextIn, D, Before, q
<1>10. CASE Scored
  <2>1. NextIn(t) \in D /\ \A j \in D : Before(NextIn(t), j)
    BY <1>8, <1>9, <1>10
  <2> QED
    BY <1>10, <2>1 DEF D, Before, q
<1>11. CASE ~ Scored
  BY <1>2, <1>9, <1>11 DEF D, q
<1> QED
  BY <1>10, <1>11

(* The overflow finds a request, the oldest of its tier in a heap.           *)
LEMMA VictimsFacts ==
  ASSUME GoodTiers(tiers, now), NEW t \in Nonempty
  PROVE  /\ VictimsIn(t) \subseteq DOMAIN tiers[t]
         /\ Scored => \A i \in VictimsIn(t), j \in DOMAIN tiers[t] :
                        tiers[t][i].received_at <= tiers[t][j].received_at
         /\ ~ Scored => VictimsIn(t) = {1}
<1>1. tiers[t] # <<>> /\ tiers[t] \in Seq(InferenceRequest)
  BY DEF Nonempty, GoodTiers
<1>2. 1 \in DOMAIN tiers[t]
  BY <1>1, NonEmpty
<1> QED
  BY <1>2 DEF VictimsIn

(* The code's counters and lengths agree with what the tiers hold.           *)
LEMMA LenIds ==
  ASSUME NEW t, NEW s, NEW n, GoodTier(t, s, n)
  PROVE  IsFiniteSet(IdsIn(s)) /\ Cardinality(IdsIn(s)) = Len(s)
<1> DEFINE f == [i \in DOMAIN s |-> s[i].id]
<1>1. DOMAIN s = 1 .. Len(s) /\ Len(s) \in Nat
  BY Indices DEF GoodTier
<1>2. IsFiniteSet(DOMAIN s) /\ Cardinality(DOMAIN s) = Len(s)
  <2>1. 1 \in Int /\ Len(s) \in Int
    BY <1>1
  <2>2. /\ IsFiniteSet(1 .. Len(s))
        /\ Cardinality(1 .. Len(s)) = IF 1 > Len(s) THEN 0 ELSE Len(s) - 1 + 1
    BY <2>1, FS_Interval
  <2> QED
    BY <1>1, <2>2
<1>3. f \in [DOMAIN s -> IdsIn(s)] /\ \A r \in IdsIn(s) : \E i \in DOMAIN s : f[i] = r
  BY DEF IdsIn, Ids, ToSet
<1>4. \A i, j \in DOMAIN s : f[i] = f[j] => i = j
  BY DEF GoodTier
<1> HIDE DEF f
<1>5. f \in Bijection(DOMAIN s, IdsIn(s))
  BY <1>3, <1>4 DEF Bijection, Injection, Surjection, IsInjective
<1>6. ExistsBijection(DOMAIN s, IdsIn(s))
  BY <1>5 DEF ExistsBijection
<1> QED
  BY <1>2, <1>6, FS_Bijection

LEMMA SizeFacts ==
  ASSUME IInv
  PROVE  Size = Cardinality(Ids(Held)) /\ Size \in Nat
<1>1. GoodTiers(tiers, now) /\ IsFiniteSet(Ids(Held)) /\ Held = HeldIn(tiers)
  BY DEF IInv, CountGood, Held, HeldIn
<1>2. CASE strategy = "deadline_aware"
  <2>1. 0 \in Tier
    BY DEF Tier
  <2>2. ASSUME NEW t \in Tier, NEW x \in ToSet(tiers[t]) PROVE t = 0
    <3>1. TierFor(x.priority) = t
      BY <1>1, HeldFacts
    <3> QED
      BY <1>2, <3>1 DEF TierFor
  <2>3. Held = ToSet(tiers[0])
    BY <2>1, <2>2 DEF Held
  <2>4. GoodTier(0, tiers[0], now)
    BY <1>1, <2>1 DEF GoodTiers
  <2>5. Cardinality(Ids(Held)) = Len(tiers[0]) /\ IsFiniteSet(Ids(Held))
    BY <2>3, <2>4, LenIds DEF IdsIn
  <2> QED
    BY <1>2, <2>5, FS_CardinalityType DEF Size
<1>3. CASE strategy # "deadline_aware"
  <2>1. total = Cardinality(Ids(Held))
    BY <1>3 DEF IInv, CountGood
  <2> QED
    BY <1>1, <1>3, <2>1, FS_CardinalityType DEF Size
<1> QED
  BY <1>2, <1>3

LEMMA Unfold ==
  ASSUME IInv
  PROVE  /\ strategy \in Strategies /\ GoodTiers(tiers, now)
         /\ now \in 0 .. MaxTime /\ now \in Nat
         /\ Held = HeldIn(tiers) /\ Distinct(Held) /\ Held \subseteq InferenceRequest
         /\ IsFiniteSet(Ids(Held)) /\ Ids(Held) \intersect Ids(out) = {}
         /\ strategy # "deadline_aware" => total = Cardinality(Ids(Held))
         /\ total \in Int
         /\ out \subseteq InferenceRequest /\ IsFiniteSet(out) /\ Distinct(out)
         /\ \A x \in out : x.received_at <= now
         /\ passed \subseteq Request \X Request
<1>1. strategy \in Strategies /\ GoodTiers(tiers, now) /\ now \in 0 .. MaxTime
  BY DEF IInv
<1>2. now \in Nat
  BY <1>1
<1>3. Held = HeldIn(tiers)
  BY DEF Held, HeldIn
<1>4. Distinct(Held) /\ Held \subseteq InferenceRequest
  BY <1>1, <1>3, HeldFacts
<1> QED
  BY <1>1, <1>2, <1>3, <1>4 DEF IInv, OutGood, CountGood

(* A full queue has a request to drop.                                       *)
LEMMA SomethingHeld ==
  ASSUME IInv, Size >= MaxQueue
  PROVE  Nonempty # {}
<1>1. Cardinality(Ids(Held)) # 0
  BY SizeFacts
<1>2. Ids(Held) # {}
  BY <1>1, FS_EmptySet
<1>3. PICK t \in Tier : ToSet(tiers[t]) # {}
  BY <1>2 DEF Ids, Held
<1>4. PICK i \in DOMAIN tiers[t] : TRUE
  BY <1>3 DEF ToSet
<1>5. tiers[t] # <<>>
  <2>1. DOMAIN tiers[t] = 1 .. Len(tiers[t])
    BY Unfold, Indices DEF GoodTiers
  <2>2. Len(tiers[t]) # 0
    BY <1>4, <2>1
  <2> QED
    BY <2>2
<1> QED
  BY <1>5 DEF Nonempty

-----------------------------------------------------------------------------
(* What each operation does to the tiers.                                    *)

LEMMA FreshEnters ==
  ASSUME IInv, NEW r \in Request, NEW p \in Priority, NEW b \in Urgency,
         NEW w, GoodTiers(w, now), r \notin Ids(HeldIn(w)), Push(w, Fresh(r, p, b)),
         now' \in Nat, now <= now'
  PROVE  /\ GoodTiers(tiers', now)
         /\ HeldIn(tiers') = HeldIn(w) \union {Entered(Fresh(r, p, b))}
         /\ Ids(HeldIn(tiers')) = Ids(HeldIn(w)) \union {r}
<1> DEFINE x == Fresh(r, p, b)
<1>1. x \in InferenceRequest /\ x.id = r /\ x.received_at = now /\ now \in Nat
  BY FreshFacts, Unfold
<1>2. Push(w, x)
  OBVIOUS
<1> HIDE DEF x
<1>3. x.received_at <= now
  BY <1>1
<1>4. /\ GoodTiers(tiers', now) /\ HeldIn(tiers') = HeldIn(w) \union {Entered(x)}
      /\ Ids(HeldIn(tiers')) = Ids(HeldIn(w)) \union {r}
  BY <1>1, <1>2, <1>3, OneMore
<1> QED
  BY <1>4 DEF x

\* What the overflow promises of the request d it drops.
Bottommost(d) ==
  \A y \in Held :
    \/ TierFor(y.priority) < TierFor(d.priority)
    \/ /\ TierFor(y.priority) = TierFor(d.priority)
       /\ d.received_at <= y.received_at \/ (~ Scored /\ y.retried)

LEMMA VictimIsBottommost ==
  ASSUME IInv, Nonempty # {}, NEW i \in VictimsIn(Lowest)
  PROVE  i \in DOMAIN tiers[Lowest] /\ Bottommost(tiers[Lowest][i])
<1> DEFINE q == tiers[Lowest]
           d == q[i]
<1>1. Lowest \in Nonempty /\ \A u \in Nonempty : u <= Lowest
  BY TiersFinite
<1>2. Lowest \in Tier /\ GoodTiers(tiers, now)
  BY <1>1, Unfold DEF Nonempty
<1>3. /\ i \in DOMAIN q
      /\ Scored => \A j \in DOMAIN q : d.received_at <= q[j].received_at
      /\ ~ Scored => i = 1
  BY <1>1, <1>2, VictimsFacts
<1>4. GoodTier(Lowest, q, now) /\ q \in Seq(InferenceRequest)
  BY <1>2 DEF GoodTiers
<1>5. TierFor(d.priority) = Lowest
  BY <1>3, <1>4 DEF GoodTier
<1>6. DOMAIN q = 1 .. Len(q) /\ \A j \in DOMAIN q : j \in Int /\ q[j] \in InferenceRequest
  BY <1>4, Indices
<1>7. \A t \in Tier : t \in Int
  BY DEF Tier
<1> HIDE DEF q, d
<1>8. ASSUME NEW t \in Tier, NEW y \in ToSet(tiers[t]), t # Lowest
      PROVE  TierFor(y.priority) < TierFor(d.priority)
  <2>1. t \in Nonempty /\ TierFor(y.priority) = t
    <3>1. PICK j \in DOMAIN tiers[t] : y = tiers[t][j]
      BY <1>8 DEF ToSet
    <3>2. tiers[t] \in Seq(InferenceRequest)
      BY <1>2 DEF GoodTiers
    <3>3. tiers[t] # <<>>
      <4>1. DOMAIN tiers[t] = 1 .. Len(tiers[t])
        BY <3>2, Indices
      <4>2. Len(tiers[t]) # 0
        BY <3>1, <4>1
      <4> QED
        BY <4>2
    <3>4. TierFor(y.priority) = t
      BY <1>2, HeldFacts
    <3> QED
      BY <3>3, <3>4 DEF Nonempty
  <2>2. t <= Lowest
    BY <1>1, <2>1
  <2> QED
    BY <1>2, <1>5, <1>7, <1>8, <2>1, <2>2
<1>9. ASSUME NEW y \in ToSet(tiers[Lowest])
      PROVE  /\ TierFor(y.priority) = TierFor(d.priority)
             /\ d.received_at <= y.received_at \/ (~ Scored /\ y.retried)
  <2>1. TierFor(y.priority) = Lowest
    BY <1>2, HeldFacts
  <2>2. PICK j \in DOMAIN q : y = q[j]
    BY DEF ToSet, q
  <2>3. CASE Scored
    BY <1>3, <1>5, <2>1, <2>2, <2>3
  <2>4. CASE ~ Scored /\ ~ y.retried
    <3>1. i = 1 /\ d = q[1]
      BY <1>3, <2>4 DEF d
    <3>2. CASE j = 1
      <4>1. d = y /\ d \in InferenceRequest
        BY <1>3, <1>6, <2>2, <3>1, <3>2
      <4>2. d.received_at <= y.received_at
        BY <4>1, Fields
      <4> QED
        BY <1>5, <2>1, <4>2
    <3>3. CASE j # 1
      <4>1. 1 \in DOMAIN q /\ 1 < j
        BY <1>3, <1>6, <3>1, <3>3
      <4>2. q[1].received_at <= q[j].received_at
        BY <1>4, <2>2, <2>4, <3>1, <4>1 DEF GoodTier
      <4> QED
        BY <1>5, <2>1, <2>2, <3>1, <4>2
    <3> QED
      BY <3>2, <3>3
  <2> QED
    BY <1>5, <2>1, <2>3, <2>4
<1>10. Bottommost(d)
  BY <1>8, <1>9 DEF Bottommost, Held
<1> QED
  BY <1>3, <1>10 DEF q, d

LEMMA DropEffect ==
  ASSUME IInv, NEW r \in Request, NEW p \in Priority, NEW b \in Urgency,
         r \notin Ids(Held) \union Ids(out), SubmitDropping(Fresh(r, p, b)),
         now' \in Nat, now <= now'
  PROVE  \E d \in Held :
           /\ Bottommost(d)
           /\ GoodTiers(tiers', now)
           /\ HeldIn(tiers') = (Held \ {d}) \union {Entered(Fresh(r, p, b))}
           /\ Ids(HeldIn(tiers')) = (Ids(Held) \ {d.id}) \union {r}
<1>1. Size >= MaxQueue
  BY DEF SubmitDropping
<1>2. PICK i \in VictimsIn(Lowest) :
        Push([tiers EXCEPT ![Lowest] = RemoveAt(@, i)], Fresh(r, p, b))
  BY DEF SubmitDropping
<1> DEFINE d == tiers[Lowest][i]
           w == [tiers EXCEPT ![Lowest] = RemoveAt(@, i)]
<1>3. Nonempty # {}
  BY <1>1, SomethingHeld
<1>4. i \in DOMAIN tiers[Lowest] /\ Bottommost(d)
  BY <1>3, VictimIsBottommost
<1>5. Lowest \in Tier /\ GoodTiers(tiers, now) /\ Held = HeldIn(tiers)
  BY <1>3, TiersFinite, Unfold DEF Nonempty
<1>6. /\ GoodTiers(w, now) /\ HeldIn(w) = Held \ {d}
      /\ Ids(HeldIn(w)) = Ids(Held) \ {d.id} /\ d \in Held
  <2>1. d = tiers[Lowest][i] /\ w = Fewer(tiers, Lowest, i)
    BY DEF Fewer
  <2> HIDE DEF d, w
  <2> QED
    BY <1>4, <1>5, <2>1, OneLess
<1>7. Push(w, Fresh(r, p, b))
  BY <1>2
<1> HIDE DEF d, w
<1>8. r \notin Ids(HeldIn(w))
  BY <1>6
<1>9. /\ GoodTiers(tiers', now) /\ HeldIn(tiers') = HeldIn(w) \union {Entered(Fresh(r, p, b))}
      /\ Ids(HeldIn(tiers')) = Ids(HeldIn(w)) \union {r}
  BY <1>6, <1>7, <1>8, FreshEnters
<1> QED
  BY <1>4, <1>6, <1>9

LEMMA RoomEffect ==
  ASSUME IInv, NEW r \in Request, NEW p \in Priority, NEW b \in Urgency,
         r \notin Ids(Held) \union Ids(out), SubmitRoom(Fresh(r, p, b)),
         now' \in Nat, now <= now'
  PROVE  /\ GoodTiers(tiers', now)
         /\ HeldIn(tiers') = Held \union {Entered(Fresh(r, p, b))}
         /\ Ids(HeldIn(tiers')) = Ids(Held) \union {r}
<1>1. Push(tiers, Fresh(r, p, b))
  BY DEF SubmitRoom
<1>2. GoodTiers(tiers, now) /\ Held = HeldIn(tiers)
  BY Unfold
<1> QED
  BY <1>1, <1>2, FreshEnters

LEMMA ResubmitEffect ==
  ASSUME IInv, NEW x \in out, Resubmit(x)
  PROVE  /\ GoodTiers(tiers', now)
         /\ HeldIn(tiers') = Held \union {Entered([x EXCEPT !.retried = TRUE])}
         /\ Ids(HeldIn(tiers')) = Ids(Held) \union {x.id}
         /\ out' = out \ {x} /\ Ids(out') = Ids(out) \ {x.id}
<1> DEFINE y == [x EXCEPT !.retried = TRUE]
<1>1. x \in InferenceRequest /\ x.received_at <= now
  BY Unfold
<1>2. y \in InferenceRequest /\ y.id = x.id /\ y.received_at <= now /\ y.retried
  BY <1>1, RetriedFacts
<1>3. Push(tiers, y) /\ out' = out \ {x} /\ now' = now
  BY DEF Resubmit
<1> HIDE DEF y
<1>4. /\ GoodTiers(tiers, now) /\ Held = HeldIn(tiers)
      /\ now \in Nat /\ now' \in Nat /\ now <= now'
  BY <1>3, Unfold
<1>5. x.id \in Ids(out)
  BY DEF Ids
<1>6. y.id \notin Ids(HeldIn(tiers))
  BY <1>2, <1>4, <1>5, Unfold
<1>7. /\ GoodTiers(tiers', now) /\ HeldIn(tiers') = HeldIn(tiers) \union {Entered(y)}
      /\ Ids(HeldIn(tiers')) = Ids(HeldIn(tiers)) \union {y.id}
  BY <1>2, <1>3, <1>4, <1>6, OneMore
<1>8. Ids(out') = Ids(out) \ {x.id}
  BY <1>3, Unfold DEF Ids, Distinct
<1>9. HeldIn(tiers') = Held \union {Entered([x EXCEPT !.retried = TRUE])}
  BY <1>4, <1>7 DEF y
<1> QED
  BY <1>2, <1>3, <1>4, <1>7, <1>8, <1>9

LEMMA NextBatchEffect ==
  ASSUME IInv, NextBatch
  PROVE  LET h == tiers[Highest][NextIn(Highest)]
         IN  /\ GoodTiers(tiers', now) /\ h \in Held /\ TierFor(h.priority) = Highest
             /\ HeldIn(tiers') = Held \ {h}
             /\ Ids(HeldIn(tiers')) = Ids(Held) \ {h.id}
             /\ out' = out \union {h}
             /\ passed' = {p \in passed : p[2] # h.id}
                            \union {<<h.id, y>> : y \in IdsIn(RemoveAt(tiers[Highest], NextIn(Highest)))}
<1> DEFINE p == NextIn(Highest)
           h == tiers[Highest][p]
           v == [tiers EXCEPT ![Highest] = RemoveAt(@, p)]
<1>1. /\ Nonempty # {} /\ out' = out \union {h} /\ tiers' = v
      /\ passed' = {k \in passed : k[2] # h.id}
                     \union {<<h.id, y>> : y \in IdsIn(RemoveAt(tiers[Highest], p))}
  BY DEF NextBatch, IdsIn
<1>2. Highest \in Nonempty /\ Highest \in Tier /\ GoodTiers(tiers, now) /\ Held = HeldIn(tiers)
  BY <1>1, TiersFinite, Unfold DEF Nonempty
<1>3. p \in DOMAIN tiers[Highest]
  BY <1>2, NextInFacts
<1> HIDE DEF p
<1>4. /\ GoodTiers(v, now) /\ HeldIn(v) = HeldIn(tiers) \ {h}
      /\ Ids(HeldIn(v)) = Ids(HeldIn(tiers)) \ {h.id}
      /\ h \in HeldIn(tiers) /\ TierFor(h.priority) = Highest
  <2>1. h = tiers[Highest][p] /\ v = Fewer(tiers, Highest, p)
    BY DEF Fewer
  <2> HIDE DEF h, v
  <2> QED
    BY <1>2, <1>3, <2>1, OneLess
<1> HIDE DEF h, v
<1>5. /\ GoodTiers(tiers', now) /\ h \in Held /\ TierFor(h.priority) = Highest
      /\ HeldIn(tiers') = Held \ {h} /\ Ids(HeldIn(tiers')) = Ids(Held) \ {h.id}
      /\ out' = out \union {h}
      /\ passed' = {k \in passed : k[2] # h.id}
                     \union {<<h.id, y>> : y \in IdsIn(RemoveAt(tiers[Highest], p))}
  BY <1>1, <1>2, <1>4
<1> QED
  BY <1>5 DEF h, p

LEMMA PurgeEffect ==
  ASSUME IInv, NEW R \in SUBSET Held, Purge(R)
  PROVE  /\ GoodTiers(tiers', now) /\ HeldIn(tiers') = Held \ R
         /\ Ids(HeldIn(tiers')) = Ids(Held) \ Ids(R)
         /\ IsFiniteSet(R) /\ Cardinality(R) = Cardinality(Ids(R)) /\ Ids(R) \subseteq Ids(Held)
<1>1. GoodTiers(tiers, now) /\ Held = HeldIn(tiers)
  BY Unfold
<1>2. tiers' = [t \in Tier |-> Without(tiers[t], R)]
  BY DEF Purge
<1>3. /\ GoodTiers(tiers', now) /\ HeldIn(tiers') = Held \ R
      /\ Ids(HeldIn(tiers')) = Ids(Held) \ Ids(R)
  BY <1>1, <1>2, AllLess
<1>4. Distinct(R) /\ Ids(R) \subseteq Ids(Held)
  BY Unfold DEF Distinct, Ids
<1>5. IsFiniteSet(Ids(R))
  BY <1>4, Unfold, FS_Subset
<1>6. IsFiniteSet(R) /\ Cardinality(R) = Cardinality(Ids(R))
  BY <1>4, <1>5, SameManyIds DEF Ids, Distinct
<1> QED
  BY <1>3, <1>4, <1>6

(* What is in order now still is later.                                      *)
LEMMA LaterGood ==
  ASSUME NEW w, NEW n \in Nat, NEW m \in Nat, n <= m, GoodTiers(w, n)
  PROVE  GoodTiers(w, m)
<1>1. ASSUME NEW t \in Tier PROVE GoodTier(t, w[t], m)
  <2> DEFINE s == w[t]
  <2>1. GoodTier(t, s, n) /\ s \in Seq(InferenceRequest)
    BY DEF GoodTiers
  <2>2. \A i \in DOMAIN s : s[i].received_at \in Nat /\ s[i].received_at <= n
    BY <2>1, Indices, Fields DEF GoodTier
  <2> HIDE DEF s
  <2>3. \A i \in DOMAIN s : s[i].received_at <= m
    BY <2>2
  <2>4. GoodTier(t, s, m)
    BY <2>1, <2>3 DEF GoodTier
  <2> QED
    BY <2>4 DEF s
<1> QED
  BY <1>1 DEF GoodTiers

-----------------------------------------------------------------------------
(* The invariant is inductive.                                               *)

LEMMA Assemble ==
  ASSUME strategy' = strategy, strategy \in Strategies, now' \in 0 .. MaxTime,
         GoodTiers(tiers', now'),
         out' \subseteq InferenceRequest, IsFiniteSet(out'), Distinct(out'),
         \A x \in out' : x.received_at <= now',
         IsFiniteSet(Ids(HeldIn(tiers'))), total' \in Int,
         passed' \subseteq Request \X Request,
         strategy # "deadline_aware" => total' = Cardinality(Ids(HeldIn(tiers'))),
         Ids(HeldIn(tiers')) \intersect Ids(out') = {}
  PROVE  IInv'
<1>1. GoodTiers(tiers, now)'
  BY DEF GoodTiers, GoodTier, TierFor
<1>2. Held' = HeldIn(tiers')
  BY DEF Held, HeldIn
<1> QED
  BY <1>1, <1>2 DEF IInv, OutGood, CountGood

LEMMA InitIInv == Init => IInv
<1> SUFFICES ASSUME Init PROVE IInv
  OBVIOUS
<1>1. /\ strategy \in Strategies /\ tiers = [t \in Tier |-> <<>>]
      /\ total = 0 /\ out = {} /\ now = 0 /\ passed = {}
  BY DEF Init
<1>2. /\ tiers \in [Tier -> Seq(InferenceRequest)]
      /\ \A t \in Tier : tiers[t] = <<>> /\ ToSet(tiers[t]) = {} /\ DOMAIN tiers[t] = {}
  BY <1>1 DEF ToSet
<1>3. Held = {} /\ \A t \in Tier : IdsIn(tiers[t]) = {}
  BY <1>2 DEF Held, IdsIn, Ids
<1>4. \A t \in Tier : GoodTier(t, tiers[t], now)
  BY <1>2 DEF GoodTier
<1>5. GoodTiers(tiers, now)
  BY <1>2, <1>3, <1>4 DEF GoodTiers
<1>6. Ids(Held) = {} /\ Ids(out) = {}
  BY <1>1, <1>3 DEF Ids
<1>7. now \in 0 .. MaxTime
  BY <1>1
<1> QED
  BY <1>1, <1>5, <1>6, <1>7, FS_EmptySet DEF IInv, OutGood, CountGood, Distinct

LEMMA Counted ==
  ASSUME IInv, NEW n \in Int, Count(n)
  PROVE  /\ total' \in Int
         /\ strategy # "deadline_aware" => total' = Cardinality(Ids(Held)) + n
BY Unfold DEF Count

LEMMA SubmitKeeps ==
  ASSUME IInv, NEW r \in Request, Submit(r)
  PROVE  IInv'
<1>1. PICK p \in Priority, b \in Urgency :
        SubmitRoom(Fresh(r, p, b)) \/ SubmitDropping(Fresh(r, p, b))
  BY DEF Submit
<1>2. r \notin Ids(Held) \union Ids(out)
  BY DEF Submit
<1>t. /\ now' \in 0 .. MaxTime /\ now' \in Nat /\ now \in Nat /\ now <= now'
      /\ UNCHANGED <<strategy, out>> /\ passed' \subseteq Request \X Request
  <2>1. /\ now' \in now .. MaxTime /\ UNCHANGED <<strategy, out>>
        /\ passed' \subseteq passed /\ passed \subseteq Request \X Request
        /\ now \in Nat /\ MaxTime \in Nat
    BY Unfold DEF Submit
  <2> QED
    BY <2>1
<1>r. \A x \in out' : x.received_at <= now'
  <2>1. \A x \in out : x.received_at \in Nat /\ x.received_at <= now
    BY Unfold, Fields
  <2> QED
    BY <1>t, <2>1
<1>3. CASE SubmitRoom(Fresh(r, p, b))
  <2>1. /\ GoodTiers(tiers', now) /\ Ids(HeldIn(tiers')) = Ids(Held) \union {r}
        /\ Count(1)
    BY <1>2, <1>3, <1>t, RoomEffect DEF SubmitRoom
  <2>g. GoodTiers(tiers', now')
    BY <1>t, <2>1, LaterGood
  <2>2. /\ IsFiniteSet(Ids(Held) \union {r})
        /\ Cardinality(Ids(Held) \union {r}) = Cardinality(Ids(Held)) + 1
    BY <1>2, Unfold, AddSize
  <2>3. /\ total' \in Int
        /\ strategy # "deadline_aware" => total' = Cardinality(Ids(Held)) + 1
    BY <2>1, Counted
  <2> QED
    BY <1>2, <1>t, <1>r, <2>1, <2>2, <2>3, <2>g, Unfold, Assemble
<1>4. CASE SubmitDropping(Fresh(r, p, b))
  <2>1. total' = total
    BY <1>4 DEF SubmitDropping
  <2>2. PICK d \in Held :
          /\ GoodTiers(tiers', now)
          /\ Ids(HeldIn(tiers')) = (Ids(Held) \ {d.id}) \union {r}
    BY <1>2, <1>4, <1>t, DropEffect
  <2>g. GoodTiers(tiers', now')
    BY <1>t, <2>2, LaterGood
  <2>3. d.id \in Ids(Held)
    BY DEF Ids
  <2>4. /\ IsFiniteSet(Ids(Held) \ {d.id})
        /\ Cardinality(Ids(Held) \ {d.id}) = Cardinality(Ids(Held)) - 1
        /\ Cardinality(Ids(Held)) \in Nat
    BY <2>3, Unfold, FS_RemoveElement, FS_CardinalityType
  <2>5. /\ IsFiniteSet((Ids(Held) \ {d.id}) \union {r})
        /\ Cardinality((Ids(Held) \ {d.id}) \union {r}) = Cardinality(Ids(Held) \ {d.id}) + 1
    BY <1>2, <2>4, AddSize
  <2>6. Cardinality((Ids(Held) \ {d.id}) \union {r}) = Cardinality(Ids(Held))
    BY <2>4, <2>5
  <2> QED
    BY <1>2, <1>t, <1>r, <2>1, <2>2, <2>5, <2>6, <2>g, Unfold, Assemble
<1> QED
  BY <1>1, <1>3, <1>4

LEMMA ResubmitKeeps ==
  ASSUME IInv, NEW x \in out, Resubmit(x)
  PROVE  IInv'
<1>1. /\ GoodTiers(tiers', now) /\ Ids(HeldIn(tiers')) = Ids(Held) \union {x.id}
      /\ out' = out \ {x} /\ Ids(out') = Ids(out) \ {x.id}
  BY ResubmitEffect
<1>2. UNCHANGED <<strategy, now, passed>> /\ Count(1)
  BY DEF Resubmit
<1>3. x.id \in Ids(out)
  BY DEF Ids
<1>4. x.id \notin Ids(Held)
  BY <1>3, Unfold
<1>5. /\ IsFiniteSet(Ids(Held) \union {x.id})
      /\ Cardinality(Ids(Held) \union {x.id}) = Cardinality(Ids(Held)) + 1
  BY <1>4, Unfold, AddSize
<1>6. /\ total' \in Int
      /\ strategy # "deadline_aware" => total' = Cardinality(Ids(Held)) + 1
  BY <1>2, Counted
<1>7. Distinct(out') /\ IsFiniteSet(out') /\ out' \subseteq out
  BY <1>1, Unfold, FS_Subset DEF Distinct
<1>8. Ids(HeldIn(tiers')) \intersect Ids(out') = {}
  BY <1>1, Unfold
<1> QED
  BY <1>1, <1>2, <1>5, <1>6, <1>7, <1>8, Unfold, Assemble

LEMMA SettleKeeps ==
  ASSUME IInv, NEW x \in out, Settle(x)
  PROVE  IInv'
<1>1. UNCHANGED <<strategy, tiers, total, now, passed>> /\ out' = out \ {x}
  BY DEF Settle
<1>2. Distinct(out') /\ IsFiniteSet(out') /\ out' \subseteq out
  BY <1>1, Unfold, FS_Subset DEF Distinct
<1>3. Ids(out') \subseteq Ids(out)
  BY <1>2 DEF Ids
<1> QED
  BY <1>1, <1>2, <1>3, Unfold, Assemble

LEMMA NextBatchKeeps ==
  ASSUME IInv, NextBatch
  PROVE  IInv'
<1> DEFINE h == tiers[Highest][NextIn(Highest)]
<1>1. /\ GoodTiers(tiers', now) /\ h \in Held
      /\ Ids(HeldIn(tiers')) = Ids(Held) \ {h.id} /\ out' = out \union {h}
      /\ passed' \subseteq passed \union {<<h.id, y>> : y \in Ids(Held)}
  <2> DEFINE rest == RemoveAt(tiers[Highest], NextIn(Highest))
  <2>1. IdsIn(rest) \subseteq Ids(Held)
    <3>1. Highest \in Nonempty /\ Highest \in Tier /\ GoodTiers(tiers, now)
      BY TiersFinite, Unfold DEF Nonempty, NextBatch
    <3>2. NextIn(Highest) \in DOMAIN tiers[Highest] /\ GoodTier(Highest, tiers[Highest], now)
      BY <3>1, NextInFacts DEF GoodTiers
    <3>3. ToSet(rest) \subseteq ToSet(tiers[Highest])
      BY <3>2, GoodRemove
    <3> QED
      BY <3>1, <3>3 DEF IdsIn, Ids, Held
  <2> HIDE DEF rest
  <2>2. /\ GoodTiers(tiers', now) /\ h \in Held
        /\ Ids(HeldIn(tiers')) = Ids(Held) \ {h.id} /\ out' = out \union {h}
        /\ passed' = {k \in passed : k[2] # h.id} \union {<<h.id, y>> : y \in IdsIn(rest)}
    BY NextBatchEffect DEF rest
  <2> QED
    BY <2>1, <2>2
<1>2. UNCHANGED <<strategy, now>> /\ Count(-1)
  BY DEF NextBatch
<1> HIDE DEF h
<1>3. h.id \in Ids(Held) /\ h \in InferenceRequest
  BY <1>1, Unfold DEF Ids
<1>4. /\ IsFiniteSet(Ids(Held) \ {h.id})
      /\ Cardinality(Ids(Held) \ {h.id}) = Cardinality(Ids(Held)) - 1
      /\ Cardinality(Ids(Held)) \in Nat
  BY <1>3, Unfold, FS_RemoveElement, FS_CardinalityType
<1>5. /\ total' \in Int
      /\ strategy # "deadline_aware" => total' = Cardinality(Ids(Held)) - 1
  <2>1. -1 \in Int
    OBVIOUS
  <2>2. /\ total' \in Int
        /\ strategy # "deadline_aware" => total' = Cardinality(Ids(Held)) + (-1)
    BY <1>2, <2>1, Counted
  <2> QED
    BY <1>4, <2>2
<1>6. IsFiniteSet(out') /\ out' \subseteq InferenceRequest
  BY <1>1, <1>3, Unfold, FS_AddElement
<1>7. h.received_at <= now
  <2>1. PICK t \in Tier : h \in ToSet(tiers[t])
    BY <1>1 DEF Held
  <2>2. PICK i \in DOMAIN tiers[t] : h = tiers[t][i]
    BY <2>1 DEF ToSet
  <2>3. GoodTier(t, tiers[t], now)
    BY Unfold DEF GoodTiers
  <2> QED
    BY <2>2, <2>3 DEF GoodTier
<1>8. \A y \in out : y.id # h.id
  BY <1>3, Unfold DEF Ids
<1>9. Distinct(out')
  BY <1>1, <1>8, Unfold DEF Distinct
<1>10. Ids(out') = Ids(out) \union {h.id}
  BY <1>1 DEF Ids
<1>11. Ids(HeldIn(tiers')) \intersect Ids(out') = {}
  BY <1>1, <1>10, Unfold
<1>12. passed' \subseteq Request \X Request
  <2>1. Ids(Held) \subseteq Request
    BY Unfold, Fields DEF Ids
  <2>2. passed' \subseteq passed \union {<<h.id, y>> : y \in Ids(Held)}
    BY <1>1
  <2> QED
    BY <1>3, <2>1, <2>2, Unfold
<1> QED
  BY <1>1, <1>2, <1>4, <1>5, <1>6, <1>7, <1>9, <1>11, <1>12, Unfold, Assemble

LEMMA PurgeKeeps ==
  ASSUME IInv, NEW R \in SUBSET Held, Purge(R), UNCHANGED <<strategy, out, now, passed>>
  PROVE  IInv'
<1>1. /\ GoodTiers(tiers', now) /\ Ids(HeldIn(tiers')) = Ids(Held) \ Ids(R)
      /\ Cardinality(R) = Cardinality(Ids(R)) /\ Ids(R) \in SUBSET Ids(Held)
  BY PurgeEffect
<1>2. /\ IsFiniteSet(Ids(Held) \ Ids(R))
      /\ Cardinality(Ids(Held) \ Ids(R)) = Cardinality(Ids(Held)) - Cardinality(Ids(R))
      /\ Cardinality(Ids(Held)) \in Nat /\ Cardinality(Ids(R)) \in Nat
  BY <1>1, Unfold, LessSize
<1>3. /\ total' \in Int
      /\ strategy # "deadline_aware" =>
           total' = Cardinality(Ids(Held)) - Cardinality(Ids(R))
  <2>1. Count(- Cardinality(R))
    BY DEF Purge
  <2> DEFINE n == - Cardinality(R)
  <2>2. n \in Int /\ n = - Cardinality(Ids(R))
    BY <1>1, <1>2
  <2>3. Count(n)
    BY <2>1
  <2> HIDE DEF n
  <2>4. /\ total' \in Int
        /\ strategy # "deadline_aware" => total' = Cardinality(Ids(Held)) + n
    BY <2>2, <2>3, Counted
  <2> QED
    BY <1>2, <2>2, <2>4
<1> QED
  BY <1>1, <1>2, <1>3, Unfold, Assemble

LEMMA AdvanceKeeps ==
  ASSUME IInv, Advance
  PROVE  IInv'
<1>1. tiers' = tiers /\ out' = out /\ passed' = passed
  BY DEF Advance
<1>2. /\ UNCHANGED <<strategy, total>> /\ now' = now + 1 /\ now < MaxTime
      /\ now \in 0 .. MaxTime /\ MaxTime \in Nat
  BY Unfold DEF Advance
<1>3. now' \in 0 .. MaxTime /\ now' \in Nat /\ now <= now'
  BY <1>2
<1>5. GoodTiers(tiers', now')
  BY <1>1, <1>3, Unfold, LaterGood
<1>4. \A x \in out' : x.received_at <= now'
  <2>1. \A x \in out : x.received_at \in Nat /\ x.received_at <= now
    BY Unfold, Fields
  <2> QED
    BY <1>1, <1>2, <2>1
<1> QED
  BY <1>1, <1>2, <1>3, <1>4, <1>5, Unfold, Assemble

LEMMA NextIInv == IInv /\ [Next]_vars => IInv'
<1> SUFFICES ASSUME IInv, [Next]_vars PROVE IInv'
  OBVIOUS
<1>1. ASSUME NEW r \in Request, Submit(r) PROVE IInv'
  BY <1>1, SubmitKeeps
<1>2. ASSUME NEW x \in out, Resubmit(x) PROVE IInv'
  BY <1>2, ResubmitKeeps
<1>3. ASSUME NEW x \in out, Settle(x) PROVE IInv'
  BY <1>3, SettleKeeps
<1>4. CASE NextBatch
  BY <1>4, NextBatchKeeps
<1>5. CASE Tick
  BY <1>5, PurgeKeeps DEF Tick
<1>6. ASSUME NEW c \in Client, OnClientDisconnected(c) PROVE IInv'
  BY <1>6, PurgeKeeps DEF OnClientDisconnected
<1>7. CASE Advance
  BY <1>7, AdvanceKeeps
<1>8. CASE UNCHANGED vars
  BY <1>8 DEF vars, IInv, GoodTiers, GoodTier, TierFor, OutGood, CountGood, Held
<1> QED
  BY <1>1, <1>2, <1>3, <1>4, <1>5, <1>6, <1>7, <1>8 DEF Next

(* No request is held twice, every tier is sorted by arrival but for        *)
(* retries, and _total is right.                                             *)
THEOREM IInvAlways == Spec => []IInv
BY InitIInv, NextIInv, PTL DEF Spec

-----------------------------------------------------------------------------
(* What it gives.                                                            *)

(* The tiers, _total and what was handed out have the values the code can    *)
(* give them.                                                                *)
THEOREM TypeCorrect == Spec => []TypeOK
<1>1. IInv => TypeOK
  BY Unfold DEF TypeOK, GoodTiers
<1> QED
  BY <1>1, IInvAlways, PTL

(* _total, adjusted by hand in six methods of both tiered schedulers, is the *)
(* number of requests held, and for deadline_aware the length of the heap    *)
(* is; no request is held twice or while it is in dispatch.                  *)
THEOREM TotalAlwaysMatches == Spec => []TotalMatches
<1>1. IInv => TotalMatches
  BY SizeFacts, Unfold DEF TotalMatches
<1> QED
  BY <1>1, IInvAlways, PTL

-----------------------------------------------------------------------------
(* What a step may never do.                                                 *)

LEMMA HeldNext == Held' = HeldIn(tiers')
BY DEF Held, HeldIn

LEMMA SubmitTime ==
  ASSUME IInv, NEW r, Submit(r)
  PROVE  now' \in Nat /\ now <= now' /\ now \in Nat /\ out' = out
<1>1. now' \in now .. MaxTime /\ now \in Nat /\ MaxTime \in Nat /\ out' = out
  BY Unfold DEF Submit
<1> QED
  BY <1>1

Overflow == out' = out /\ ~ (Held' \subseteq Held)

Drops == \A d \in Held \ Held' : Overflow => Bottommost(d)

LEMMA NextDrops == IInv /\ [Next]_vars => [Drops]_vars
<1> SUFFICES ASSUME IInv, Next PROVE Drops
  OBVIOUS
<1>1. ASSUME Held \subseteq Held' \/ Held' \subseteq Held PROVE Drops
  BY <1>1 DEF Drops, Overflow
<1>2. ASSUME tiers' = tiers PROVE Drops
  BY <1>1, <1>2, HeldNext, Unfold
<1>3. ASSUME NEW r \in Request, Submit(r) PROVE Drops
  <2>1. PICK p \in Priority, b \in Urgency :
          SubmitRoom(Fresh(r, p, b)) \/ SubmitDropping(Fresh(r, p, b))
    BY <1>3 DEF Submit
  <2>2. r \notin Ids(Held) \union Ids(out)
    BY <1>3 DEF Submit
  <2>t. now' \in Nat /\ now <= now'
    BY <1>3, SubmitTime
  <2>3. CASE SubmitRoom(Fresh(r, p, b))
    BY <1>1, <2>2, <2>3, <2>t, RoomEffect, HeldNext
  <2>4. CASE SubmitDropping(Fresh(r, p, b))
    <3>1. PICK d \in Held : Bottommost(d) /\ Held \ {d} \subseteq Held'
      BY <2>2, <2>4, <2>t, DropEffect, HeldNext
    <3> QED
      BY <3>1 DEF Drops
  <2> QED
    BY <2>1, <2>3, <2>4
<1>4. ASSUME NEW x \in out, Resubmit(x) PROVE Drops
  BY <1>1, <1>4, ResubmitEffect, HeldNext
<1>5. ASSUME NEW x \in out, Settle(x) PROVE Drops
  BY <1>2, <1>5 DEF Settle
<1>6. CASE NextBatch
  BY <1>1, <1>6, NextBatchEffect, HeldNext
<1>7. ASSUME NEW R \in SUBSET Held, Purge(R) PROVE Drops
  BY <1>1, <1>7, PurgeEffect, HeldNext
<1>8. CASE Tick
  BY <1>7, <1>8 DEF Tick
<1>9. ASSUME NEW c \in Client, OnClientDisconnected(c) PROVE Drops
  BY <1>7, <1>9 DEF OnClientDisconnected
<1>10. CASE Advance
  BY <1>2, <1>10 DEF Advance
<1> QED
  BY <1>3, <1>4, <1>5, <1>6, <1>8, <1>9, <1>10 DEF Next

(* An overflow never reaches past the last tier that holds something, and    *)
(* there drops the oldest request, of whatever score, save retries in a      *)
(* deque.                                                                    *)
THEOREM OverflowDropsFromTheBottom == Spec => DropsFromTheBottom
<1>1. IInv /\ [Next]_vars
        => [\A d \in Held \ Held' : out' = out /\ ~ (Held' \subseteq Held)
              => \A y \in Held :
                   \/ TierFor(y.priority) < TierFor(d.priority)
                   \/ /\ TierFor(y.priority) = TierFor(d.priority)
                      /\ d.received_at <= y.received_at \/ (~ Scored /\ y.retried)]_vars
  BY NextDrops DEF Drops, Overflow, Bottommost
<1> QED
  BY <1>1, IInvAlways, PTL DEF Spec, DropsFromTheBottom

-----------------------------------------------------------------------------
(* Which request comes out.                                                  *)

\* ComputeScore where requests are scored: a function of its arguments alone.
Score(x, t) == x.base + AgeTerm(t - x.received_at, LatencyBudget[ClientOf[x.id]])

(* In the heaps, scores only grow with the clock; a request in dispatch      *)
(* waits behind nobody; whoever was handed out over a request that still     *)
(* waits is of its tier and scores at least as much, in dispatch and after a *)
(* retry.                                                                    *)
Ranked ==
  Scored =>
    /\ \A x \in Held \union out : x.score <= Score(x, now)
    /\ \A x \in out, p \in passed : p[2] # x.id
    /\ \A x \in Held, y \in Held \union out : <<y.id, x.id>> \in passed =>
         y.score >= x.score /\ TierFor(y.priority) = TierFor(x.priority)

LEMMA ScoreFacts ==
  ASSUME Scored, NEW x \in InferenceRequest, NEW t \in Nat, NEW u \in Nat,
         x.received_at <= t, t <= u
  PROVE  /\ ComputeScore(x, t) = Score(x, t)
         /\ Score(x, t) \in Nat /\ Score(x, t) <= Score(x, u)
<1>1. ComputeScore(x, t) = Score(x, t) /\ ComputeScore(x, u) = Score(x, u)
  BY DEF ComputeScore, Score
<1> QED
  BY <1>1, ScoreMonotone

LEMMA Numbers ==
  ASSUME IInv, NEW x \in Held \union out
  PROVE  /\ x \in InferenceRequest /\ x.score \in Nat
         /\ x.received_at \in Nat /\ x.received_at <= now /\ now \in Nat
<1>1. x \in InferenceRequest
  BY Unfold
<1>2. x.received_at <= now
  <2>1. CASE x \in out
    BY <2>1, Unfold
  <2>2. CASE x \in Held
    <3>1. PICK t \in Tier : x \in ToSet(tiers[t])
      BY <2>2 DEF Held
    <3>2. PICK i \in DOMAIN tiers[t] : x = tiers[t][i]
      BY <3>1 DEF ToSet
    <3>3. GoodTier(t, tiers[t], now)
      BY Unfold DEF GoodTiers
    <3> QED
      BY <3>2, <3>3 DEF GoodTier
  <2> QED
    BY <2>1, <2>2
<1> QED
  BY <1>1, <1>2, Fields, Unfold

(* Nobody's score has to fall because time passed.                           *)
LEMMA TimeRanks ==
  ASSUME IInv, Ranked, Scored, now' \in Nat, now <= now', NEW x \in Held \union out
  PROVE  x.score <= Score(x, now')
<1>1. /\ x \in InferenceRequest /\ x.score \in Nat /\ now \in Nat
      /\ x.received_at <= now /\ x.received_at \in Nat
  BY Numbers
<1>2. Score(x, now) \in Nat /\ Score(x, now) <= Score(x, now')
  BY <1>1, ScoreFacts
<1>3. Score(x, now') \in Nat
  <2>1. x.received_at <= now'
    BY <1>1
  <2> QED
    BY <1>1, <2>1, ScoreFacts
<1>4. x.score <= Score(x, now)
  BY DEF Ranked
<1> QED
  BY <1>1, <1>2, <1>3, <1>4

LEMMA SameStrategy ==
  ASSUME [Next]_vars
  PROVE  strategy' = strategy
BY DEF Next, Submit, Resubmit, Settle, NextBatch, Tick, OnClientDisconnected, Advance, vars

LEMMA AssembleRanked ==
  ASSUME strategy' = strategy, NEW H, H = HeldIn(tiers'),
         ASSUME Scored
         PROVE  /\ \A x \in H \union out' : x.score <= Score(x, now')
                /\ \A x \in out', p \in passed' : p[2] # x.id
                /\ \A x \in H, y \in H \union out' : <<y.id, x.id>> \in passed' =>
                     y.score >= x.score /\ TierFor(y.priority) = TierFor(x.priority)
  PROVE  Ranked'
<1>1. Held' = H
  BY HeldNext
<1> QED
  BY <1>1 DEF Ranked, Scored, TierFor, Score

(* What Push adds, where requests are scored.                                *)
LEMMA EnteredScore ==
  ASSUME Scored, NEW x \in InferenceRequest, now' \in Nat, x.received_at <= now'
  PROVE  /\ Entered(x).score = Score(x, now') /\ Score(Entered(x), now') = Score(x, now')
         /\ Entered(x).id = x.id /\ Entered(x).priority = x.priority
         /\ Score(x, now') \in Nat
<1> DEFINE y == Entered(x)
<1>1. /\ y \in InferenceRequest /\ y.id = x.id /\ y.priority = x.priority
      /\ y.received_at = x.received_at /\ y.score = ComputeScore(x, now')
      /\ ComputeScore(y, now') = ComputeScore(x, now')
  BY EnteredFacts
<1> HIDE DEF y
<1>2. /\ ComputeScore(x, now') = Score(x, now') /\ ComputeScore(y, now') = Score(y, now')
      /\ Score(x, now') \in Nat
  BY <1>1, ScoreFacts
<1> QED
  BY <1>1, <1>2 DEF y

(* A new request is in no pair of the history.                               *)
LEMMA SubmitRanks ==
  ASSUME IInv, Ranked, NEW r \in Request, Submit(r)
  PROVE  Ranked'
<1>1. PICK p \in Priority, b \in Urgency :
        SubmitRoom(Fresh(r, p, b)) \/ SubmitDropping(Fresh(r, p, b))
  BY DEF Submit
<1>2. r \notin Ids(Held) \union Ids(out)
  BY DEF Submit
<1>3. now' \in Nat /\ now <= now' /\ now \in Nat /\ out' = out
  BY SubmitTime
<1>4. strategy' = strategy /\ passed' = {k \in passed : r \notin {k[1], k[2]}}
  BY DEF Submit
<1> DEFINE x == Fresh(r, p, b)
           y == Entered(x)
           H == HeldIn(tiers')
<1>5. H \subseteq Held \union {y}
  <2>1. CASE SubmitRoom(x)
    BY <1>2, <1>3, <2>1, RoomEffect
  <2>2. CASE SubmitDropping(x)
    BY <1>2, <1>3, <2>2, DropEffect
  <2> QED
    BY <1>1, <2>1, <2>2
<1>6. x \in InferenceRequest /\ x.id = r /\ x.received_at <= now'
  BY <1>3, FreshFacts, Unfold
<1>7. H = HeldIn(tiers')
  OBVIOUS
<1> HIDE DEF x, H
<1>8. ASSUME Scored
      PROVE  /\ \A z \in H \union out' : z.score <= Score(z, now')
             /\ \A z \in out', k \in passed' : k[2] # z.id
             /\ \A u \in H, v \in H \union out' : <<v.id, u.id>> \in passed' =>
                  v.score >= u.score /\ TierFor(v.priority) = TierFor(u.priority)
  <2>1. y.id = r /\ y.score = Score(y, now') /\ y.score \in Nat
    BY <1>3, <1>6, <1>8, EnteredScore
  <2> HIDE DEF y
  <2>2. \A z \in Held \union out : z.score <= Score(z, now')
    BY <1>3, <1>8, TimeRanks
  <2>3. y.score <= Score(y, now')
    BY <2>1
  <2>4. \A z \in H \union out' : z.score <= Score(z, now')
    BY <1>3, <1>5, <2>2, <2>3
  <2>5. \A z \in out', k \in passed' : k[2] # z.id
    BY <1>3, <1>4, <1>8 DEF Ranked
  <2>6. ASSUME NEW u \in H, NEW v \in H \union out', <<v.id, u.id>> \in passed'
        PROVE  v.score >= u.score /\ TierFor(v.priority) = TierFor(u.priority)
    <3>1. <<v.id, u.id>> \in passed /\ v.id # r /\ u.id # r
      BY <1>4, <2>6
    <3>2. u \in Held /\ v \in Held \union out
      BY <1>3, <1>5, <2>1, <3>1
    <3> QED
      BY <1>8, <3>1, <3>2 DEF Ranked
  <2> QED
    BY <2>4, <2>5, <2>6
<1> QED
  BY <1>4, <1>7, <1>8, AssembleRanked

(* A retry's score is at least the one it was handed out with.               *)
LEMMA ResubmitRanks ==
  ASSUME IInv, Ranked, NEW x \in out, Resubmit(x)
  PROVE  Ranked'
<1> DEFINE w == [x EXCEPT !.retried = TRUE]
           y == Entered(w)
           H == HeldIn(tiers')
<1>1. H = Held \union {y} /\ out' = out \ {x}
  BY ResubmitEffect
<1>2. strategy' = strategy /\ now' = now /\ passed' = passed
  BY DEF Resubmit
<1>3. /\ x \in InferenceRequest /\ x.score \in Nat /\ now \in Nat
      /\ x.received_at <= now /\ x.received_at \in Nat
  BY Numbers
<1>4. /\ w \in InferenceRequest /\ w.id = x.id /\ w.received_at = x.received_at
      /\ w.priority = x.priority /\ w.base = x.base
  BY <1>3, RetriedFacts
<1>5. H = HeldIn(tiers')
  OBVIOUS
<1> HIDE DEF w, H
<1>6. ASSUME Scored
      PROVE  /\ \A z \in H \union out' : z.score <= Score(z, now')
             /\ \A z \in out', k \in passed' : k[2] # z.id
             /\ \A u \in H, v \in H \union out' : <<v.id, u.id>> \in passed' =>
                  v.score >= u.score /\ TierFor(v.priority) = TierFor(u.priority)
  <2>1. w.received_at <= now' /\ now' \in Nat
    BY <1>2, <1>3, <1>4
  <2>2. /\ y.id = x.id /\ y.priority = x.priority /\ y.score \in Nat
        /\ y.score = Score(y, now') /\ y.score = Score(w, now')
    BY <1>4, <1>6, <2>1, EnteredScore
  <2> HIDE DEF y
  <2>3. Score(w, now') = Score(x, now)
    BY <1>2, <1>4 DEF Score
  <2>4. x.score <= Score(x, now)
    BY <1>6 DEF Ranked
  <2>5. y.score >= x.score /\ y.score <= Score(y, now')
    BY <1>3, <2>2, <2>3, <2>4
  <2>6. \A z \in H \union out' : z.score <= Score(z, now')
    BY <1>1, <1>2, <1>6, <2>5 DEF Ranked
  <2>7. \A z \in out', k \in passed' : k[2] # z.id
    BY <1>1, <1>2, <1>6 DEF Ranked
  <2>8. ASSUME NEW u \in H, NEW v \in H \union out', <<v.id, u.id>> \in passed'
        PROVE  v.score >= u.score /\ TierFor(v.priority) = TierFor(u.priority)
    <3>1. u # y
      <4>1. ASSUME u = y PROVE FALSE
        <5>1. <<v.id, x.id>> \in passed
          BY <1>2, <2>2, <2>8, <4>1
        <5>2. <<v.id, x.id>>[2] # x.id
          BY <1>6, <5>1 DEF Ranked
        <5> QED
          BY <5>2
      <4> QED
        BY <4>1
    <3>2. u \in Held /\ u.score \in Nat
      BY <1>1, <3>1, Numbers
    <3>3. CASE v = y
      <4>1. x.score >= u.score /\ TierFor(x.priority) = TierFor(u.priority)
        BY <1>2, <1>6, <2>2, <2>8, <3>2, <3>3 DEF Ranked
      <4> QED
        BY <1>3, <2>2, <2>5, <3>2, <3>3, <4>1
    <3>4. CASE v # y
      <4>1. v \in Held \union out /\ <<v.id, u.id>> \in passed
        BY <1>1, <1>2, <2>8, <3>4
      <4> QED
        BY <1>6, <3>2, <4>1 DEF Ranked
    <3> QED
      BY <3>3, <3>4
  <2> QED
    BY <2>6, <2>7, <2>8
<1> QED
  BY <1>2, <1>5, <1>6, AssembleRanked

(* The first of a heap is of its tier and scores at least as much as what it *)
(* leaves behind.                                                            *)
LEMMA FirstOfTier ==
  ASSUME IInv, NextBatch
  PROVE  LET h == tiers[Highest][NextIn(Highest)]
         IN  /\ Scored => \A z \in ToSet(tiers[Highest]) : h.score >= z.score
             /\ \A z \in ToSet(tiers[Highest]) : TierFor(z.priority) = TierFor(h.priority)
             /\ \A z \in Held : TierFor(z.priority) = TierFor(h.priority)
                                  => z \in ToSet(tiers[Highest])
             /\ ToSet(RemoveAt(tiers[Highest], NextIn(Highest)))
                  = ToSet(tiers[Highest]) \ {h}
             /\ ToSet(tiers[Highest]) \subseteq Held
<1> DEFINE p == NextIn(Highest)
           q == tiers[Highest]
           h == q[p]
<1>1. Highest \in Nonempty /\ Highest \in Tier /\ GoodTiers(tiers, now)
  BY TiersFinite, Unfold DEF Nonempty, NextBatch
<1>2. /\ p \in DOMAIN q
      /\ Scored => \A j \in DOMAIN q : h.score > q[j].score \/ h.score = q[j].score
  BY <1>1, NextInFacts
<1>3. GoodTier(Highest, q, now) /\ q \in Seq(InferenceRequest)
  BY <1>1 DEF GoodTiers
<1>4. TierFor(h.priority) = Highest /\ ToSet(RemoveAt(q, p)) = ToSet(q) \ {h}
  <2>1. TierFor(h.priority) = Highest
    BY <1>2, <1>3 DEF GoodTier
  <2>2. h = q[p] /\ p \in DOMAIN q
    BY <1>2
  <2> HIDE DEF h, p, q
  <2>3. ToSet(RemoveAt(q, p)) = ToSet(q) \ {q[p]}
    BY <1>3, <2>2, GoodRemove
  <2> QED
    BY <2>1, <2>2, <2>3
<1>5. \A t \in Tier : \A z \in ToSet(tiers[t]) : TierFor(z.priority) = t
  BY <1>1, HeldFacts
<1>6. ToSet(q) \subseteq Held
  BY <1>1 DEF Held
<1>7. \A z \in ToSet(q) : TierFor(z.priority) = TierFor(h.priority)
  BY <1>1, <1>4, <1>5
<1>8. \A z \in Held : TierFor(z.priority) = TierFor(h.priority) => z \in ToSet(q)
  BY <1>4, <1>5 DEF Held
<1>9. h \in InferenceRequest /\ h.score \in Nat
  BY <1>2, <1>3, Indices, Fields
<1>10. ASSUME Scored, NEW z \in ToSet(q) PROVE h.score >= z.score
  <2>1. PICK j \in DOMAIN q : z = q[j]
    BY <1>10 DEF ToSet
  <2>2. z.score \in Nat
    BY <1>3, <2>1, Indices, Fields
  <2>3. h.score > z.score \/ h.score = z.score
    BY <1>2, <1>10, <2>1
  <2> HIDE DEF h
  <2> QED
    BY <1>9, <2>2, <2>3
<1> QED
  BY <1>4, <1>6, <1>7, <1>8, <1>10

LEMMA NextBatchRanks ==
  ASSUME IInv, Ranked, NextBatch
  PROVE  Ranked'
<1> DEFINE q == tiers[Highest]
           h == q[NextIn(Highest)]
           H == HeldIn(tiers')
<1>1. /\ h \in Held /\ H = Held \ {h} /\ out' = out \union {h}
      /\ passed' = {k \in passed : k[2] # h.id} \union {<<h.id, y>> : y \in Ids(ToSet(q) \ {h})}
  BY NextBatchEffect, FirstOfTier DEF IdsIn
<1>2. strategy' = strategy /\ now' = now
  BY DEF NextBatch
<1>3. /\ Scored => \A z \in ToSet(q) : h.score >= z.score
      /\ \A z \in ToSet(q) : TierFor(z.priority) = TierFor(h.priority)
      /\ ToSet(q) \subseteq Held
  BY FirstOfTier
<1>4. H = HeldIn(tiers')
  OBVIOUS
<1> HIDE DEF q, h, H
<1>5. \A u, v \in Held \union out : u.id = v.id => u = v
  BY Unfold DEF Distinct, Ids
<1>6. Held \intersect out = {}
  BY Unfold DEF Ids
<1>7. ASSUME Scored
      PROVE  /\ \A z \in H \union out' : z.score <= Score(z, now')
             /\ \A z \in out', k \in passed' : k[2] # z.id
             /\ \A u \in H, v \in H \union out' : <<v.id, u.id>> \in passed' =>
                  v.score >= u.score /\ TierFor(v.priority) = TierFor(u.priority)
  <2>1. \A z \in H \union out' : z.score <= Score(z, now')
    BY <1>1, <1>2, <1>7 DEF Ranked
  <2>2. ASSUME NEW z \in out', NEW k \in passed' PROVE k[2] # z.id
    <3>1. CASE k \in passed /\ k[2] # h.id
      BY <1>1, <1>7, <2>2, <3>1 DEF Ranked
    <3>2. CASE \E w \in ToSet(q) \ {h} : k = <<h.id, w.id>>
      <4>1. PICK w \in ToSet(q) \ {h} : k = <<h.id, w.id>>
        BY <3>2
      <4>2. w \in Held /\ w \notin out /\ w # h
        BY <1>3, <1>6, <4>1
      <4>3. z \in Held \union out /\ z # w
        BY <1>1, <2>2, <4>2
      <4> QED
        BY <1>5, <4>1, <4>2, <4>3
    <3> QED
      BY <1>1, <2>2, <3>1, <3>2 DEF Ids
  <2>3. ASSUME NEW u \in H, NEW v \in H \union out', <<v.id, u.id>> \in passed'
        PROVE  v.score >= u.score /\ TierFor(v.priority) = TierFor(u.priority)
    <3>1. u \in Held /\ v \in Held \union out
      BY <1>1
    <3>2. CASE <<v.id, u.id>> \in passed
      BY <1>7, <3>1, <3>2 DEF Ranked
    <3>3. CASE \E w \in ToSet(q) \ {h} : <<v.id, u.id>> = <<h.id, w.id>>
      <4>1. PICK w \in ToSet(q) \ {h} : v.id = h.id /\ u.id = w.id
        BY <3>3
      <4>2. v = h /\ u = w
        BY <1>1, <1>3, <1>5, <3>1, <4>1
      <4> QED
        BY <1>3, <1>7, <4>1, <4>2
    <3> QED
      BY <1>1, <2>3, <3>2, <3>3 DEF Ids
  <2> QED
    BY <2>1, <2>2, <2>3
<1> QED
  BY <1>2, <1>4, <1>7, AssembleRanked

(* Steps that only remove, or only let time pass.                            *)
LEMMA FewerRanked ==
  ASSUME IInv, Ranked, strategy' = strategy, HeldIn(tiers') \subseteq Held, out' \subseteq out,
         passed' = passed, now' \in Nat, now <= now'
  PROVE  Ranked'
<1> DEFINE H == HeldIn(tiers')
<1>1. H \subseteq Held /\ H = HeldIn(tiers')
  OBVIOUS
<1> HIDE DEF H
<1>2. ASSUME Scored
      PROVE  /\ \A z \in H \union out' : z.score <= Score(z, now')
             /\ \A z \in out', k \in passed' : k[2] # z.id
             /\ \A u \in H, v \in H \union out' : <<v.id, u.id>> \in passed' =>
                  v.score >= u.score /\ TierFor(v.priority) = TierFor(u.priority)
  <2>1. \A z \in Held \union out : z.score <= Score(z, now')
    BY <1>2, TimeRanks
  <2> QED
    BY <1>1, <1>2, <2>1 DEF Ranked
<1> QED
  BY <1>1, <1>2, AssembleRanked

LEMMA NextRanked == IInv /\ Ranked /\ [Next]_vars => Ranked'
<1> SUFFICES ASSUME IInv, Ranked, [Next]_vars PROVE Ranked'
  OBVIOUS
<1>0. strategy' = strategy /\ now \in Nat /\ Held = HeldIn(tiers)
  BY SameStrategy, Unfold
<1>1. ASSUME NEW r \in Request, Submit(r) PROVE Ranked'
  BY <1>1, SubmitRanks
<1>2. ASSUME NEW x \in out, Resubmit(x) PROVE Ranked'
  BY <1>2, ResubmitRanks
<1>3. CASE NextBatch
  BY <1>3, NextBatchRanks
<1>4. ASSUME NEW R \in SUBSET Held, Purge(R), UNCHANGED <<out, now, passed>>
      PROVE  Ranked'
  <2>1. HeldIn(tiers') \subseteq Held
    BY <1>4, PurgeEffect
  <2>2. now' \in Nat /\ now <= now'
    BY <1>0, <1>4
  <2> QED
    BY <1>0, <1>4, <2>1, <2>2, FewerRanked
<1>5. CASE Tick
  BY <1>4, <1>5 DEF Tick
<1>6. ASSUME NEW c \in Client, OnClientDisconnected(c) PROVE Ranked'
  BY <1>4, <1>6 DEF OnClientDisconnected
<1>7. ASSUME tiers' = tiers, out' \subseteq out, passed' = passed, now' = now \/ now' = now + 1
      PROVE  Ranked'
  <2>1. now' \in Nat /\ now <= now'
    BY <1>0, <1>7
  <2>2. HeldIn(tiers') \subseteq Held
    BY <1>0, <1>7
  <2> QED
    BY <1>0, <1>7, <2>1, <2>2, FewerRanked
<1>8. ASSUME NEW x \in out, Settle(x) PROVE Ranked'
  BY <1>7, <1>8 DEF Settle
<1>9. CASE Advance
  BY <1>7, <1>9 DEF Advance
<1>10. CASE UNCHANGED vars
  BY <1>7, <1>10 DEF vars
<1> QED
  BY <1>1, <1>2, <1>3, <1>5, <1>6, <1>8, <1>9, <1>10 DEF Next

\* What entitles x to come out while y stays.
Entitled(x, y) ==
  IF Scored
  THEN <<y.id, x.id>> \in passed => x.score = y.score
  ELSE /\ TierFor(x.priority) = TierFor(y.priority)
       /\ ~ x.retried /\ ~ y.retried
       => y.received_at >= x.received_at

(* In a heap a request that had waited behind y comes out before it only on  *)
(* a tie; in a deque the one that comes out is the first to have entered.    *)
LEMMA FirstIsEntitled ==
  ASSUME IInv, Ranked, NextBatch, NEW y \in Held
  PROVE  Entitled(tiers[Highest][NextIn(Highest)], y)
<1> DEFINE p == NextIn(Highest)
           q == tiers[Highest]
           x == q[p]
<1>1. Highest \in Nonempty /\ Highest \in Tier /\ GoodTiers(tiers, now)
  BY TiersFinite, Unfold DEF Nonempty, NextBatch
<1>2. p \in DOMAIN q /\ (~ Scored => p = 1)
  BY <1>1, NextInFacts
<1>3. /\ Scored => \A z \in ToSet(q) : x.score >= z.score
      /\ \A z \in Held : TierFor(z.priority) = TierFor(x.priority) => z \in ToSet(q)
      /\ x \in Held
  BY FirstOfTier, NextBatchEffect
<1>4. GoodTier(Highest, q, now) /\ q \in Seq(InferenceRequest)
  BY <1>1 DEF GoodTiers
<1> HIDE DEF x, p, q
<1>5. x = q[p]
  BY DEF x, q, p
<1>6. /\ x.score \in Nat /\ y.score \in Nat
      /\ x.received_at \in Nat /\ y.received_at \in Nat
  BY <1>3, Numbers
<1>7. ASSUME Scored, <<y.id, x.id>> \in passed
      PROVE  x.score = y.score
  <2>1. y.score >= x.score /\ TierFor(y.priority) = TierFor(x.priority)
    BY <1>3, <1>7 DEF Ranked
  <2>2. x.score >= y.score
    BY <1>3, <1>7, <2>1
  <2> QED
    BY <1>6, <2>1, <2>2
<1>8. ASSUME ~ Scored, TierFor(x.priority) = TierFor(y.priority), ~ x.retried, ~ y.retried
      PROVE  y.received_at >= x.received_at
  <2>1. y \in ToSet(q)
    BY <1>3, <1>8
  <2>2. PICK j \in DOMAIN q : y = q[j]
    BY <2>1 DEF ToSet
  <2>3. p = 1 /\ DOMAIN q = 1 .. Len(q) /\ Len(q) \in Nat /\ j \in Int
    BY <1>2, <1>4, <1>8, <2>2, Indices
  <2>4. CASE j = p
    BY <1>5, <1>6, <2>2, <2>4
  <2>5. CASE j # p
    <3>1. p < j
      BY <2>2, <2>3, <2>5
    <3>2. q[p].received_at <= q[j].received_at
      BY <1>2, <1>4, <1>8, <2>2, <3>1 DEF GoodTier
    <3> QED
      BY <1>5, <1>6, <2>2, <3>2
  <2> QED
    BY <2>4, <2>5
<1> QED
  BY <1>7, <1>8 DEF Entitled, x, q, p

HandedOutFairly == \A x \in out' \ out, y \in Held \intersect Held' : Entitled(x, y)

LEMMA NextIsFair == IInv /\ Ranked /\ [Next]_vars => [HandedOutFairly]_vars
<1> SUFFICES ASSUME IInv, Ranked, Next PROVE HandedOutFairly
  OBVIOUS
<1>1. CASE NextBatch
  <2>1. out' = out \union {tiers[Highest][NextIn(Highest)]}
    BY <1>1, NextBatchEffect
  <2>2. \A y \in Held : Entitled(tiers[Highest][NextIn(Highest)], y)
    BY <1>1, FirstIsEntitled
  <2> QED
    BY <2>1, <2>2 DEF HandedOutFairly
<1>2. CASE ~ NextBatch
  <2>1. out' \subseteq out
    BY <1>2 DEF Next, Submit, Resubmit, Settle, Tick, OnClientDisconnected, Advance
  <2> QED
    BY <2>1 DEF HandedOutFairly
<1> QED
  BY <1>1, <1>2

(* Whatever fails, comes back, overflows or expires: in the heaps, with any  *)
(* weight, budgets and decoding times, a retry lets a request that had       *)
(* waited behind it out first only on a tie; in a tier's deque requests that *)
(* never failed come out in the order they arrived.                          *)
THEOREM HandsOutInOrder == Spec => HandOutOrder
<1>1. Init => Ranked
  <2>1. ASSUME Init PROVE Held = {} /\ out = {} /\ passed = {}
    BY <2>1 DEF Init, Held, ToSet
  <2> QED
    BY <2>1 DEF Ranked
<1>2. Spec => [](IInv /\ Ranked)
  BY <1>1, NextRanked, IInvAlways, PTL DEF Spec
<1>3. IInv /\ Ranked /\ [Next]_vars
        => [\A x \in out' \ out, y \in Held \intersect Held' :
              IF Scored
              THEN <<y.id, x.id>> \in passed => x.score = y.score
              ELSE /\ TierFor(x.priority) = TierFor(y.priority)
                   /\ ~ x.retried /\ ~ y.retried
                   => y.received_at >= x.received_at]_vars
  BY NextIsFair DEF HandedOutFairly, Entitled
<1> QED
  BY <1>2, <1>3, PTL DEF Spec, HandOutOrder

-----------------------------------------------------------------------------
(* The refinement: tiers, heaps and _total implement Scheduler.              *)

(* The instance speaks of the same finite sets and sizes.                    *)
LEMMA SameSizes ==
  ASSUME NEW A
  PROVE  /\ S!IsFiniteSet(A) <=> IsFiniteSet(A)
         /\ S!Cardinality(A) = Cardinality(A)
<1>1. S!IsFiniteSet(A) <=> IsFiniteSet(A)
  BY DEF S!IsFiniteSet, IsFiniteSet
<1>2. S!Cardinality(A) = Cardinality(A)
  BY DEF S!Cardinality, Cardinality
<1> QED
  BY <1>1, <1>2

LEMMA InitRefines == Init => S!Init
<1> SUFFICES ASSUME Init PROVE S!Init
  OBVIOUS
<1>1. \A t \in Tier : tiers[t] = <<>>
  BY DEF Init
<1>2. Held = {} /\ out = {}
  BY <1>1 DEF Held, ToSet, Init
<1> QED
  BY <1>2 DEF S!Init, Ids

LEMMA SubmitRefines ==
  ASSUME IInv, NEW r \in Request, Submit(r)
  PROVE  S!Submit(r)
<1>1. PICK p \in Priority, b \in Urgency :
        SubmitRoom(Fresh(r, p, b)) \/ SubmitDropping(Fresh(r, p, b))
  BY DEF Submit
<1>2. r \notin Ids(Held) \union Ids(out)
  BY DEF Submit
<1>3. Cardinality(Ids(Held)) = Size /\ Size \in Nat
  BY SizeFacts
<1>t. now' \in Nat /\ now <= now' /\ out' = out
  BY SubmitTime
<1>4. CASE SubmitRoom(Fresh(r, p, b))
  <2>1. Ids(Held') = Ids(Held) \union {r}
    BY <1>2, <1>4, <1>t, RoomEffect, HeldNext
  <2>2. Cardinality(Ids(Held)) < MaxQueue /\ out' = out
    BY <1>3, <1>4, <1>t DEF SubmitRoom
  <2>3. Ids(Held') \in S!AfterSubmit(Ids(Held), r)
    BY <2>1, <2>2, SameSizes DEF S!AfterSubmit
  <2> QED
    BY <1>2, <2>2, <2>3 DEF S!Submit
<1>5. CASE SubmitDropping(Fresh(r, p, b))
  <2>1. PICK d \in Held : Ids(Held') = (Ids(Held) \ {d.id}) \union {r}
    BY <1>2, <1>5, <1>t, DropEffect, HeldNext
  <2>2. ~ (Cardinality(Ids(Held)) < MaxQueue) /\ OverflowPolicy = "drop_oldest" /\ out' = out
    BY <1>3, <1>5, <1>t DEF SubmitDropping
  <2>3. d.id \in Ids(Held)
    BY DEF Ids
  <2>4. Ids(Held') \in S!AfterSubmit(Ids(Held), r)
    BY <2>1, <2>2, <2>3, SameSizes DEF S!AfterSubmit
  <2> QED
    BY <1>2, <2>2, <2>4 DEF S!Submit
<1> QED
  BY <1>1, <1>4, <1>5

LEMMA NextBatchRefines ==
  ASSUME IInv, NextBatch
  PROVE  \E B \in SUBSET Ids(Held) : S!NextBatch(B)
<1> DEFINE h == tiers[Highest][NextIn(Highest)]
           B == {h.id}
<1>1. h \in Held /\ Ids(Held') = Ids(Held) \ {h.id} /\ out' = out \union {h}
  BY NextBatchEffect, HeldNext
<1>2. Cardinality(out) < MaxOut
  BY DEF NextBatch
<1> HIDE DEF h
<1>3. B \in SUBSET Ids(Held) /\ Ids(out') = Ids(out) \union B
  BY <1>1 DEF Ids
<1>4. h.id \notin Ids(out)
  BY <1>3, Unfold
<1>5. /\ IsFiniteSet(Ids(out)) /\ Cardinality(Ids(out)) = Cardinality(out)
      /\ Cardinality(out) \in Nat
  <2>1. IsFiniteSet(Ids(out))
    BY Unfold, FewerIds DEF Ids
  <2>2. Cardinality(Ids(out)) = Cardinality(out)
    BY <2>1, Unfold, SameManyIds DEF Ids, Distinct
  <2> QED
    BY <2>1, <2>2, FS_CardinalityType
<1>6. /\ IsFiniteSet(Ids(out) \union B)
      /\ Cardinality(Ids(out) \union B) = Cardinality(Ids(out)) + 1
  BY <1>4, <1>5, AddSize
<1>7. Cardinality(Ids(out) \union B) <= MaxOut
  BY <1>2, <1>5, <1>6
<1>8. B # {}
  OBVIOUS
<1>9. Ids(Held') = Ids(Held) \ B
  BY <1>1
<1> HIDE DEF B
<1>10. S!NextBatch(B)
  BY <1>3, <1>6, <1>7, <1>8, <1>9, SameSizes DEF S!NextBatch
<1> QED
  BY <1>3, <1>10

LEMMA SettleRefines ==
  ASSUME IInv, NEW x \in out, Settle(x)
  PROVE  {x.id} \in SUBSET Ids(out) /\ S!Settle({x.id})
<1>1. out' = out \ {x} /\ tiers' = tiers
  BY DEF Settle
<1>2. Ids(out') = Ids(out) \ {x.id} /\ x.id \in Ids(out)
  BY <1>1, Unfold DEF Ids, Distinct
<1>3. Held' = Held
  BY <1>1, Unfold, HeldNext
<1> QED
  BY <1>2, <1>3 DEF S!Settle

LEMMA DisconnectRefines ==
  ASSUME IInv, NEW c \in Client, OnClientDisconnected(c)
  PROVE  S!OnClientDisconnected(c)
<1> DEFINE R == {x \in Held : ClientOf[x.id] = c}
<1>1. R \in SUBSET Held /\ Purge(R) /\ out' = out
  BY DEF OnClientDisconnected
<1>2. Ids(R) = {r \in Ids(Held) : ClientOf[r] = c}
  BY DEF Ids
<1> HIDE DEF R
<1>3. Ids(Held') = Ids(Held) \ Ids(R)
  BY <1>1, PurgeEffect, HeldNext
<1>4. Ids(Held') = Ids(Held) \ {r \in Ids(Held) : ClientOf[r] = c}
  BY <1>2, <1>3
<1> QED
  BY <1>1, <1>4 DEF S!OnClientDisconnected, S!OfClient

LEMMA NextRefines == IInv /\ [Next]_vars => [S!Next]_(S!vars)
<1> SUFFICES ASSUME IInv, [Next]_vars PROVE [S!Next]_(S!vars)
  OBVIOUS
<1>1. ASSUME NEW r \in Request, Submit(r) PROVE S!Next
  BY <1>1, SubmitRefines DEF S!Next
<1>2. ASSUME NEW x \in out, Resubmit(x) PROVE S!Next
  <2>1. S!Resubmit(x.id)
    BY <1>2, ResubmitEffect, HeldNext DEF S!Resubmit
  <2>2. x.id \in Ids(out)
    BY DEF Ids
  <2> QED
    BY <2>1, <2>2 DEF S!Next
<1>3. ASSUME NEW x \in out, Settle(x) PROVE S!Next
  BY <1>3, SettleRefines DEF S!Next
<1>4. CASE NextBatch
  BY <1>4, NextBatchRefines DEF S!Next
<1>5. CASE Tick
  <2> DEFINE R == {x \in Held : IsExpired(x)}
  <2>1. R \in SUBSET Held /\ Purge(R) /\ out' = out
    BY <1>5 DEF Tick
  <2> HIDE DEF R
  <2>2. Ids(Held') = Ids(Held) \ Ids(R) /\ Ids(R) \in SUBSET Ids(Held)
    BY <2>1, PurgeEffect, HeldNext
  <2>3. S!Tick(Ids(R))
    BY <2>1, <2>2 DEF S!Tick
  <2> QED
    BY <2>2, <2>3 DEF S!Next
<1>6. ASSUME NEW c \in Client, OnClientDisconnected(c) PROVE S!Next
  BY <1>6, DisconnectRefines DEF S!Next
<1>7. CASE Advance \/ UNCHANGED vars
  <2>1. tiers' = tiers /\ out' = out
    BY <1>7 DEF Advance, vars
  <2> QED
    BY <2>1, HeldNext, Unfold DEF S!vars
<1> QED
  BY <1>1, <1>2, <1>3, <1>4, <1>5, <1>6, <1>7 DEF Next

(* Each of the three tiered strategies keeps the promise of the Scheduler    *)
(* ABC, whichever counter, tier or heap it decides by.                       *)
THEOREM Refinement == Spec => Refines
<1>1. Spec => S!Init
  BY InitRefines DEF Spec
<1>2. Spec => [][S!Next]_(S!vars)
  BY NextRefines, IInvAlways, PTL DEF Spec
<1> QED
  BY <1>1, <1>2, PTL DEF Refines, S!Spec

=============================================================================
