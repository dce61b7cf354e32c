------------------------- MODULE ModelDeadlineProofs -------------------------
(* Theorems about the model_deadline scheduler, for every set of requests,   *)
(* clients and models, every configuration and every weight, and about the   *)
(* abstract scheduler that it implements.                                    *)
EXTENDS ModelDeadline, FiniteSetTheorems, TLAPS

USE OwnerAssumption, ConfigAssumption, MaxOutAssumption, ScoreAssumption

\* keys is a dict for the heaps of h: its keys are their models, and their
\* places are distinct and lie before n, the next one.
DictOf(h, keys, n) ==
  /\ DOMAIN keys = ModelsOf(h)
  /\ \A m \in DOMAIN keys : keys[m] \in 0 .. MaxCounter /\ keys[m] < n
  /\ \A m, k \in DOMAIN keys : keys[m] = keys[k] => m = k

(* The inductive invariant.  The size facts need the sets to be finite and   *)
(* disjoint; Distinct and KeysMatch need counters and dict places to lie     *)
(* below the counter; scores are only natural if no request is from the      *)
(* future.                                                                   *)
IInv ==
  /\ TypeOK
  /\ \A x \in held \union out : x.received_at <= now
  /\ \A x \in held : x.counter < counter
  /\ Distinct
  /\ DictOf(held, inserted, counter)
  /\ TotalMatches
  /\ IsFiniteSet(out) /\ Cardinality(out) <= MaxOut
  /\ QueueBound

-----------------------------------------------------------------------------
(* Operators.                                                                *)

LEMMA TimesMonotone ==
  ASSUME NEW w \in Nat, NEW a \in Nat, NEW b \in Nat, a <= b
  PROVE  w * a \in Nat /\ w * a <= w * b
<1>1. PICK d \in Nat : b = a + d
  <2>1. b - a \in Nat /\ b = a + (b - a)
    OBVIOUS
  <2> QED
    BY <2>1
<1>2. ASSUME NEW c \in Nat PROVE w * c \in Nat
  BY <1>2
<1>3. w * b = w * a + w * d
  BY <1>1
<1> QED
  BY <1>2, <1>3

(* An age counts for no less when it grows, whatever the budget.             *)
LEMMA AgeTermMonotone ==
  ASSUME NEW c \in Client, NEW a \in Nat, NEW b \in Nat, a <= b
  PROVE  /\ AgeTerm(a, LatencyBudget[c]) \in Nat
         /\ AgeTerm(a, LatencyBudget[c]) <= AgeTerm(b, LatencyBudget[c])
<1> DEFINE budget == LatencyBudget[c]
           capped(age) == IF age < budget THEN age ELSE budget
           w == AgeWeight \div budget
<1>1. budget \in Nat \ {0}
  BY ScoreAssumption
<1>2. w \in Nat
  <2>1. AgeWeight \in Nat
    BY ScoreAssumption
  <2> HIDE DEF budget
  <2> QED
    BY <1>1, <2>1
<1>3. capped(a) \in Nat /\ capped(b) \in Nat /\ capped(a) <= capped(b)
  <2> HIDE DEF budget
  <2> QED
    BY <1>1
<1>4. AgeTerm(a, budget) = w * capped(a) /\ AgeTerm(b, budget) = w * capped(b)
  BY DEF AgeTerm
<1> HIDE DEF w, capped
<1>5. w * capped(a) \in Nat /\ w * capped(a) <= w * capped(b)
  BY <1>2, <1>3, TimesMonotone
<1> QED
  BY <1>4, <1>5

(* A score is a natural number and never falls while the clock runs.         *)
LEMMA ScoreMonotone ==
  ASSUME NEW x \in InferenceRequest, NEW t \in Nat, NEW u \in Nat,
         x.received_at <= t, t <= u
  PROVE  ComputeScore(x, t) \in Nat /\ ComputeScore(x, t) <= ComputeScore(x, u)
<1>1. x.base \in Nat /\ x.received_at \in Nat /\ ClientOf[x.id] \in Client
  <2>1. x.base \in Urgency /\ x.received_at \in 0 .. MaxTime /\ x.id \in Request
    BY DEF InferenceRequest
  <2>2. x.base \in Nat
    BY <2>1, ScoreAssumption
  <2>3. x.received_at \in Nat
    BY <2>1
  <2>4. ClientOf[x.id] \in Client
    BY <2>1, OwnerAssumption
  <2> QED
    BY <2>2, <2>3, <2>4
<1> DEFINE a == t - x.received_at
           b == u - x.received_at
           term(age) == AgeTerm(age, LatencyBudget[ClientOf[x.id]])
<1>2. a \in Nat /\ b \in Nat /\ a <= b
  BY <1>1
<1> HIDE DEF a, b
<1>3. term(a) \in Nat /\ term(a) <= term(b) /\ term(b) \in Nat
  BY <1>1, <1>2, AgeTermMonotone
<1>4. ComputeScore(x, t) = x.base + term(a) /\ ComputeScore(x, u) = x.base + term(b)
  BY DEF ComputeScore, a, b
<1> HIDE DEF term
<1> QED
  BY <1>1, <1>3, <1>4

(* Emptied heaps leave the dict, and nothing else does.                      *)
LEMMA KeysOfDict ==
  ASSUME IInv, NEW h \in SUBSET held
  PROVE  DictOf(h, KeysOf(h), counter)
<1>1. ModelsOf(h) \subseteq DOMAIN inserted
  BY DEF IInv, DictOf, ModelsOf
<1>2. DOMAIN KeysOf(h) = ModelsOf(h)
  BY <1>1 DEF KeysOf
<1>3. \A m \in ModelsOf(h) : KeysOf(h)[m] = inserted[m]
  BY <1>1 DEF KeysOf
<1> QED
  BY <1>1, <1>2, <1>3 DEF IInv, DictOf

(* A push adds one request, with the old counter as its own, to what is      *)
(* left of the heaps, and its model to what is left of the dict.             *)
LEMMA PushFacts ==
  ASSUME IInv, NEW h \in SUBSET held, NEW keys, DictOf(h, keys, counter),
         NEW x \in InferenceRequest, x.received_at <= now, Push(h, keys, x),
         now' \in 0 .. MaxTime, now <= now'
  PROVE  /\ \E y \in InferenceRequest :
              /\ y.id = x.id /\ y.counter = counter
              /\ y.received_at = x.received_at
              /\ y \notin held
              /\ held' = h \union {y}
         /\ counter' = counter + 1 /\ counter' \in 0 .. MaxCounter
         /\ DictOf(held', inserted', counter')
<1> DEFINE y == [x EXCEPT !.score = ComputeScore(x, now'), !.counter = counter]
<1>1. counter' = counter + 1 /\ counter' \in 0 .. MaxCounter
  BY DEF Push, IInv, TypeOK
<1>2. y \in InferenceRequest
  <2>1. x.received_at \in Nat /\ now \in Nat /\ now' \in Nat
    <3>1. x.received_at \in 0 .. MaxTime
      BY DEF InferenceRequest
    <3>2. now \in 0 .. MaxTime
      BY DEF IInv, TypeOK
    <3>3. x.received_at \in Nat
      BY <3>1
    <3> QED
      BY <3>2, <3>3
  <2>2. x.received_at <= now'
    BY <2>1
  <2>3. ComputeScore(x, now') \in Nat
    BY <2>1, <2>2, ScoreMonotone
  <2>4. counter \in 0 .. MaxCounter
    BY DEF IInv, TypeOK
  <2> HIDE DEF ComputeScore
  <2> QED
    BY <2>3, <2>4 DEF InferenceRequest
<1>3. y.id = x.id /\ y.counter = counter /\ y.received_at = x.received_at
  BY DEF InferenceRequest
<1>4. y \notin held
  <2>1. counter \in Nat
    BY DEF IInv, TypeOK
  <2>2. \A z \in held : z.counter < counter
    BY DEF IInv
  <2> HIDE DEF y
  <2>3. ASSUME y \in held PROVE FALSE
    BY <1>3, <2>1, <2>2, <2>3
  <2> QED
    BY <2>3
<1>5. held' = h \union {y}
  BY DEF Push
<1>6. DictOf(held', inserted', counter')
  <2> DEFINE m == ModelOf[x.id]
  <2>1. ModelsOf(held') = ModelsOf(h) \union {m}
    BY <1>3, <1>5 DEF ModelsOf
  <2>2. DOMAIN inserted' = DOMAIN keys \union {m}
    BY DEF Push, WithKey
  <2>3. \A k \in DOMAIN inserted' :
          inserted'[k] = IF k \in DOMAIN keys THEN keys[k] ELSE counter
    BY DEF Push, WithKey
  <2>4. counter \in Nat
    BY DEF IInv, TypeOK
  <2>5. \A k \in DOMAIN inserted' :
          inserted'[k] \in 0 .. MaxCounter /\ inserted'[k] < counter'
    BY <1>1, <2>2, <2>3, <2>4 DEF DictOf
  <2>6. \A k, l \in DOMAIN inserted' : inserted'[k] = inserted'[l] => k = l
    BY <2>2, <2>3, <2>4 DEF DictOf
  <2> QED
    BY <2>1, <2>2, <2>5, <2>6 DEF DictOf
<1> QED
  BY <1>1, <1>2, <1>3, <1>4, <1>5, <1>6


(* Sizes are natural numbers and total is the size of held.                  *)
LEMMA Sizes ==
  ASSUME IInv
  PROVE  /\ IsFiniteSet(held) /\ IsFiniteSet(out)
         /\ Cardinality(held) \in Nat /\ Cardinality(out) \in Nat
         /\ total = Cardinality(held)
BY FS_CardinalityType DEF IInv, TotalMatches

(* Whatever is pushed, every part of the invariant that is not about sizes   *)
(* survives, given that the request is not live already.                     *)
LEMMA PushKeeps ==
  ASSUME IInv, NEW h \in SUBSET held, NEW keys, DictOf(h, keys, counter),
         NEW x \in InferenceRequest, x.received_at <= now, Push(h, keys, x),
         now' \in 0 .. MaxTime, now <= now', passed' \subseteq passed,
         out' \subseteq out, total' \in Int,
         \A z \in h \union out' : z.id # x.id
  PROVE  /\ TypeOK'
         /\ (\A z \in held \union out : z.received_at <= now)'
         /\ (\A z \in held : z.counter < counter)'
         /\ Distinct'
         /\ DictOf(held, inserted, counter)'
<1>1. PICK y \in InferenceRequest :
        /\ y.id = x.id /\ y.counter = counter /\ y.received_at = x.received_at
        /\ y \notin held /\ held' = h \union {y}
  BY PushFacts
<1>2. counter' = counter + 1 /\ counter' \in 0 .. MaxCounter
  BY PushFacts
<1>3. DictOf(held', inserted', counter')
  BY PushFacts
<1>4. \A z \in held : z.counter \in Nat /\ z.counter < counter
  BY DEF IInv, TypeOK, InferenceRequest
<1>5. counter \in Nat
  BY DEF IInv, TypeOK
<1>6. TypeOK'
  <2>1. held' \subseteq InferenceRequest /\ out' \subseteq InferenceRequest
    BY <1>1 DEF IInv, TypeOK
  <2>2. DOMAIN inserted' \subseteq Model
    <3>1. ModelsOf(held') \subseteq Model
      BY <2>1 DEF ModelsOf, InferenceRequest
    <3> QED
      BY <1>3, <3>1 DEF DictOf
  <2>3. \A m \in DOMAIN inserted' : inserted'[m] \in 0 .. MaxCounter
    BY <1>3 DEF DictOf
  <2> QED
    BY <1>2, <2>1, <2>2, <2>3 DEF IInv, TypeOK
<1>7. \A z \in held' \union out' : z.received_at <= now'
  <2>1. \A z \in held \union out : z.received_at \in 0 .. MaxTime
    BY DEF IInv, TypeOK, InferenceRequest
  <2>2. y.received_at \in 0 .. MaxTime /\ y.received_at <= now
    BY <1>1 DEF InferenceRequest
  <2>3. now \in 0 .. MaxTime
    BY DEF IInv, TypeOK
  <2> QED
    BY <1>1, <2>1, <2>2, <2>3 DEF IInv
<1>8. \A z \in held' : z.counter < counter'
  BY <1>1, <1>2, <1>4, <1>5
<1>9. Distinct'
  <2>1. held' \intersect out' = {}
    <3>1. y \notin out'
      BY <1>1
    <3> QED
      BY <1>1, <3>1 DEF IInv, Distinct
  <2>2. \A u, v \in held' \union out' : u.id = v.id => u = v
    BY <1>1 DEF IInv, Distinct
  <2>3. \A u, v \in held' : u.counter = v.counter => u = v
    BY <1>1, <1>4, <1>5 DEF IInv, Distinct
  <2> QED
    BY <2>1, <2>2, <2>3 DEF Distinct
<1> QED
  BY <1>3, <1>6, <1>7, <1>8, <1>9

(* Rebuilding the heaps without some requests: tick and disconnect.          *)
LEMMA RemoveKeeps ==
  ASSUME IInv, NEW gone \in SUBSET held, Remove(gone), UNCHANGED <<counter, out, now, passed>>
  PROVE  IInv'
<1>1. DictOf(held', inserted', counter')
  BY KeysOfDict DEF Remove
<1>2. TypeOK'
  <2>1. DOMAIN inserted' \subseteq Model
    BY DEF Remove, KeysOf, IInv, TypeOK
  <2>2. \A m \in DOMAIN inserted' : inserted'[m] \in 0 .. MaxCounter
    BY <1>1 DEF DictOf
  <2>3. total' \in Int
    BY FS_Subset, FS_CardinalityType, Sizes DEF Remove
  <2> QED
    BY <2>1, <2>2, <2>3 DEF IInv, TypeOK, Remove
<1>3. TotalMatches' /\ Cardinality(held') <= Cardinality(held)
  <2>1. IsFiniteSet(gone) /\ held \intersect gone = gone
    BY Sizes, FS_Subset
  <2>2. /\ IsFiniteSet(held \ gone)
        /\ Cardinality(held \ gone) = Cardinality(held) - Cardinality(held \intersect gone)
    BY Sizes, FS_Difference
  <2>3. Cardinality(gone) \in Nat
    BY <2>1, FS_CardinalityType
  <2>4. held' = held \ gone /\ total' = total - Cardinality(gone)
    BY DEF Remove
  <2>5. total = Cardinality(held) /\ Cardinality(held) \in Nat
    BY Sizes
  <2>6. IsFiniteSet(held') /\ Cardinality(held') = Cardinality(held) - Cardinality(gone)
    BY <2>1, <2>2, <2>4
  <2>7. total' = Cardinality(held') /\ Cardinality(held') <= Cardinality(held)
    BY <2>3, <2>4, <2>5, <2>6
  <2> QED
    BY <2>6, <2>7 DEF TotalMatches
<1>4. QueueBound'
  BY <1>3, Sizes, FS_CardinalityType DEF IInv, QueueBound, TotalMatches
<1>5. Distinct'
  BY DEF IInv, Distinct, Remove
<1> QED
  BY <1>1, <1>2, <1>3, <1>4, <1>5 DEF IInv, Remove


-----------------------------------------------------------------------------
(* The actions.                                                              *)

LEMMA InitIInv == Init => IInv
<1> SUFFICES ASSUME Init PROVE IInv
  OBVIOUS
<1>1. /\ held = {} /\ out = {} /\ total = 0 /\ counter = 0 /\ now = 0
      /\ DOMAIN inserted = {} /\ passed = {}
  BY DEF Init
<1>2. TypeOK
  BY <1>1 DEF TypeOK
<1>3. DictOf(held, inserted, counter)
  BY <1>1 DEF DictOf, ModelsOf
<1>4. TotalMatches /\ IsFiniteSet(out) /\ Cardinality(out) = 0 /\ Cardinality(held) = 0
  BY <1>1, FS_EmptySet DEF TotalMatches
<1>5. Cardinality(out) <= MaxOut /\ QueueBound
  BY <1>4 DEF QueueBound
<1> QED
  BY <1>1, <1>2, <1>3, <1>4, <1>5 DEF IInv, Distinct

LEMMA FreshType ==
  ASSUME IInv, NEW r \in Request, NEW b \in Urgency
  PROVE  /\ Fresh(r, b) \in InferenceRequest
         /\ Fresh(r, b).id = r /\ Fresh(r, b).received_at <= now
<1>1. now \in 0 .. MaxTime /\ now \in Nat
  BY DEF IInv, TypeOK
<1>2. 0 \in 0 .. MaxCounter
  OBVIOUS
<1> QED
  BY <1>1, <1>2 DEF Fresh, InferenceRequest

LEMMA SubmitKeeps ==
  ASSUME IInv, NEW r \in Request, Submit(r)
  PROVE  IInv'
<1>1. PICK b \in Urgency : SubmitRoom(Fresh(r, b)) \/ SubmitDropping(Fresh(r, b))
  BY DEF Submit
<1> DEFINE x == Fresh(r, b)
<1>2. x \in InferenceRequest /\ x.id = r /\ x.received_at <= now
  BY FreshType
<1>3. \A z \in held \union out : z.id # x.id
  BY <1>2 DEF Submit, Ids
<1>t. /\ now' \in 0 .. MaxTime /\ now <= now'
      /\ out' = out /\ passed' \subseteq passed
  BY DEF Submit, IInv, TypeOK
<1> HIDE DEF x
<1>4. CASE SubmitRoom(x)
  <2>1. Push(held, inserted, x) /\ total < MaxQueue /\ total' = total + 1
    BY <1>4 DEF SubmitRoom
  <2>2. DictOf(held, inserted, counter) /\ total' \in Int
    BY <2>1 DEF IInv, TypeOK
  <2>3. PICK y : y \notin held /\ held' = held \union {y}
    BY <1>2, <1>t, <2>1, <2>2, PushFacts
  <2>4. IsFiniteSet(held') /\ Cardinality(held') = Cardinality(held) + 1
    BY <2>3, Sizes, FS_AddElement
  <2>5. TotalMatches'
    BY <2>1, <2>4, Sizes DEF TotalMatches
  <2>6. Cardinality(out) <= MaxOut
    BY DEF IInv
  <2>7. QueueBound' /\ IsFiniteSet(out') /\ Cardinality(out') <= MaxOut
    BY <1>t, <2>1, <2>4, <2>6, Sizes DEF QueueBound
  <2> QED
    BY <1>2, <1>3, <1>t, <2>1, <2>2, <2>5, <2>7, PushKeeps DEF IInv
<1>5. CASE SubmitDropping(x)
  <2>1. PICK d \in Victims : Push(held \ {d}, KeysOf(held \ {d}), x)
    BY <1>5 DEF SubmitDropping
  <2>2. total' = total
    BY <1>5 DEF SubmitDropping
  <2>3. d \in held
    BY DEF Victims, Heap, Oldest
  <2>4. DictOf(held \ {d}, KeysOf(held \ {d}), counter) /\ total' \in Int
    BY <2>2, KeysOfDict DEF IInv, TypeOK
  <2>5. PICK y : y \notin held /\ held' = (held \ {d}) \union {y}
    BY <1>2, <1>t, <2>1, <2>4, PushFacts
  <2>6. IsFiniteSet(held \ {d}) /\ Cardinality(held \ {d}) = Cardinality(held) - 1
    BY <2>3, Sizes, FS_RemoveElement
  <2>7. IsFiniteSet(held') /\ Cardinality(held') = Cardinality(held \ {d}) + 1
    BY <2>5, <2>6, FS_AddElement
  <2>8. TotalMatches' /\ QueueBound'
    BY <1>t, <2>2, <2>6, <2>7, Sizes DEF IInv, TotalMatches, QueueBound
  <2>9. IsFiniteSet(out') /\ Cardinality(out') <= MaxOut
    BY <1>t DEF IInv
  <2> QED
    BY <1>2, <1>3, <1>t, <2>1, <2>2, <2>4, <2>8, <2>9, PushKeeps DEF IInv
<1> QED
  BY <1>1, <1>4, <1>5 DEF x

LEMMA ResubmitKeeps ==
  ASSUME IInv, NEW x \in out, Resubmit(x)
  PROVE  IInv'
<1>1. /\ Push(held, inserted, x) /\ total' = total + 1
      /\ now' = now /\ now \in 0 .. MaxTime /\ now <= now'
      /\ passed' = passed /\ out' = out \ {x}
  BY DEF Resubmit, IInv, TypeOK
<1>2. x \in InferenceRequest /\ x.received_at <= now
  BY DEF IInv, TypeOK
<1>3. \A z \in held \union out' : z.id # x.id
  BY <1>1 DEF IInv, Distinct
<1>4. DictOf(held, inserted, counter) /\ total' \in Int
  BY <1>1 DEF IInv, TypeOK
<1>5. PICK y : y \notin held /\ held' = held \union {y}
  BY <1>1, <1>2, <1>4, PushFacts
<1>6. IsFiniteSet(held') /\ Cardinality(held') = Cardinality(held) + 1
  BY <1>5, Sizes, FS_AddElement
<1>7. IsFiniteSet(out') /\ Cardinality(out') = Cardinality(out) - 1
  BY <1>1, Sizes, FS_RemoveElement
<1>8. TotalMatches' /\ QueueBound' /\ Cardinality(out') <= MaxOut
  BY <1>1, <1>6, <1>7, Sizes DEF IInv, TotalMatches, QueueBound
<1> QED
  BY <1>1, <1>2, <1>3, <1>4, <1>7, <1>8, PushKeeps DEF IInv

LEMMA NextBatchForModelKeeps ==
  ASSUME IInv, NEW m, NextBatchForModel(m)
  PROVE  IInv'
<1>1. PICK x \in Top(Heap(held, m)) :
        /\ held' = held \ {x} /\ inserted' = KeysOf(held \ {x})
        /\ out' = out \union {x}
        /\ passed' = {p \in passed : p[2] # x.id}
                       \union {<<x.id, y>> : y \in Ids(Heap(held, m) \ {x})}
  BY DEF NextBatchForModel
<1>2. /\ Cardinality(out) < MaxOut /\ total' = total - 1
      /\ counter' = counter /\ now' = now
  BY DEF NextBatchForModel
<1>3. x \in held /\ x \notin out
  BY DEF Top, Heap, IInv, Distinct
<1>4. DictOf(held', inserted', counter')
  BY <1>1, <1>2, KeysOfDict
<1>5. TypeOK'
  <2>1. DOMAIN inserted' \subseteq Model
    BY <1>1 DEF KeysOf, IInv, TypeOK
  <2>2. \A k \in DOMAIN inserted' : inserted'[k] \in 0 .. MaxCounter
    BY <1>4 DEF DictOf
  <2>3. held' \subseteq InferenceRequest /\ out' \subseteq InferenceRequest
    BY <1>1, <1>3 DEF IInv, TypeOK
  <2>4. passed' \subseteq Request \X Request
    <3>1. Ids(held) \subseteq Request /\ x.id \in Request
      BY <1>3 DEF Ids, IInv, TypeOK, InferenceRequest
    <3>2. passed' \subseteq passed \union {<<x.id, y>> : y \in Ids(held)}
      BY <1>1 DEF Ids, Heap
    <3> QED
      BY <3>1, <3>2 DEF IInv, TypeOK
  <2> QED
    BY <1>2, <2>1, <2>2, <2>3, <2>4 DEF IInv, TypeOK
<1>6. IsFiniteSet(held') /\ Cardinality(held') = Cardinality(held) - 1
  BY <1>1, <1>3, Sizes, FS_RemoveElement
<1>7. IsFiniteSet(out') /\ Cardinality(out') = Cardinality(out) + 1
  BY <1>1, <1>3, Sizes, FS_AddElement
<1>8. TotalMatches' /\ QueueBound' /\ Cardinality(out') <= MaxOut
  BY <1>2, <1>6, <1>7, Sizes DEF IInv, TotalMatches, QueueBound
<1>9. Distinct'
  BY <1>1, <1>3 DEF IInv, Distinct
<1> QED
  BY <1>1, <1>2, <1>3, <1>4, <1>5, <1>7, <1>8, <1>9 DEF IInv

LEMMA SettleKeeps ==
  ASSUME IInv, NEW x \in out, Settle(x)
  PROVE  IInv'
<1>1. IsFiniteSet(out') /\ Cardinality(out') = Cardinality(out) - 1
  BY Sizes, FS_RemoveElement DEF Settle
<1>2. QueueBound' /\ Cardinality(out') <= MaxOut
  BY <1>1, Sizes DEF IInv, QueueBound, Settle
<1> QED
  BY <1>1, <1>2 DEF IInv, TypeOK, Distinct, TotalMatches, Settle

LEMMA AdvanceKeeps ==
  ASSUME IInv, Advance
  PROVE  IInv'
<1>1. \A x \in held \union out : x.received_at \in 0 .. MaxTime
  BY DEF IInv, TypeOK, InferenceRequest
<1>2. now' \in 0 .. MaxTime /\ now' = now + 1 /\ now \in Nat
  BY DEF IInv, TypeOK, Advance
<1>3. \A x \in held \union out : x.received_at <= now'
  BY <1>1, <1>2 DEF IInv
<1> QED
  BY <1>2, <1>3 DEF IInv, TypeOK, Distinct, TotalMatches, QueueBound, Advance

LEMMA NextIInv == IInv /\ [Next]_vars => IInv'
<1> SUFFICES ASSUME IInv, [Next]_vars PROVE IInv'
  OBVIOUS
<1>1. ASSUME NEW r \in Request, Submit(r) PROVE IInv'
  BY <1>1, SubmitKeeps
<1>2. ASSUME NEW x \in out, Resubmit(x) PROVE IInv'
  BY <1>2, ResubmitKeeps
<1>3. ASSUME NEW x \in out, Settle(x) PROVE IInv'
  BY <1>3, SettleKeeps
<1>4. ASSUME Tick PROVE IInv'
  BY <1>4, RemoveKeeps DEF Tick
<1>5. ASSUME NEW c \in Client, OnClientDisconnected(c) PROVE IInv'
  BY <1>5, RemoveKeeps DEF OnClientDisconnected
<1>6. ASSUME NEW m, NextBatchForModel(m) PROVE IInv'
  BY <1>6, NextBatchForModelKeeps
<1>7. CASE Advance
  BY <1>7, AdvanceKeeps
<1>8. CASE UNCHANGED vars
  BY <1>8 DEF IInv, TypeOK, Distinct, TotalMatches, QueueBound, vars
<1> QED
  BY <1>1, <1>2, <1>3, <1>4, <1>5, <1>6, <1>7, <1>8 DEF Next, Common, NextBatch

THEOREM IInvAlways == Spec => []IInv
  BY InitIInv, NextIInv, PTL DEF Spec

-----------------------------------------------------------------------------
(* What it gives.                                                            *)

(* Every heap holds requests of its shape, counters and dict places stay in  *)
(* range, and scores are natural numbers.                                    *)
THEOREM TypeCorrect == Spec => []TypeOK
<1>1. IInv => TypeOK
  BY DEF IInv
<1> QED
  BY <1>1, IInvAlways, PTL

(* _total is the number of queued requests, the dict has a key for exactly   *)
(* the models with one, no request is live twice and no two queued ones      *)
(* compare equal.                                                            *)
THEOREM AlwaysBooked == Spec => []Bookkeeping
<1>1. IInv => Bookkeeping
  BY DEF IInv, DictOf, Bookkeeping, KeysMatch
<1> QED
  BY <1>1, IInvAlways, PTL

(* Retries overshoot max_queue_size by at most what is in dispatch.          *)
THEOREM QueueAlwaysBounded == Spec => []QueueBound
<1>1. IInv => QueueBound
  BY DEF IInv
<1> QED
  BY <1>1, IInvAlways, PTL


-----------------------------------------------------------------------------
(* The refinement: heaps, dict, total and counter implement Scheduler.       *)

(* The instance speaks of the same finite sets and sizes.                    *)
LEMMA SameSizes ==
  ASSUME NEW X
  PROVE  /\ S!IsFiniteSet(X) <=> IsFiniteSet(X)
         /\ S!Cardinality(X) = Cardinality(X)
<1>1. S!IsFiniteSet(X) <=> IsFiniteSet(X)
  BY DEF S!IsFiniteSet, IsFiniteSet
<1>2. S!Cardinality(X) = Cardinality(X)
  BY DEF S!Cardinality, Cardinality
<1> QED
  BY <1>1, <1>2

(* Requests with different ids are as many as their ids.                     *)
LEMMA IdsSize ==
  ASSUME NEW A, IsFiniteSet(A), \A x, y \in A : x.id = y.id => x = y
  PROVE  IsFiniteSet(Ids(A)) /\ Cardinality(Ids(A)) = Cardinality(A)
<1> DEFINE f == [x \in A |-> x.id]
<1>1. f \in [A -> Ids(A)]
  BY DEF Ids
<1>2. \A t \in Ids(A) : \E x \in A : f[x] = t
  BY DEF Ids
<1>3. f \in Bijection(A, Ids(A))
  BY <1>1, <1>2 DEF Bijection, Injection, Surjection, IsInjective
<1>4. ExistsBijection(A, Ids(A))
  BY <1>3 DEF ExistsBijection
<1> QED
  BY <1>4, FS_Bijection

(* Removing requests removes their ids.                                      *)
LEMMA IdsRemove ==
  ASSUME NEW A, NEW B \in SUBSET A, \A x, y \in A : x.id = y.id => x = y
  PROVE  Ids(A \ B) = Ids(A) \ Ids(B)
BY DEF Ids

LEMMA InitRefines == Init => S!Init
BY DEF Init, S!Init, Ids

LEMMA PushIds ==
  ASSUME NEW h, NEW keys, NEW x \in InferenceRequest, Push(h, keys, x)
  PROVE  Ids(held') = Ids(h) \union {x.id}
<1> DEFINE y == [x EXCEPT !.score = ComputeScore(x, now'), !.counter = counter]
<1>1. held' = h \union {y}
  BY DEF Push
<1>2. y.id = x.id
  BY DEF InferenceRequest
<1> HIDE DEF y
<1> QED
  BY <1>1, <1>2 DEF Ids

LEMMA SubmitRefines ==
  ASSUME IInv, NEW r \in Request, Submit(r)
  PROVE  S!Submit(r)
<1>1. PICK b \in Urgency : SubmitRoom(Fresh(r, b)) \/ SubmitDropping(Fresh(r, b))
  BY DEF Submit
<1> DEFINE x == Fresh(r, b)
<1>2. x \in InferenceRequest /\ x.id = r
  BY FreshType
<1>3. r \notin Ids(held) \union Ids(out)
  BY DEF Submit
<1>4. \A y, z \in held : y.id = z.id => y = z
  BY DEF IInv, Distinct
<1>5. Cardinality(Ids(held)) = total
  BY <1>4, IdsSize, Sizes
<1> HIDE DEF x
<1>6. CASE SubmitRoom(x)
  <2>1. Ids(held') = Ids(held) \union {r}
    BY <1>2, <1>6, PushIds DEF SubmitRoom
  <2>2. Cardinality(Ids(held)) < MaxQueue
    BY <1>5, <1>6 DEF SubmitRoom
  <2>3. Ids(held') \in S!AfterSubmit(Ids(held), r)
    BY <2>1, <2>2, SameSizes DEF S!AfterSubmit
  <2> QED
    BY <1>3, <1>6, <2>3 DEF S!Submit, Submit
<1>7. CASE SubmitDropping(x)
  <2>1. PICK d \in Victims : Push(held \ {d}, KeysOf(held \ {d}), x)
    BY <1>7 DEF SubmitDropping
  <2>2. d \in held
    BY DEF Victims, Heap, Oldest
  <2>3. Ids(held \ {d}) = Ids(held) \ {d.id}
    BY <1>4, <2>2, IdsRemove DEF Ids
  <2>4. Ids(held') = (Ids(held) \ {d.id}) \union {r}
    BY <1>2, <2>1, <2>3, PushIds
  <2>5. d.id \in Ids(held)
    BY <2>2 DEF Ids
  <2>6. ~(Cardinality(Ids(held)) < MaxQueue) /\ OverflowPolicy = "drop_oldest"
    BY <1>5, <1>7 DEF SubmitDropping, IInv, TypeOK
  <2>7. Ids(held') \in S!AfterSubmit(Ids(held), r)
    BY <2>4, <2>5, <2>6, SameSizes DEF S!AfterSubmit
  <2> QED
    BY <1>3, <1>7, <2>7 DEF S!Submit, Submit
<1> QED
  BY <1>1, <1>6, <1>7 DEF x

LEMMA ResubmitRefines ==
  ASSUME IInv, NEW x \in out, Resubmit(x)
  PROVE  x.id \in Ids(out) /\ S!Resubmit(x.id)
<1>1. Ids(held') = Ids(held) \union {x.id}
  BY PushIds DEF Resubmit, IInv, TypeOK
<1>2. Ids(out') = Ids(out) \ {x.id}
  BY IdsRemove DEF Resubmit, IInv, Distinct, Ids
<1>3. x.id \in Ids(out)
  BY DEF Ids
<1> QED
  BY <1>1, <1>2, <1>3 DEF S!Resubmit

LEMMA NextBatchForModelRefines ==
  ASSUME IInv, IInv', NEW m, NextBatchForModel(m)
  PROVE  \E B \in SUBSET Ids(held) : S!NextBatch(B)
<1>1. PICK x \in Top(Heap(held, m)) : held' = held \ {x} /\ out' = out \union {x}
  BY DEF NextBatchForModel
<1>2. x \in held
  BY DEF Top, Heap
<1>3. Ids(held') = Ids(held) \ {x.id}
  BY <1>1, <1>2, IdsRemove DEF IInv, Distinct, Ids
<1>4. Ids(out') = Ids(out) \union {x.id}
  BY <1>1 DEF Ids
<1>5. IsFiniteSet(Ids(out')) /\ Cardinality(Ids(out')) <= MaxOut
  <2>1. IsFiniteSet(out') /\ Cardinality(out') <= MaxOut
    BY DEF IInv
  <2>2. \A y, z \in out' : y.id = z.id => y = z
    BY DEF IInv, Distinct
  <2> QED
    BY <2>1, <2>2, IdsSize
<1>6. {x.id} \in SUBSET Ids(held)
  BY <1>2 DEF Ids
<1>7. S!NextBatch({x.id})
  <2>1. /\ IsFiniteSet(Ids(out) \union {x.id})
        /\ Cardinality(Ids(out) \union {x.id}) <= MaxOut
    BY <1>4, <1>5
  <2> QED
    BY <1>3, <1>4, <2>1, SameSizes DEF S!NextBatch
<1> QED
  BY <1>6, <1>7

LEMMA SettleRefines ==
  ASSUME IInv, NEW x \in out, Settle(x)
  PROVE  {x.id} \in SUBSET Ids(out) /\ S!Settle({x.id})
<1>1. Ids(out') = Ids(out) \ {x.id}
  BY IdsRemove DEF Settle, IInv, Distinct, Ids
<1>2. x.id \in Ids(out)
  BY DEF Ids
<1> QED
  BY <1>1, <1>2 DEF S!Settle, Settle

LEMMA TickRefines ==
  ASSUME IInv, Tick
  PROVE  \E E \in SUBSET Ids(held) : S!Tick(E)
<1> DEFINE X == {x \in held : IsExpired(x)}
<1>1. held' = held \ X /\ out' = out
  BY DEF Tick, Remove
<1>2. Ids(X) \in SUBSET Ids(held)
  BY DEF Ids
<1>3. Ids(held') = Ids(held) \ Ids(X)
  BY <1>1, IdsRemove DEF IInv, Distinct
<1> QED
  BY <1>1, <1>2, <1>3 DEF S!Tick

LEMMA DisconnectRefines ==
  ASSUME IInv, NEW c \in Client, OnClientDisconnected(c)
  PROVE  S!OnClientDisconnected(c)
<1> DEFINE X == {x \in held : ClientOf[x.id] = c}
<1>1. held' = held \ X /\ out' = out
  BY DEF OnClientDisconnected, Remove
<1>2. Ids(X) = S!OfClient(Ids(held), c)
  BY DEF Ids, S!OfClient
<1>3. Ids(held') = Ids(held) \ Ids(X)
  BY <1>1, IdsRemove DEF IInv, Distinct
<1> QED
  BY <1>1, <1>2, <1>3 DEF S!OnClientDisconnected

LEMMA NextRefines == IInv /\ IInv' /\ [Next]_vars => [S!Next]_(S!vars)
<1> SUFFICES ASSUME IInv, IInv', [Next]_vars PROVE [S!Next]_(S!vars)
  OBVIOUS
<1>1. ASSUME NEW r \in Request, Submit(r) PROVE S!Next
  BY <1>1, SubmitRefines DEF S!Next
<1>2. ASSUME NEW x \in out, Resubmit(x) PROVE S!Next
  BY <1>2, ResubmitRefines DEF S!Next
<1>3. ASSUME NEW x \in out, Settle(x) PROVE S!Next
  BY <1>3, SettleRefines DEF S!Next
<1>4. ASSUME Tick PROVE S!Next
  BY <1>4, TickRefines DEF S!Next
<1>5. ASSUME NEW c \in Client, OnClientDisconnected(c) PROVE S!Next
  BY <1>5, DisconnectRefines DEF S!Next
<1>6. ASSUME NEW m, NextBatchForModel(m) PROVE S!Next
  BY <1>6, NextBatchForModelRefines DEF S!Next
<1>7. CASE Advance
  BY <1>7 DEF Advance, S!vars
<1>8. CASE UNCHANGED vars
  BY <1>8 DEF vars, S!vars
<1> QED
  BY <1>1, <1>2, <1>3, <1>4, <1>5, <1>6, <1>7, <1>8 DEF Next, Common, NextBatch

(* The default strategy keeps the promise of the Scheduler ABC.              *)
THEOREM Refinement == Spec => Refines
<1>1. Spec => S!Init
  BY InitRefines DEF Spec
<1>2. Spec => [][S!Next]_(S!vars)
  BY NextRefines, IInvAlways, PTL DEF Spec
<1> QED
  BY <1>1, <1>2, PTL DEF Refines, S!Spec

-----------------------------------------------------------------------------
(* What model_deadline drops and in which order it serves, for every set of  *)
(* requests, clients and models.                                             *)

(* Scores only grow with the clock; a request in dispatch waits behind       *)
(* nobody; whoever was handed out over a request that still waits scores at  *)
(* least as much, in dispatch and after a retry.                             *)
Ranked ==
  /\ \A x \in held \union out : x.score <= ComputeScore(x, now)
  /\ \A x \in out, p \in passed : p[2] # x.id
  /\ \A x \in held, y \in held \union out :
       <<y.id, x.id>> \in passed => y.score >= x.score
  /\ \A p \in passed : ModelOf[p[1]] = ModelOf[p[2]]

-----------------------------------------------------------------------------
(* Operators.                                                                *)

LEMMA Numbers ==
  ASSUME IInv, NEW x \in held \union out
  PROVE  /\ x.base \in Nat /\ x.received_at \in Nat /\ x.score \in Nat /\ x.counter \in Nat
         /\ now \in Nat /\ counter \in Nat /\ x.received_at <= now
<1>1. x \in InferenceRequest
  BY DEF IInv, TypeOK
<1>2. x.base \in Urgency /\ x.received_at \in 0 .. MaxTime
  BY <1>1 DEF InferenceRequest
<1>3. x.score \in Nat
  BY <1>1 DEF InferenceRequest
<1>4. x.counter \in Nat
  BY <1>1 DEF InferenceRequest
<1>5. now \in 0 .. MaxTime
  BY DEF IInv, TypeOK
<1>6. counter \in 0 .. MaxCounter
  BY DEF IInv, TypeOK
<1>7. x.base \in Nat
  BY <1>2
<1>8. x.received_at \in Nat
  BY <1>2
<1>9. x.received_at <= now
  BY DEF IInv
<1> QED
  BY <1>3, <1>4, <1>5, <1>6, <1>7, <1>8, <1>9

(* Nobody's score has to fall because time passed.                           *)
LEMMA TimeRanks ==
  ASSUME IInv, Ranked, now' \in Nat, now <= now', NEW x \in held \union out
  PROVE  x.score <= ComputeScore(x, now')
<1>1. x \in InferenceRequest
  BY DEF IInv, TypeOK
<1>2. x.score \in Nat /\ now \in Nat /\ x.received_at <= now /\ x.received_at \in Nat
  BY Numbers
<1>3. ComputeScore(x, now) \in Nat /\ ComputeScore(x, now) <= ComputeScore(x, now')
  BY <1>1, <1>2, ScoreMonotone
<1>4. ComputeScore(x, now') \in Nat
  <2>1. x.received_at <= now'
    BY <1>2
  <2> QED
    BY <1>1, <2>1, ScoreMonotone
<1>5. x.score <= ComputeScore(x, now)
  BY DEF Ranked
<1> QED
  BY <1>2, <1>3, <1>4, <1>5

(* What Push adds: the request of x, with the score of this moment.          *)
LEMMA PushAdds ==
  ASSUME NEW h, NEW keys, NEW x \in InferenceRequest, Push(h, keys, x)
  PROVE  \E y : /\ held' = h \union {y}
                /\ y.id = x.id
                /\ y.score = ComputeScore(x, now')
                /\ ComputeScore(y, now') = ComputeScore(x, now')
<1> DEFINE y == [x EXCEPT !.score = ComputeScore(x, now'), !.counter = counter]
<1>1. held' = h \union {y}
  BY DEF Push
<1>2. /\ y.id = x.id /\ y.base = x.base /\ y.received_at = x.received_at
      /\ y.score = ComputeScore(x, now')
  BY DEF InferenceRequest
<1> HIDE DEF y
<1>3. ComputeScore(y, now') = ComputeScore(x, now')
  BY <1>2 DEF ComputeScore
<1> QED
  BY <1>1, <1>2, <1>3

-----------------------------------------------------------------------------
(* The actions.                                                              *)

LEMMA SubmitShape ==
  ASSUME IInv, NEW r \in Request, Submit(r)
  PROVE  \E x \in InferenceRequest :
           /\ x.id = r
           /\ x.received_at <= now
           /\ \/ Push(held, inserted, x)
              \/ \E d \in Victims : Push(held \ {d}, KeysOf(held \ {d}), x)
<1>1. PICK b \in Urgency : SubmitRoom(Fresh(r, b)) \/ SubmitDropping(Fresh(r, b))
  BY DEF Submit
<1>2. /\ Fresh(r, b) \in InferenceRequest /\ Fresh(r, b).id = r
      /\ Fresh(r, b).received_at <= now
  BY FreshType
<1> QED
  BY <1>1, <1>2 DEF SubmitRoom, SubmitDropping

(* A new request is in no pair of the history.                               *)
LEMMA SubmitRanks ==
  ASSUME IInv, Ranked, NEW r \in Request, Submit(r)
  PROVE  Ranked'
<1>1. PICK x \in InferenceRequest :
        /\ x.id = r /\ x.received_at <= now
        /\ \/ Push(held, inserted, x)
           \/ \E d \in Victims : Push(held \ {d}, KeysOf(held \ {d}), x)
  BY SubmitShape
<1>2. PICK y, h : /\ h \subseteq held /\ held' = h \union {y} /\ y.id = r
                  /\ y.score = ComputeScore(x, now')
                  /\ ComputeScore(y, now') = ComputeScore(x, now')
  <2>1. CASE Push(held, inserted, x)
    <3>1. \E z : /\ held' = held \union {z}
                 /\ z.id = x.id
                 /\ z.score = ComputeScore(x, now')
                 /\ ComputeScore(z, now') = ComputeScore(x, now')
      BY <2>1, PushAdds
    <3> QED
      BY <1>1, <3>1
  <2>2. CASE \E d \in Victims : Push(held \ {d}, KeysOf(held \ {d}), x)
    <3>1. PICK d \in Victims : Push(held \ {d}, KeysOf(held \ {d}), x)
      BY <2>2
    <3>2. \E z : /\ held' = (held \ {d}) \union {z}
                 /\ z.id = x.id
                 /\ z.score = ComputeScore(x, now')
                 /\ ComputeScore(z, now') = ComputeScore(x, now')
      BY <3>1, PushAdds
    <3>3. held \ {d} \subseteq held
      OBVIOUS
    <3> QED
      BY <1>1, <3>2, <3>3
  <2> QED
    BY <1>1, <2>1, <2>2
<1>3. /\ now' \in Nat /\ now <= now' /\ out' = out
      /\ passed' = {p \in passed : r \notin {p[1], p[2]}}
  BY DEF Submit, IInv, TypeOK
<1>4. ComputeScore(x, now') \in Nat
  <2>1. x.received_at \in 0 .. MaxTime /\ now \in 0 .. MaxTime
    BY DEF InferenceRequest, IInv, TypeOK
  <2>2. x.received_at <= now'
    BY <1>1, <1>3, <2>1
  <2> QED
    BY <1>3, <2>1, <2>2, ScoreMonotone
<1>5. \A z \in held' \union out' : z.score <= ComputeScore(z, now')
  <2>1. y.score <= ComputeScore(y, now')
    BY <1>2, <1>4
  <2>2. \A z \in held \union out : z.score <= ComputeScore(z, now')
    BY <1>3, TimeRanks
  <2> QED
    BY <1>2, <1>3, <2>1, <2>2
<1>6. \A z \in out', p \in passed' : p[2] # z.id
  BY <1>3 DEF Ranked
<1>7. ASSUME NEW u \in held', NEW v \in held' \union out', <<v.id, u.id>> \in passed'
      PROVE  v.score >= u.score
  <2>1. <<v.id, u.id>> \in passed /\ v.id # r /\ u.id # r
    BY <1>3, <1>7
  <2>2. u \in held /\ v \in held \union out
    BY <1>2, <1>3, <2>1
  <2> QED
    BY <2>1, <2>2 DEF Ranked
<1>8. \A p \in passed' : ModelOf[p[1]] = ModelOf[p[2]]
  BY <1>3 DEF Ranked
<1> QED
  BY <1>5, <1>6, <1>7, <1>8 DEF Ranked

(* A retry's score is at least the one it was handed out with.               *)
LEMMA ResubmitRanks ==
  ASSUME IInv, Ranked, NEW x \in out, Resubmit(x)
  PROVE  Ranked'
<1>1. x \in InferenceRequest /\ x.received_at <= now
  BY DEF IInv, TypeOK
<1>2. PICK y : /\ held' = held \union {y} /\ y.id = x.id
               /\ y.score = ComputeScore(x, now')
               /\ ComputeScore(y, now') = ComputeScore(x, now')
  BY <1>1, PushAdds DEF Resubmit
<1>3. now' = now /\ passed' = passed /\ out' = out \ {x}
  BY DEF Resubmit
<1>4. x.score <= ComputeScore(x, now)
  BY DEF Ranked
<1>5. x.score \in Nat /\ ComputeScore(x, now) \in Nat
  BY <1>1, Numbers, ScoreMonotone
<1>6. y.score >= x.score /\ y.score <= ComputeScore(y, now') /\ y.score \in Nat
  BY <1>2, <1>3, <1>4, <1>5
<1>7. \A z \in held' \union out' : z.score <= ComputeScore(z, now')
  BY <1>2, <1>3, <1>6 DEF Ranked
<1>8. \A z \in out', p \in passed' : p[2] # z.id
  BY <1>3 DEF Ranked
<1>9. ASSUME NEW u \in held', NEW v \in held' \union out', <<v.id, u.id>> \in passed'
      PROVE  v.score >= u.score
  <2>1. u # y
    <3>1. ASSUME u = y PROVE FALSE
      <4>1. <<v.id, x.id>> \in passed
        BY <1>2, <1>3, <1>9, <3>1
      <4>2. <<v.id, x.id>>[2] # x.id
        BY <4>1 DEF Ranked
      <4> QED
        BY <4>2
    <3> QED
      BY <3>1
  <2>2. u \in held /\ u.score \in Nat
    BY <1>2, <2>1, Numbers
  <2>3. CASE v = y
    <3>1. x.score >= u.score
      BY <1>2, <1>3, <1>9, <2>2, <2>3 DEF Ranked
    <3> QED
      BY <1>5, <1>6, <2>2, <2>3, <3>1
  <2>4. CASE v # y
    BY <1>2, <1>3, <1>9, <2>2, <2>4 DEF Ranked
  <2> QED
    BY <2>3, <2>4
<1>10. \A p \in passed' : ModelOf[p[1]] = ModelOf[p[2]]
  BY <1>3 DEF Ranked
<1> QED
  BY <1>7, <1>8, <1>9, <1>10 DEF Ranked

(* The top of a heap scores at least as much as all it leaves behind.        *)
LEMMA NextBatchForModelRanks ==
  ASSUME IInv, Ranked, NEW m, NextBatchForModel(m)
  PROVE  Ranked'
<1>1. PICK x \in Top(Heap(held, m)) :
        /\ held' = held \ {x} /\ out' = out \union {x}
        /\ passed' = {p \in passed : p[2] # x.id}
                       \union {<<x.id, y>> : y \in Ids(Heap(held, m) \ {x})}
  BY DEF NextBatchForModel
<1>2. x \in held /\ now' = now
  BY DEF Top, Heap, NextBatchForModel
<1>3. \A u, v \in held \union out : u.id = v.id => u = v
  BY DEF IInv, Distinct
<1>4. held \intersect out = {}
  BY DEF IInv, Distinct
<1>5. ASSUME NEW z \in Heap(held, m) \ {x}
      PROVE  x.score >= z.score
  <2>1. Before(x, z)
    BY <1>5 DEF Top
  <2>2. x.score \in Nat /\ z.score \in Nat
    BY <1>2, <1>5, Numbers DEF Heap
  <2> QED
    BY <2>1, <2>2 DEF Before
<1>6. \A z \in held' \union out' : z.score <= ComputeScore(z, now')
  BY <1>1, <1>2 DEF Ranked
<1>7. ASSUME NEW z \in out', NEW p \in passed'
      PROVE  p[2] # z.id
  <2>1. CASE p \in passed /\ p[2] # x.id
    BY <1>1, <1>7, <2>1 DEF Ranked
  <2>2. CASE \E w \in Heap(held, m) \ {x} : p = <<x.id, w.id>>
    <3>1. PICK w \in Heap(held, m) \ {x} : p = <<x.id, w.id>>
      BY <2>2
    <3>2. w \in held /\ w \notin out /\ w # x
      BY <1>4, <3>1 DEF Heap
    <3>3. z \in held \union out /\ z # w
      BY <1>1, <1>2, <3>2
    <3> QED
      BY <1>3, <3>1, <3>2, <3>3
  <2> QED
    BY <1>1, <1>7, <2>1, <2>2 DEF Ids
<1>9. ASSUME NEW p \in passed'
      PROVE  ModelOf[p[1]] = ModelOf[p[2]]
  <2>1. CASE p \in passed
    BY <2>1 DEF Ranked
  <2>2. CASE \E w \in Heap(held, m) \ {x} : p = <<x.id, w.id>>
    <3>1. PICK w \in Heap(held, m) \ {x} : p = <<x.id, w.id>>
      BY <2>2
    <3>2. ModelOf[x.id] = m /\ ModelOf[w.id] = m
      BY <3>1 DEF Top, Heap
    <3> QED
      BY <3>1, <3>2
  <2> QED
    BY <1>1, <1>9, <2>1, <2>2 DEF Ids
<1>8. ASSUME NEW u \in held', NEW v \in held' \union out', <<v.id, u.id>> \in passed'
      PROVE  v.score >= u.score
  <2>1. u \in held /\ v \in held \union out
    BY <1>1, <1>2
  <2>2. CASE <<v.id, u.id>> \in passed
    BY <2>1, <2>2 DEF Ranked
  <2>3. CASE \E w \in Heap(held, m) \ {x} : <<v.id, u.id>> = <<x.id, w.id>>
    <3>1. PICK w \in Heap(held, m) \ {x} : v.id = x.id /\ u.id = w.id
      BY <2>3
    <3>2. v = x /\ u = w
      BY <1>2, <1>3, <2>1, <3>1 DEF Heap
    <3> QED
      BY <1>5, <3>1, <3>2
  <2> QED
    BY <1>1, <1>8, <2>2, <2>3 DEF Ids
<1> QED
  BY <1>6, <1>7, <1>8, <1>9 DEF Ranked

LEMMA NextRanked == IInv /\ Ranked /\ [Next]_vars => Ranked'
<1> SUFFICES ASSUME IInv, Ranked, [Next]_vars PROVE Ranked'
  OBVIOUS
<1>1. ASSUME NEW r \in Request, Submit(r) PROVE Ranked'
  BY <1>1, SubmitRanks
<1>2. ASSUME NEW x \in out, Resubmit(x) PROVE Ranked'
  BY <1>2, ResubmitRanks
<1>3. ASSUME NEW m, NextBatchForModel(m) PROVE Ranked'
  BY <1>3, NextBatchForModelRanks
<1>4. ASSUME held' \subseteq held, out' \subseteq out, passed' = passed,
             now' \in Nat, now <= now'
      PROVE  Ranked'
  <2>1. \A x \in held \union out : x.score <= ComputeScore(x, now')
    BY <1>4, TimeRanks
  <2> QED
    BY <1>4, <2>1 DEF Ranked
<1>5. now \in Nat
  BY DEF IInv, TypeOK
<1>6. ASSUME \/ \E x \in out : Settle(x)
             \/ Tick \/ Advance \/ \E c \in Client : OnClientDisconnected(c)
             \/ UNCHANGED vars
      PROVE  /\ held' \subseteq held /\ out' \subseteq out /\ passed' = passed
             /\ now' \in Nat /\ now <= now'
  <2>1. now' = now \/ now' = now + 1
    BY <1>6 DEF Settle, Tick, OnClientDisconnected, Advance, vars
  <2>2. now' \in Nat /\ now <= now'
    BY <1>5, <2>1
  <2>3. held' \subseteq held /\ out' \subseteq out /\ passed' = passed
    BY <1>6 DEF Settle, Tick, OnClientDisconnected, Remove, Advance, vars
  <2> QED
    BY <2>2, <2>3
<1> QED
  BY <1>1, <1>2, <1>3, <1>4, <1>6 DEF Next, Common, NextBatch

(* A step that hands out x hands out the top of the heap of its model.       *)
LEMMA HandsOutTop ==
  ASSUME IInv, [Next]_vars, NEW x \in out' \ out
  PROVE  x \in Top(Heap(held, ModelOf[x.id])) /\ held' = held \ {x}
<1>1. \A r \in Request : ~ Submit(r)
  BY DEF Submit
<1>2. PICK m : NextBatchForModel(m)
  BY <1>1 DEF Next, Common, NextBatch, Resubmit, Settle, Tick, OnClientDisconnected,
              Advance, vars
<1>3. PICK y \in Top(Heap(held, m)) : held' = held \ {y} /\ out' = out \union {y}
  BY <1>2 DEF NextBatchForModel
<1>4. x = y /\ ModelOf[x.id] = m
  BY <1>3 DEF Top, Heap
<1> QED
  BY <1>3, <1>4

LEMMA RetryRanks ==
  ASSUME IInv, Ranked, [Next]_vars,
         NEW x \in out' \ out, NEW y \in held \intersect held',
         <<y.id, x.id>> \in passed
  PROVE  x.score = y.score
<1>1. x \in Top(Heap(held, ModelOf[x.id])) /\ held' = held \ {x}
  BY HandsOutTop
<1>2. x \in held /\ y # x /\ x.score \in Nat /\ y.score \in Nat
  BY <1>1, Numbers DEF Top, Heap
<1>3. y.score >= x.score
  BY <1>2 DEF Ranked
<1>4. ModelOf[y.id] = ModelOf[x.id]
  <2>1. ModelOf[<<y.id, x.id>>[1]] = ModelOf[<<y.id, x.id>>[2]]
    BY DEF Ranked
  <2> QED
    BY <2>1
<1>5. Before(x, y)
  BY <1>1, <1>2, <1>4 DEF Top, Heap
<1> QED
  BY <1>2, <1>3, <1>5 DEF Before

LEMMA OldestDropped ==
  ASSUME IInv, [Next]_vars, NEW d \in held \ held', counter' > counter, NEW y \in held
  PROVE  d.received_at <= y.received_at
<1>1. counter \in Nat
  BY DEF IInv, TypeOK
<1>2. counter' # counter
  BY <1>1
<1>3. ASSUME NEW keys, NEW x, Push(held, keys, x)
      PROVE  FALSE
  BY <1>3 DEF Push
<1>4. \A x \in out : ~ Resubmit(x)
  BY <1>3 DEF Resubmit
<1>5. \A m : ~ NextBatchForModel(m)
  BY <1>2 DEF NextBatchForModel
<1>6. PICK r \in Request : Submit(r)
  BY <1>2, <1>4, <1>5 DEF Next, Common, NextBatch, Settle, Tick, OnClientDisconnected,
                          Advance, vars
<1>7. PICK x \in InferenceRequest, v \in Victims : Push(held \ {v}, KeysOf(held \ {v}), x)
  BY <1>3, <1>6, SubmitShape
<1>8. d = v
  BY <1>7 DEF Push
<1> QED
  BY <1>8 DEF Victims, Heap, Oldest

-----------------------------------------------------------------------------
(* Theorems.                                                                 *)

(* An overflow drops no request while an older one is held, retries included *)
(* (model_deadline.py:82-102).                                               *)
THEOREM AlwaysDropsOldest == Spec => DropsOldest
<1>1. IInv /\ [Next]_vars
        => [\A d \in held \ held' : counter' > counter
              => \A y \in held : d.received_at <= y.received_at]_vars
  BY OldestDropped
<1> QED
  BY <1>1, IInvAlways, PTL DEF Spec, DropsOldest

(* A retry keeps its rank: a request that had waited behind it comes out     *)
(* before it only on equal scores, whatever the ages, the budgets of the     *)
(* clients, the age weight and the time that decoding takes                  *)
(* (model_deadline.py:49-67, 104-109, 116-124; request.py:23-28).            *)
THEOREM RetriesKeepRank == Spec => RetryKeepsRank
<1>1. Init => Ranked
  BY DEF Init, Ranked
<1>2. IInv /\ Ranked /\ [Next]_vars => Ranked'
  BY NextRanked
<1>3. Spec => [](IInv /\ Ranked)
  BY <1>1, <1>2, IInvAlways, PTL DEF Spec
<1>4. IInv /\ Ranked /\ [Next]_vars
        => [\A x \in out' \ out, y \in held \intersect held' :
              <<y.id, x.id>> \in passed => x.score = y.score]_vars
  BY RetryRanks
<1> QED
  BY <1>3, <1>4, PTL DEF Spec, RetryKeepsRank

-----------------------------------------------------------------------------
(* The abstract scheduler itself, whatever its strategy: what every one that *)
(* implements it inherits.                                                   *)

VARIABLES anyQueue, anyOut

A == INSTANCE Scheduler WITH queue <- anyQueue, out <- anyOut

LEMMA AnySizes ==
  ASSUME NEW X
  PROVE  (A!IsFiniteSet(X) <=> IsFiniteSet(X)) /\ A!Cardinality(X) = Cardinality(X)
<1>1. A!IsFiniteSet(X) <=> IsFiniteSet(X)
  BY DEF A!IsFiniteSet, IsFiniteSet
<1>2. A!Cardinality(X) = Cardinality(X)
  BY DEF A!Cardinality, Cardinality
<1> QED
  BY <1>1, <1>2

(* What submit() can leave behind, as sets and as sizes.                     *)
LEMMA AfterSubmitFacts ==
  ASSUME NEW q, IsFiniteSet(q), NEW r, r \notin q, NEW n \in A!AfterSubmit(q, r)
  PROVE  /\ IsFiniteSet(n)
         /\ n \subseteq q \union {r}
         /\ \/ Cardinality(n) = Cardinality(q)
            \/ Cardinality(n) = Cardinality(q) + 1 /\ Cardinality(n) <= MaxQueue
<1>1. CASE Cardinality(q) < MaxQueue
  <2>1. n = q \union {r}
    BY <1>1, AnySizes DEF A!AfterSubmit
  <2>2. IsFiniteSet(n) /\ Cardinality(n) = Cardinality(q) + 1
    BY <2>1, FS_AddElement
  <2>3. Cardinality(q) \in Nat
    BY FS_CardinalityType
  <2> QED
    BY <1>1, <2>1, <2>2, <2>3
<1>2. CASE ~(Cardinality(q) < MaxQueue)
  <2>1. PICK d \in q : n = (q \ {d}) \union {r}
    BY <1>2, AnySizes DEF A!AfterSubmit
  <2>2. IsFiniteSet(q \ {d}) /\ Cardinality(q \ {d}) = Cardinality(q) - 1
    BY FS_RemoveElement
  <2>3. IsFiniteSet(n) /\ Cardinality(n) = Cardinality(q \ {d}) + 1
    BY <2>1, <2>2, FS_AddElement
  <2> QED
    BY <2>1, <2>2, <2>3, FS_CardinalityType
<1> QED
  BY <1>1, <1>2

AnyBound == Cardinality(anyQueue) + Cardinality(anyOut) <= MaxQueue + MaxOut

(* The inductive invariant: QueueBound says nothing until both sets are      *)
(* known to be finite and disjoint and out to respect its own bound.         *)
AnyInv ==
  /\ A!TypeOK
  /\ IsFiniteSet(anyQueue) /\ IsFiniteSet(anyOut)
  /\ A!NeverTwice
  /\ Cardinality(anyOut) <= MaxOut
  /\ AnyBound

LEMMA InitAny == A!Init => AnyInv
<1> SUFFICES ASSUME A!Init PROVE AnyInv
  OBVIOUS
<1>1. IsFiniteSet(anyQueue) /\ IsFiniteSet(anyOut)
  BY FS_EmptySet DEF A!Init
<1>2. Cardinality(anyQueue) = 0 /\ Cardinality(anyOut) = 0
  BY FS_EmptySet DEF A!Init
<1>3. Cardinality(anyOut) <= MaxOut /\ AnyBound
  BY <1>2 DEF AnyBound
<1> QED
  BY <1>1, <1>3 DEF A!Init, AnyInv, A!TypeOK, A!NeverTwice

(* Losing queued requests keeps the invariant: tick and disconnect.          *)
LEMMA LoseKeeps ==
  ASSUME AnyInv, NEW E, anyQueue' = anyQueue \ E, UNCHANGED anyOut
  PROVE  AnyInv'
<1>1. IsFiniteSet(anyQueue') /\ Cardinality(anyQueue') <= Cardinality(anyQueue)
  BY FS_Subset DEF AnyInv
<1>2. AnyBound'
  BY <1>1, FS_CardinalityType DEF AnyInv, AnyBound
<1> QED
  BY <1>1, <1>2 DEF AnyInv, A!TypeOK, A!NeverTwice

LEMMA NextAny == AnyInv /\ [A!Next]_(A!vars) => AnyInv'
<1> SUFFICES ASSUME AnyInv, [A!Next]_(A!vars) PROVE AnyInv'
  OBVIOUS
<1>1. ASSUME NEW r \in Request, A!Submit(r) PROVE AnyInv'
  <2>1. IsFiniteSet(anyQueue') /\ anyQueue' \subseteq anyQueue \union {r}
    BY <1>1, AfterSubmitFacts DEF AnyInv, A!Submit
  <2>2. \/ Cardinality(anyQueue') = Cardinality(anyQueue)
        \/ Cardinality(anyQueue') <= MaxQueue
    BY <1>1, AfterSubmitFacts DEF AnyInv, A!Submit
  <2>3. AnyBound'
    BY <1>1, <2>1, <2>2, FS_CardinalityType DEF AnyInv, AnyBound, A!Submit
  <2> QED
    BY <1>1, <2>1, <2>3 DEF AnyInv, A!TypeOK, A!NeverTwice, A!Submit
<1>2. ASSUME NEW B \in SUBSET anyQueue, A!NextBatch(B) PROVE AnyInv'
  <2>1. /\ IsFiniteSet(B) /\ IsFiniteSet(anyQueue') /\ IsFiniteSet(anyOut')
        /\ Cardinality(anyOut') <= MaxOut
    BY <1>2, AnySizes, FS_Subset DEF AnyInv, A!NextBatch
  <2>2. Cardinality(anyQueue') = Cardinality(anyQueue) - Cardinality(B)
    <3>1. anyQueue \intersect B = B
      OBVIOUS
    <3> QED
      BY <1>2, <3>1, FS_Difference DEF AnyInv, A!NextBatch
  <2>3. Cardinality(anyOut') = Cardinality(anyOut) + Cardinality(B)
    <3>1. anyOut \intersect B = {}
      BY DEF AnyInv, A!NeverTwice
    <3>2. Cardinality(anyOut \intersect B) = 0
      BY <3>1, FS_EmptySet
    <3>3. Cardinality(anyOut \union B)
            = Cardinality(anyOut) + Cardinality(B) - Cardinality(anyOut \intersect B)
      BY <2>1, FS_Union DEF AnyInv
    <3> QED
      BY <1>2, <2>1, <3>2, <3>3, FS_CardinalityType DEF AnyInv, A!NextBatch
  <2>4. AnyBound'
    BY <2>1, <2>2, <2>3, FS_CardinalityType DEF AnyInv, AnyBound
  <2> QED
    BY <1>2, <2>1, <2>4 DEF AnyInv, A!TypeOK, A!NeverTwice, A!NextBatch
<1>3. ASSUME NEW r \in anyOut, A!Resubmit(r) PROVE AnyInv'
  <2>1. IsFiniteSet(anyQueue') /\ Cardinality(anyQueue') = Cardinality(anyQueue) + 1
    BY <1>3, FS_AddElement DEF AnyInv, A!NeverTwice, A!Resubmit
  <2>2. IsFiniteSet(anyOut') /\ Cardinality(anyOut') = Cardinality(anyOut) - 1
    BY <1>3, FS_RemoveElement DEF AnyInv, A!Resubmit
  <2>3. Cardinality(anyOut') <= MaxOut /\ AnyBound'
    BY <2>1, <2>2, FS_CardinalityType DEF AnyInv, AnyBound
  <2> QED
    BY <1>3, <2>1, <2>2, <2>3 DEF AnyInv, A!TypeOK, A!NeverTwice, A!Resubmit
<1>4. ASSUME NEW R \in SUBSET anyOut, A!Settle(R) PROVE AnyInv'
  <2>1. IsFiniteSet(anyOut') /\ Cardinality(anyOut') <= Cardinality(anyOut)
    BY <1>4, FS_Subset DEF AnyInv, A!Settle
  <2>2. Cardinality(anyOut') <= MaxOut /\ AnyBound'
    BY <1>4, <2>1, FS_CardinalityType DEF AnyInv, AnyBound, A!Settle
  <2> QED
    BY <1>4, <2>1, <2>2 DEF AnyInv, A!TypeOK, A!NeverTwice, A!Settle
<1>5. ASSUME NEW expired \in SUBSET anyQueue, A!Tick(expired) PROVE AnyInv'
  BY <1>5, LoseKeeps DEF A!Tick
<1>6. ASSUME NEW c \in Client, A!OnClientDisconnected(c) PROVE AnyInv'
  BY <1>6, LoseKeeps DEF A!OnClientDisconnected
<1>7. CASE UNCHANGED A!vars
  BY <1>7 DEF AnyInv, A!TypeOK, A!NeverTwice, AnyBound, A!vars
<1> QED
  BY <1>1, <1>2, <1>3, <1>4, <1>5, <1>6, <1>7 DEF A!Next

LEMMA AnyAlways == A!Spec => []AnyInv
BY InitAny, NextAny, PTL DEF A!Spec

(* The scheduler only ever holds and hands out requests it was given.        *)
THEOREM SchedulerTypeCorrect == A!Spec => []A!TypeOK
<1>1. AnyInv => A!TypeOK
  BY DEF AnyInv
<1> QED
  BY <1>1, AnyAlways, PTL

(* No request is queued while it is in dispatch.                             *)
THEOREM SchedulerNeverTwice == A!Spec => []A!NeverTwice
<1>1. AnyInv => A!NeverTwice
  BY DEF AnyInv
<1> QED
  BY <1>1, AnyAlways, PTL

(* Retries overshoot max_queue_size by at most what is in dispatch.          *)
THEOREM SchedulerQueueBound == A!Spec => []A!QueueBound
<1>1. AnyInv => A!QueueBound
  BY AnySizes DEF AnyInv, AnyBound, A!QueueBound
<1> QED
  BY <1>1, AnyAlways, PTL

(* Past max_queue_size the queue grows only by a request handed back.        *)
THEOREM SchedulerOverfullGrowth == A!Spec => A!OverfullGrowsByRetryOnly
<1> DEFINE Grows ==
      A!Cardinality(anyQueue) >= MaxQueue /\ A!Cardinality(anyQueue') > A!Cardinality(anyQueue)
        => anyQueue' \ anyQueue \subseteq anyOut
<1>1. AnyInv /\ [A!Next]_(A!vars) => [Grows]_(A!vars)
  <2> SUFFICES ASSUME AnyInv, A!Next,
                      Cardinality(anyQueue) >= MaxQueue,
                      Cardinality(anyQueue') > Cardinality(anyQueue)
               PROVE  anyQueue' \ anyQueue \subseteq anyOut
    BY AnySizes
  <2>1. ASSUME NEW r \in Request, A!Submit(r) PROVE FALSE
    <3>1. \/ Cardinality(anyQueue') = Cardinality(anyQueue)
          \/ /\ Cardinality(anyQueue') = Cardinality(anyQueue) + 1
             /\ Cardinality(anyQueue') <= MaxQueue
      BY <2>1, AfterSubmitFacts DEF AnyInv, A!Submit
    <3> QED
      BY <3>1, FS_CardinalityType DEF AnyInv
  <2>2. ASSUME NEW E, anyQueue' = anyQueue \ E PROVE anyQueue' \ anyQueue \subseteq anyOut
    BY <2>2
  <2>3. ASSUME NEW r \in anyOut, A!Resubmit(r) PROVE anyQueue' \ anyQueue \subseteq anyOut
    BY <2>3 DEF A!Resubmit
  <2> QED
    BY <2>1, <2>2, <2>3 DEF A!Next, A!NextBatch, A!Settle, A!Tick, A!OnClientDisconnected
<1> QED
  BY <1>1, AnyAlways, PTL DEF A!Spec, A!OverfullGrowsByRetryOnly

=============================================================================
