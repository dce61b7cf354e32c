---------------------------- MODULE DispatchProofs ----------------------------
(* Theorems about the dispatchers, for every set of requests and models and  *)
(* any number of calls.                                                      *)
EXTENDS Dispatch, FilterProofs

USE DispatchAssumption

-----------------------------------------------------------------------------
(* The order of by_model.                                                    *)

LEMMA BatchFacts ==
  ASSUME NEW b \in Seq(Request)
  PROVE  /\ DOMAIN b = 1 .. Len(b) /\ Len(b) \in Nat
         /\ \A i \in DOMAIN b : b[i] \in Request /\ ModelOf[b[i]] \in Model
         /\ ToSet(b) \subseteq Request
<1>1. DOMAIN b = 1 .. Len(b) /\ Len(b) \in Nat /\ \A i \in DOMAIN b : b[i] \in Request
  BY LenProperties, ElementOfSeq
<1>2. \A r \in Request : ModelOf[r] \in Model
  OBVIOUS
<1>3. ToSet(b) \subseteq Request
  BY <1>1 DEF ToSet
<1> QED
  BY <1>1, <1>2, <1>3

LEMMA PlaceFacts ==
  ASSUME NEW b \in Seq(Request), IsInjective(b)
  PROVE  /\ \A r \in ToSet(b) : Place(b, r) \in DOMAIN b /\ b[Place(b, r)] = r
         /\ \A i \in DOMAIN b : Place(b, b[i]) = i
<1>1. \A i, j \in DOMAIN b : b[i] = b[j] => i = j
  BY DEF IsInjective
<1>2. ASSUME NEW r \in ToSet(b)
      PROVE  Place(b, r) \in DOMAIN b /\ b[Place(b, r)] = r
  <2>1. \E i \in DOMAIN b : b[i] = r
    BY DEF ToSet
  <2> QED
    BY <2>1 DEF Place
<1>3. ASSUME NEW i \in DOMAIN b PROVE Place(b, b[i]) = i
  <2>1. b[i] \in ToSet(b)
    BY DEF ToSet
  <2> QED
    BY <1>1, <1>2, <2>1
<1> QED
  BY <1>2, <1>3

LEMMA FirstFacts ==
  ASSUME NEW b \in Seq(Request), NEW r \in ToSet(b)
  PROVE  First(b, ModelOf[r]) \in DOMAIN b /\ ModelOf[b[First(b, ModelOf[r])]] = ModelOf[r]
<1> DEFINE m == ModelOf[r]
           D == {i \in DOMAIN b : ModelOf[b[i]] = m}
           f == [i \in D |-> i]
<1>1. DOMAIN b = 1 .. Len(b) /\ Len(b) \in Nat
  BY BatchFacts
<1>2. D # {}
  BY DEF ToSet
<1>3. D \subseteq 1 .. Len(b) /\ D \subseteq Int
  BY <1>1
<1>4. IsFiniteSet(D)
  <2>1. 1 \in Int /\ Len(b) \in Int
    BY <1>1
  <2>2. IsFiniteSet(1 .. Len(b))
    BY <2>1, FS_Interval
  <2> QED
    BY <1>3, <2>2, FS_Subset
<1>5. \E i \in D : \A j \in D : i <= j
  <2>1. f \in [D -> Int] /\ \A i \in D : f[i] = i
    BY <1>3
  <2> HIDE DEF f, D
  <2>2. \E i \in D : \A j \in D : f[i] <= f[j]
    BY <1>2, <1>4, <2>1, LeastExists
  <2> QED
    BY <2>1, <2>2
<1>6. \E i \in DOMAIN b : ModelOf[b[i]] = m /\ \A j \in DOMAIN b : ModelOf[b[j]] = m => i <= j
  BY <1>5
<1> HIDE DEF m
<1>7. First(b, m) \in DOMAIN b /\ ModelOf[b[First(b, m)]] = m
  BY <1>6, Zenon DEF First
<1> QED
  BY <1>7 DEF m

(* Before is a strict total order on the requests of a batch.                *)
LEMMA BeforeOrders ==
  ASSUME NEW b \in Seq(Request), IsInjective(b)
  PROVE  /\ \A r \in ToSet(b) : ~ Before(b, r, r)
         /\ \A q, r \in ToSet(b) : q # r => Before(b, q, r) \/ Before(b, r, q)
         /\ \A q, r, t \in ToSet(b) : Before(b, q, r) /\ Before(b, r, t) => Before(b, q, t)
<1>1. ASSUME NEW r \in ToSet(b)
      PROVE  /\ Place(b, r) \in Nat /\ b[Place(b, r)] = r
             /\ First(b, ModelOf[r]) \in Nat
             /\ ModelOf[b[First(b, ModelOf[r])]] = ModelOf[r]
  <2>1. Place(b, r) \in DOMAIN b /\ b[Place(b, r)] = r
    BY PlaceFacts
  <2>2. First(b, ModelOf[r]) \in DOMAIN b /\ ModelOf[b[First(b, ModelOf[r])]] = ModelOf[r]
    BY FirstFacts
  <2>3. DOMAIN b \subseteq Nat
    BY BatchFacts
  <2> QED
    BY <2>1, <2>2, <2>3
<1>2. ASSUME NEW r \in ToSet(b) PROVE ~ Before(b, r, r)
  BY <1>1 DEF Before
<1>3. ASSUME NEW q \in ToSet(b), NEW r \in ToSet(b), q # r
      PROVE  Before(b, q, r) \/ Before(b, r, q)
  <2>1. Place(b, q) # Place(b, r)
    BY <1>1, <1>3
  <2>2. First(b, ModelOf[q]) = First(b, ModelOf[r]) => ModelOf[q] = ModelOf[r]
    BY <1>1
  <2>3. Place(b, q) < Place(b, r) \/ Place(b, r) < Place(b, q)
    BY <1>1, <2>1
  <2>4. \/ First(b, ModelOf[q]) < First(b, ModelOf[r])
        \/ First(b, ModelOf[r]) < First(b, ModelOf[q])
        \/ First(b, ModelOf[q]) = First(b, ModelOf[r])
    BY <1>1
  <2> QED
    BY <2>2, <2>3, <2>4 DEF Before
<1>4. ASSUME NEW q \in ToSet(b), NEW r \in ToSet(b), NEW t \in ToSet(b),
             Before(b, q, r), Before(b, r, t)
      PROVE  Before(b, q, t)
  <2>1. /\ Place(b, q) \in Nat /\ Place(b, r) \in Nat /\ Place(b, t) \in Nat
        /\ First(b, ModelOf[q]) \in Nat /\ First(b, ModelOf[r]) \in Nat
        /\ First(b, ModelOf[t]) \in Nat
    BY <1>1
  <2> QED
    BY <1>4, <2>1 DEF Before
<1> QED
  BY <1>2, <1>3, <1>4

\* Each request of Q comes before each of R.
Precede(b, Q, R) == \A q \in Q, r \in R : Before(b, q, r)

LEMMA Apart ==
  ASSUME NEW b \in Seq(Request), IsInjective(b), NEW Q, NEW R, Q \subseteq ToSet(b),
         Precede(b, Q, R)
  PROVE  Q \cap R = {}
BY BeforeOrders DEF Precede

\* NextRequest, of any batch.
NextOf(b, T) == CHOOSE r \in T : \A q \in T \ {r} : Before(b, r, q)

LEMMA NextFacts ==
  ASSUME NEW b \in Seq(Request), IsInjective(b), NEW T \in SUBSET ToSet(b), T # {}
  PROVE  NextOf(b, T) \in T /\ \A q \in T \ {NextOf(b, T)} : Before(b, NextOf(b, T), q)
<1> DEFINE R == {p \in T \X T : p[1] = p[2] \/ Before(b, p[1], p[2])}
<1>1. \A q, r \in T : <<q, r>> \in R <=> q = r \/ Before(b, q, r)
  OBVIOUS
<1>2. IsFiniteSet(T)
  BY ToSetFinite, FS_Subset
<1> HIDE DEF R
<1>3. \A q, r \in T : <<q, r>> \in R \/ <<r, q>> \in R
  BY <1>1, BeforeOrders
<1>4. \A q, r, t \in T : <<q, r>> \in R /\ <<r, t>> \in R => <<q, t>> \in R
  <2>1. \A q, r, t \in T : Before(b, q, r) /\ Before(b, r, t) => Before(b, q, t)
    BY BeforeOrders
  <2> QED
    BY <1>1, <2>1
<1>5. \E r \in T : \A q \in T : <<r, q>> \in R
  BY <1>2, <1>3, <1>4, FirstExists
<1>6. \E r \in T : \A q \in T \ {r} : Before(b, r, q)
  BY <1>1, <1>5
<1> QED
  BY <1>6, Zenon DEF NextOf

(* A model's requests are consecutive: taken with the first of all, they     *)
(* come before the rest.                                                     *)
LEMMA ModelFirst ==
  ASSUME NEW b \in Seq(Request), IsInjective(b), NEW T \in SUBSET ToSet(b), NEW n \in T,
         \A q \in T \ {n} : Before(b, n, q)
  PROVE  Precede(b, {q \in T : ModelOf[q] = ModelOf[n]}, {q \in T : ModelOf[q] # ModelOf[n]})
BY DEF Precede, Before

(* Requests of one model, put in order.                                      *)
LEMMA InOrderFacts ==
  ASSUME NEW b \in Seq(Request), IsInjective(b), NEW G \in SUBSET ToSet(b),
         \A q, r \in G : ModelOf[q] = ModelOf[r]
  PROVE  /\ InOrder(b, G) \in Seq(Request)
         /\ ToSet(InOrder(b, G)) = G
         /\ \A i, j \in DOMAIN InOrder(b, G) :
              i < j => Before(b, InOrder(b, G)[i], InOrder(b, G)[j])
<1> DEFINE R == ToSet(b) \ G
           g == InOrder(b, G)
<1>1. g = Without(b, R)
  BY DEF InOrder
<1>2. g \in Seq(Request) /\ ToSet(g) = ToSet(b) \ R /\ Thins(g, b)
  BY <1>1, WithoutFacts
<1>3. ToSet(g) = G
  BY <1>2
<1> HIDE DEF g
<1>4. PICK e : Embeds(e, g, b)
  BY <1>2 DEF Thins
<1>5. ASSUME NEW i \in DOMAIN g, NEW j \in DOMAIN g, i < j PROVE Before(b, g[i], g[j])
  <2>1. /\ e[i] \in DOMAIN b /\ e[j] \in DOMAIN b /\ e[i] < e[j]
        /\ g[i] = b[e[i]] /\ g[j] = b[e[j]]
    BY <1>4, <1>5 DEF Embeds
  <2>2. Place(b, g[i]) = e[i] /\ Place(b, g[j]) = e[j]
    BY <2>1, PlaceFacts
  <2>3. g[i] \in G /\ g[j] \in G
    BY <1>3 DEF ToSet
  <2> QED
    BY <2>1, <2>2, <2>3 DEF Before
<1> QED
  BY <1>2, <1>3, <1>5 DEF g

-----------------------------------------------------------------------------
(* Results.                                                                  *)

Reqs(R) == {s.req : s \in ToSet(R)}

Ordered(b, R) == \A i, j \in DOMAIN R : i < j => Before(b, R[i].req, R[j].req)

\* What may be said of a request, given its model.
Honest(s) ==
  /\ s.called <=> ModelOf[s.req] \in Deployed
  /\ s.success => s.called /\ s.req \notin Unreadable

\* R are the results of a batch, in order, but for those of T, which come later.
Stage(b, R, T) ==
  /\ R \in Seq(DispatchResult)
  /\ Reqs(R) \union T = ToSet(b)
  /\ Ordered(b, R)
  /\ Precede(b, Reqs(R), T)
  /\ \A s \in ToSet(R) : Honest(s)

\* h are results for G, the next requests of T.
NextResults(b, h, G, T) ==
  /\ h \in Seq(DispatchResult)
  /\ Reqs(h) = G
  /\ Ordered(b, h)
  /\ \A s \in ToSet(h) : Honest(s)
  /\ G \subseteq T /\ Precede(b, G, T \ G)

LEMMA ConcatFacts ==
  ASSUME NEW X, NEW s \in Seq(X), NEW t \in Seq(X)
  PROVE  /\ s \o t \in Seq(X) /\ ToSet(s \o t) = ToSet(s) \union ToSet(t)
         /\ DOMAIN s = 1 .. Len(s) /\ DOMAIN t = 1 .. Len(t)
         /\ Len(s) \in Nat /\ Len(t) \in Nat
         /\ DOMAIN (s \o t) = 1 .. Len(s) + Len(t)
         /\ \A i \in DOMAIN s : (s \o t)[i] = s[i]
         /\ \A i \in DOMAIN (s \o t) : i > Len(s) =>
              i - Len(s) \in DOMAIN t /\ (s \o t)[i] = t[i - Len(s)]
<1> DEFINE u == s \o t
<1>1. DOMAIN s = 1 .. Len(s) /\ DOMAIN t = 1 .. Len(t) /\ Len(s) \in Nat /\ Len(t) \in Nat
  BY LenProperties
<1>2. /\ u \in Seq(X) /\ Len(u) = Len(s) + Len(t)
      /\ \A i \in 1 .. Len(s) + Len(t) : u[i] = IF i <= Len(s) THEN s[i] ELSE t[i - Len(s)]
  BY ConcatProperties
<1>3. DOMAIN u = 1 .. Len(s) + Len(t)
  BY <1>2, LenProperties
<1> HIDE DEF u
<1>4. ASSUME NEW i \in DOMAIN s PROVE i \in DOMAIN u /\ u[i] = s[i]
  <2>1. i \in 1 .. Len(s) + Len(t) /\ i <= Len(s)
    BY <1>1
  <2> QED
    BY <1>2, <1>3, <2>1
<1>5. ASSUME NEW i \in DOMAIN u, i > Len(s)
      PROVE  i - Len(s) \in DOMAIN t /\ u[i] = t[i - Len(s)]
  <2>1. i \in 1 .. Len(s) + Len(t) /\ ~ (i <= Len(s)) /\ i - Len(s) \in 1 .. Len(t)
    BY <1>1, <1>3, <1>5
  <2> QED
    BY <1>1, <1>2, <2>1
<1>6. ASSUME NEW j \in DOMAIN t PROVE Len(s) + j \in DOMAIN u /\ u[Len(s) + j] = t[j]
  <2>1. /\ Len(s) + j \in 1 .. Len(s) + Len(t) /\ Len(s) + j > Len(s)
        /\ Len(s) + j - Len(s) = j
    BY <1>1
  <2> QED
    BY <1>3, <1>5, <2>1
<1>7. ToSet(u) = ToSet(s) \union ToSet(t)
  <2>1. \A i \in DOMAIN u : i \in DOMAIN s \/ i > Len(s)
    BY <1>1, <1>3
  <2> QED
    BY <1>4, <1>5, <1>6, <2>1 DEF ToSet
<1> QED
  BY <1>1, <1>2, <1>3, <1>4, <1>5, <1>7 DEF u

(* Appending the results of the next requests.                               *)
LEMMA StageGrows ==
  ASSUME NEW b, NEW R, NEW T, NEW h, NEW G, Stage(b, R, T), NextResults(b, h, G, T)
  PROVE  Stage(b, R \o h, T \ G)
<1>1. R \in Seq(DispatchResult) /\ h \in Seq(DispatchResult)
  BY DEF Stage, NextResults
<1> DEFINE u == R \o h
<1>2. u \in Seq(DispatchResult) /\ ToSet(u) = ToSet(R) \union ToSet(h)
  BY <1>1, ConcatFacts
<1>3. /\ DOMAIN R = 1 .. Len(R) /\ Len(R) \in Nat /\ DOMAIN u = 1 .. Len(R) + Len(h)
      /\ Len(h) \in Nat
      /\ \A i \in DOMAIN R : u[i] = R[i]
      /\ \A i \in DOMAIN u : i > Len(R) => i - Len(R) \in DOMAIN h /\ u[i] = h[i - Len(R)]
  BY <1>1, ConcatFacts
<1> HIDE DEF u
<1>4. Reqs(u) = Reqs(R) \union G
  BY <1>2 DEF Reqs, NextResults
<1>5. ASSUME NEW i \in DOMAIN u, NEW j \in DOMAIN u, i < j
      PROVE  Before(b, u[i].req, u[j].req)
  <2>1. i \in Int /\ j \in Int /\ Len(R) \in Int
    BY <1>3
  <2>2. CASE j <= Len(R)
    <3>1. i \in DOMAIN R /\ j \in DOMAIN R
      BY <1>3, <1>5, <2>1, <2>2
    <3> QED
      BY <1>3, <1>5, <3>1 DEF Stage, Ordered
  <2>3. CASE i > Len(R)
    <3>1. i - Len(R) < j - Len(R) /\ j > Len(R)
      BY <1>5, <2>1, <2>3
    <3>2. /\ i - Len(R) \in DOMAIN h /\ u[i] = h[i - Len(R)]
          /\ j - Len(R) \in DOMAIN h /\ u[j] = h[j - Len(R)]
      BY <1>3, <2>3, <3>1
    <3> QED
      BY <3>1, <3>2 DEF NextResults, Ordered
  <2>4. CASE i <= Len(R) /\ j > Len(R)
    <3>1. i \in DOMAIN R /\ u[i] = R[i]
      BY <1>3, <2>1, <2>4
    <3>2. u[j] \in ToSet(h)
      BY <1>3, <2>4 DEF ToSet
    <3>3. u[i].req \in Reqs(R) /\ u[j].req \in Reqs(h)
      BY <3>1, <3>2 DEF Reqs, ToSet
    <3> QED
      BY <3>3 DEF Stage, NextResults, Precede
  <2> QED
    BY <2>1, <2>2, <2>3, <2>4
<1>6. Ordered(b, u)
  BY <1>5 DEF Ordered
<1>7. Reqs(u) \union (T \ G) = ToSet(b)
  BY <1>4 DEF Stage, NextResults
<1>8. Precede(b, Reqs(u), T \ G)
  BY <1>4 DEF Stage, NextResults, Precede
<1>9. \A s \in ToSet(u) : Honest(s)
  BY <1>2 DEF Stage, NextResults
<1> QED
  BY <1>2, <1>6, <1>7, <1>8, <1>9 DEF Stage, u

GroupResults(b, G, e, x) ==
  [i \in DOMAIN InOrder(b, G) |-> Result(InOrder(b, G)[i], e[InOrder(b, G)[i]], x)]

\* h are results of the requests G, in order.
ResultsOf(h, b, G, e, x) ==
  /\ h \in Seq(DispatchResult) /\ Ordered(b, h)
  /\ ToSet(h) = {Result(r, e[r], x) : r \in G} /\ Reqs(h) = G

LEMMA GroupResultsFacts ==
  ASSUME NEW b \in Seq(Request), IsInjective(b), NEW G \in SUBSET ToSet(b),
         \A q, r \in G : ModelOf[q] = ModelOf[r], NEW e \in [G -> BOOLEAN], NEW x \in BOOLEAN
  PROVE  ResultsOf(GroupResults(b, G, e, x), b, G, e, x)
<1> DEFINE g == InOrder(b, G)
           h == [i \in DOMAIN g |-> Result(g[i], e[g[i]], x)]
<1>1. /\ g \in Seq(Request) /\ ToSet(g) = G
      /\ \A i, j \in DOMAIN g : i < j => Before(b, g[i], g[j])
  BY InOrderFacts
<1> HIDE DEF g
<1>2. DOMAIN g = 1 .. Len(g) /\ Len(g) \in Nat /\ \A i \in DOMAIN g : g[i] \in G /\ g[i] \in Request
  BY <1>1, BatchFacts DEF ToSet
<1>3. \A r \in Request, y \in BOOLEAN : Result(r, y, x) \in DispatchResult /\ Result(r, y, x).req = r
  BY DEF Result, DispatchResult
<1>4. \A i \in DOMAIN g : Result(g[i], e[g[i]], x) \in DispatchResult
  BY <1>2, <1>3
<1>5. DOMAIN h = DOMAIN g /\ \A i \in DOMAIN g : h[i] = Result(g[i], e[g[i]], x)
  OBVIOUS
<1>6. h \in Seq(DispatchResult)
  <2>1. h \in [1 .. Len(g) -> DispatchResult]
    BY <1>2, <1>4
  <2> QED
    BY <1>2, <2>1, SeqDef
<1> HIDE DEF h
<1>7. \A i \in DOMAIN g : h[i].req = g[i]
  BY <1>2, <1>3, <1>5
<1>8. Ordered(b, h)
  BY <1>1, <1>5, <1>7 DEF Ordered
<1>9. ToSet(h) = {Result(r, e[r], x) : r \in G}
  <2>1. \A r \in G : \E i \in DOMAIN g : g[i] = r
    BY <1>1 DEF ToSet
  <2>2. \A s \in ToSet(h) : \E i \in DOMAIN g : s = Result(g[i], e[g[i]], x)
    BY <1>5 DEF ToSet
  <2>3. \A i \in DOMAIN g : Result(g[i], e[g[i]], x) \in ToSet(h)
    BY <1>5 DEF ToSet
  <2> QED
    BY <1>2, <2>1, <2>2, <2>3
<1>10. Reqs(h) = G
  <2>1. \A r \in G : r \in Request /\ e[r] \in BOOLEAN
    BY BatchFacts
  <2> QED
    BY <1>3, <1>9, <2>1 DEF Reqs
<1>11. h = GroupResults(b, G, e, x)
  BY DEF g, h, GroupResults
<1>12. ResultsOf(h, b, G, e, x)
  BY <1>6, <1>8, <1>9, <1>10 DEF ResultsOf
<1> QED
  BY <1>11, <1>12

-----------------------------------------------------------------------------
(* The inductive invariant: the results so far, the group and what is left   *)
(* are the batch in the order of by_model.                                   *)

State == {"none", "running", "returned", "raised"}

CallRecord ==
  [state: State, batch: Seq(Request), todo: SUBSET Request, group: SUBSET Request,
   ended: UNION {[D -> BOOLEAN] : D \in SUBSET Request},
   results: Seq(DispatchResult), thrown: Seq(DispatchResult)]

Running(k) ==
  /\ IsInjective(k.batch)
  /\ Stage(k.batch, k.results, k.group \union k.todo)
  /\ Precede(k.batch, k.group, k.todo)
  /\ \A q, r \in k.group : ModelOf[q] = ModelOf[r]
  /\ \A r \in k.group : ModelOf[r] \in Deployed /\ r \notin Unreadable
  /\ DOMAIN k.ended \subseteq k.group
  /\ k.thrown = <<>>

\* Why a call with dispatcher d raised, and what it cost.
Caused(d, k) ==
  /\ \E r \in k.todo : r \in Unreadable \/ (d = "ray" /\ ModelOf[r] \notin Deployed)
  /\ Len(k.batch) = 1 => k.thrown = <<>>

Sound(d, k) ==
  /\ k.state = "running" => Running(k)
  /\ k.state = "returned" => Stage(k.batch, k.results, {})
  /\ k.state = "raised" => Caused(d, k)
  /\ k.state # "running" => k.group = {} /\ k.ended = <<>>
  /\ d = "local" => k.group = {} \/ \E r \in Request : k.group = {r}

IInv ==
  /\ dispatcher \in {"local", "ray"}
  /\ call \in [Call -> CallRecord]
  /\ \A c \in Call : Sound(dispatcher, call[c])

Becomes(c, k) == call' = [call EXCEPT ![c] = k] /\ UNCHANGED dispatcher

LEMMA NothingEnded == DOMAIN <<>> = {} /\ <<>> \in UNION {[D -> BOOLEAN] : D \in SUBSET Request}
<1>1. <<>> \in [{} -> BOOLEAN] /\ {} \in SUBSET Request
  OBVIOUS
<1> QED
  BY <1>1

LEMMA CallStep ==
  ASSUME IInv, NEW c \in Call, NEW k \in CallRecord, Sound(dispatcher, k), Becomes(c, k)
  PROVE  IInv'
<1>1. dispatcher' = dispatcher /\ call' = [call EXCEPT ![c] = k]
  BY DEF Becomes
<1>2. call' \in [Call -> CallRecord]
  BY <1>1 DEF IInv
<1>3. \A d \in Call : Sound(dispatcher', call'[d])
  BY <1>1 DEF IInv
<1> QED
  BY <1>1, <1>2, <1>3 DEF IInv

LEMMA CallFields ==
  ASSUME IInv, NEW c \in Call
  PROVE  /\ call[c].state \in State /\ call[c].batch \in Seq(Request)
         /\ call[c].todo \in SUBSET Request /\ call[c].group \in SUBSET Request
         /\ call[c].ended \in UNION {[D -> BOOLEAN] : D \in SUBSET Request}
         /\ call[c].ended \in [DOMAIN call[c].ended -> BOOLEAN]
         /\ call[c].results \in Seq(DispatchResult) /\ call[c].thrown \in Seq(DispatchResult)
<1>1. call[c] \in CallRecord
  BY DEF IInv
<1>2. /\ call[c].state \in State /\ call[c].batch \in Seq(Request)
      /\ call[c].todo \in SUBSET Request /\ call[c].group \in SUBSET Request
      /\ call[c].ended \in UNION {[D -> BOOLEAN] : D \in SUBSET Request}
      /\ call[c].results \in Seq(DispatchResult) /\ call[c].thrown \in Seq(DispatchResult)
  BY <1>1 DEF CallRecord
<1> QED
  BY <1>2

(* Once a group has ended its results join the others.                       *)
LEMMA CollectedStage ==
  ASSUME IInv, NEW c \in Call, AwaitsNone(c)
  PROVE  /\ Stage(call[c].batch, Collected(c), call[c].todo)
         /\ ToSet(Collected(c)) = ToSet(call[c].results)
              \union {Result(r, call[c].ended[r], TRUE) : r \in call[c].group}
<1> DEFINE b == call[c].batch
           G == call[c].group
           T == call[c].todo
           e == call[c].ended
           h == GroupResults(b, G, e, TRUE)
<1>1. Running(call[c]) /\ e \in [G -> BOOLEAN] /\ b \in Seq(Request)
  BY CallFields DEF IInv, Sound, AwaitsNone
<1>2. G \in SUBSET ToSet(b) /\ T \in SUBSET ToSet(b)
  BY <1>1 DEF Running, Stage
<1>3. G \cap T = {}
  BY <1>1, <1>2, Apart DEF Running
<1>4. Collected(c) = call[c].results \o h
  BY DEF Collected, GroupResults
<1>5. /\ h \in Seq(DispatchResult) /\ Ordered(b, h)
      /\ ToSet(h) = {Result(r, e[r], TRUE) : r \in G} /\ Reqs(h) = G
  <2> HIDE DEF b, G, e
  <2>1. IsInjective(b) /\ \A q, r \in G : ModelOf[q] = ModelOf[r]
    BY <1>1 DEF Running, b, G
  <2>2. ResultsOf(h, b, G, e, TRUE)
    BY <1>1, <1>2, <2>1, GroupResultsFacts
  <2> QED
    BY <2>2 DEF ResultsOf
<1> HIDE DEF h
<1>6. \A s \in ToSet(h) : Honest(s)
  <2>1. \A r \in G : ModelOf[r] \in Deployed /\ r \notin Unreadable
    BY <1>1 DEF Running
  <2> QED
    BY <1>5, <2>1 DEF Honest, Result
<1>7. (G \union T) \ G = T
  BY <1>3
<1>8. NextResults(b, h, G, G \union T)
  <2>1. Precede(b, G, T)
    BY <1>1 DEF Running
  <2> QED
    BY <1>5, <1>6, <1>7, <2>1 DEF NextResults
<1>9. Stage(b, call[c].results, G \union T)
  BY <1>1 DEF Running
<1>10. Stage(b, call[c].results \o h, T)
  <2>1. Stage(b, call[c].results \o h, (G \union T) \ G)
    BY <1>8, <1>9, StageGrows
  <2> QED
    BY <1>7, <2>1
<1>11. ToSet(call[c].results \o h) = ToSet(call[c].results) \union ToSet(h)
  <2> DEFINE R == call[c].results
  <2>1. R \in Seq(DispatchResult)
    BY CallFields
  <2>2. h \in Seq(DispatchResult)
    BY <1>5
  <2> HIDE DEF R
  <2>3. ToSet(R \o h) = ToSet(R) \union ToSet(h)
    BY <2>1, <2>2, ConcatFacts
  <2> QED
    BY <2>3 DEF R
<1> QED
  BY <1>4, <1>5, <1>10, <1>11

(* The next step of the loops: the first of what is left, and its model.     *)
LEMMA NextRequestFacts ==
  ASSUME IInv, NEW c \in Call, AwaitsNone(c), call[c].todo # {}
  PROVE  /\ NextRequest(c) \in call[c].todo
         /\ Precede(call[c].batch, {NextRequest(c)}, call[c].todo \ {NextRequest(c)})
         /\ NextOfModel(c) \subseteq call[c].todo /\ NextRequest(c) \in NextOfModel(c)
         /\ \A r \in NextOfModel(c) : ModelOf[r] = ModelOf[NextRequest(c)]
         /\ Precede(call[c].batch, NextOfModel(c), call[c].todo \ NextOfModel(c))
<1> DEFINE b == call[c].batch
           T == call[c].todo
           n == NextOf(b, T)
<1>1. Running(call[c]) /\ b \in Seq(Request)
  BY CallFields DEF IInv, Sound, AwaitsNone
<1>2. T \in SUBSET ToSet(b) /\ IsInjective(b)
  BY <1>1 DEF Running, Stage
<1>3. NextRequest(c) = n
  BY DEF NextRequest, NextOf
<1>4. n \in T /\ \A q \in T \ {n} : Before(b, n, q)
  <2> HIDE DEF b, T
  <2> QED
    BY <1>1, <1>2, NextFacts DEF T
<1> DEFINE G == {q \in T : ModelOf[q] = ModelOf[n]}
<1>5. NextOfModel(c) = G
  BY <1>3 DEF NextOfModel
<1>6. Precede(b, G, {q \in T : ModelOf[q] # ModelOf[n]})
  <2> HIDE DEF b, T, n
  <2> QED
    BY <1>1, <1>2, <1>4, ModelFirst
<1>7. {q \in T : ModelOf[q] # ModelOf[n]} = T \ G
  OBVIOUS
<1>8. Precede(b, {n}, T \ {n})
  BY <1>4 DEF Precede
<1> HIDE DEF n, b, T
<1>9. n \in G /\ G \subseteq T /\ \A r \in G : ModelOf[r] = ModelOf[n]
  BY <1>4
<1> HIDE DEF G
<1>10. Precede(b, G, T \ G)
  BY <1>6, <1>7
<1> QED
  BY <1>3, <1>4, <1>5, <1>8, <1>9, <1>10 DEF b, T

-----------------------------------------------------------------------------
(* The steps keep it.                                                        *)

LEMMA EmptyResults ==
  /\ <<>> \in Seq(DispatchResult) /\ Reqs(<<>>) = {}
  /\ \A b : Ordered(b, <<>>)
<1>1. <<>> \in Seq(DispatchResult) /\ DOMAIN <<>> = {}
  BY NothingEnded
<1> QED
  BY <1>1 DEF Reqs, ToSet, Ordered

LEMMA InitIInv == Init => IInv
<1> SUFFICES ASSUME Init PROVE IInv
  OBVIOUS
<1>1. NoCall \in CallRecord
  <2>1. "none" \in State /\ <<>> \in Seq(Request)
    BY DEF State
  <2> QED
    BY <2>1, NothingEnded, EmptyResults DEF NoCall, CallRecord
<1>2. Sound(dispatcher, NoCall)
  BY DEF Sound, NoCall
<1> QED
  BY <1>1, <1>2 DEF Init, IInv

LEMMA StartKeeps ==
  ASSUME IInv, NEW c \in Call, StartDispatch(c)
  PROVE  IInv'
<1>1. PICK b \in SeqOf(Request, MaxBatch) :
        /\ IsInjective(b)
        /\ call' = [call EXCEPT ![c].state = "running", ![c].batch = b, ![c].todo = ToSet(b)]
  BY DEF StartDispatch
<1>2. b \in Seq(Request)
  BY <1>1 DEF SeqOf
<1> DEFINE k == [call[c] EXCEPT !.state = "running", !.batch = b, !.todo = ToSet(b)]
<1>3. call[c] = NoCall /\ call \in [Call -> CallRecord] /\ call[c] \in CallRecord
  BY DEF StartDispatch, IInv
<1>4. call' = [call EXCEPT ![c] = k]
  BY <1>1, <1>3
<1>5. k \in CallRecord
  <2>1. "running" \in State /\ ToSet(b) \in SUBSET Request
    BY <1>2, BatchFacts DEF State
  <2> QED
    BY <1>2, <1>3, <2>1 DEF CallRecord
<1>6. Stage(b, <<>>, {} \union ToSet(b))
  <2>1. ToSet(<<>>) = {}
    BY NothingEnded DEF ToSet
  <2> QED
    BY <2>1, EmptyResults DEF Stage, Precede
<1>7. /\ k.state = "running" /\ k.batch = b /\ k.todo = ToSet(b) /\ k.group = {}
      /\ k.ended = <<>> /\ k.results = <<>> /\ k.thrown = <<>>
  <2>1. /\ call[c].group = {} /\ call[c].ended = <<>> /\ call[c].results = <<>>
        /\ call[c].thrown = <<>>
    BY <1>3 DEF NoCall
  <2> QED
    BY <1>3, <2>1 DEF CallRecord
<1> HIDE DEF k
<1>8. Sound(dispatcher, k)
  <2>1. Running(k)
    BY <1>1, <1>6, <1>7, NothingEnded DEF Running, Precede
  <2> QED
    BY <1>7, <2>1 DEF Sound
<1>9. Becomes(c, k)
  BY <1>4 DEF Becomes, StartDispatch
<1> QED
  BY <1>5, <1>8, <1>9, CallStep

\* Group G is called next, of the batch b, R being the results so far.
MayCall(d, b, R, G, T) ==
  /\ Stage(b, R, G \union T) /\ Precede(b, G, T)
  /\ \A q, r \in G : ModelOf[q] = ModelOf[r]
  /\ \A r \in G : ModelOf[r] \in Deployed /\ r \notin Unreadable
  /\ d = "local" => G = {} \/ \E r \in Request : G = {r}

LEMMA ProceedKeeps ==
  ASSUME IInv, NEW c \in Call, AwaitsNone(c), NEW G \in SUBSET Request,
         NEW T \in SUBSET Request, NEW R,
         MayCall(dispatcher, call[c].batch, R, G, T), Proceed(c, G, T, R),
         UNCHANGED dispatcher
  PROVE  IInv'
<1> DEFINE b == call[c].batch
           k == [call[c] EXCEPT !.group = G, !.ended = <<>>, !.todo = T, !.results = R]
<1>1. /\ Running(call[c]) /\ b \in Seq(Request) /\ call \in [Call -> CallRecord]
      /\ call[c] \in CallRecord /\ call[c].state = "running" /\ call[c].thrown = <<>>
  BY CallFields DEF IInv, Sound, AwaitsNone, Running
<1>2. call' = [call EXCEPT ![c] = k]
  BY <1>1 DEF Proceed
<1>3. R \in Seq(DispatchResult)
  BY DEF MayCall, Stage
<1>4. k \in CallRecord
  BY <1>1, <1>3, NothingEnded DEF CallRecord
<1>5. /\ k.batch = b /\ k.results = R /\ k.group = G /\ k.todo = T /\ k.ended = <<>>
      /\ k.thrown = <<>> /\ k.state = "running"
  BY <1>1 DEF CallRecord
<1>6. IsInjective(b)
  BY <1>1 DEF Running
<1>7. MayCall(dispatcher, b, R, G, T)
  OBVIOUS
<1> HIDE DEF k, b
<1>8. Running(k)
  BY <1>5, <1>6, <1>7, NothingEnded DEF Running, MayCall
<1>9. Sound(dispatcher, k)
  BY <1>5, <1>7, <1>8 DEF Sound, MayCall
<1>10. Becomes(c, k)
  BY <1>2 DEF Becomes
<1> QED
  BY <1>4, <1>9, <1>10, CallStep

\* Results of a batch that has only request r, which is still to come.
LEMMA NoneYet ==
  ASSUME NEW b \in Seq(Request), IsInjective(b), NEW R, NEW T, Stage(b, R, T),
         Len(b) = 1, T # {}
  PROVE  R = <<>>
<1>1. DOMAIN b = {1}
  BY BatchFacts
<1>2. ToSet(b) = {b[1]}
  BY <1>1 DEF ToSet
<1>3. Reqs(R) \subseteq ToSet(b) /\ T \subseteq ToSet(b) /\ Precede(b, Reqs(R), T)
  BY DEF Stage
<1>4. Reqs(R) \cap T = {}
  BY <1>3, Apart
<1>5. Reqs(R) = {}
  BY <1>2, <1>3, <1>4
<1>6. R \in Seq(DispatchResult) /\ DOMAIN R = 1 .. Len(R) /\ Len(R) \in Nat
  BY LenProperties DEF Stage
<1>7. DOMAIN R = {}
  BY <1>5 DEF Reqs, ToSet
<1>8. Len(R) = 0
  BY <1>6, <1>7
<1> QED
  BY <1>6, <1>8, EmptySeq

LEMMA RaiseKeeps ==
  ASSUME IInv, NEW c \in Call, AwaitsNone(c), NEW r \in call[c].todo,
         r \in Unreadable \/ (dispatcher = "ray" /\ ModelOf[r] \notin Deployed),
         Raise(c), UNCHANGED dispatcher
  PROVE  IInv'
<1> DEFINE b == call[c].batch
           T == call[c].todo
           R == Collected(c)
           k == [call[c] EXCEPT !.state = "raised", !.thrown = R, !.results = <<>>,
                                !.group = {}, !.ended = <<>>]
<1>1. /\ Running(call[c]) /\ b \in Seq(Request) /\ call \in [Call -> CallRecord]
      /\ call[c] \in CallRecord
  BY CallFields DEF IInv, Sound, AwaitsNone
<1>2. call' = [call EXCEPT ![c] = k]
  BY <1>1 DEF Raise
<1>3. Stage(b, R, T) /\ R \in Seq(DispatchResult)
  BY CollectedStage DEF Stage
<1> HIDE DEF R
<1>4. k \in CallRecord
  BY <1>1, <1>3, NothingEnded, EmptyResults DEF CallRecord, State
<1>5. /\ k.batch = b /\ k.group = {} /\ k.todo = T /\ k.ended = <<>>
      /\ k.thrown = R /\ k.state = "raised"
  BY <1>1 DEF CallRecord
<1>6. Len(b) = 1 => R = <<>>
  <2>1. IsInjective(b) /\ T # {}
    BY <1>1 DEF Running
  <2> HIDE DEF b, T
  <2> QED
    BY <1>1, <1>3, <2>1, NoneYet
<1>7. Caused(dispatcher, k)
  BY <1>5, <1>6 DEF Caused
<1> HIDE DEF k, b, T
<1>8. Sound(dispatcher, k)
  BY <1>5, <1>7 DEF Sound
<1>9. Becomes(c, k)
  BY <1>2 DEF Becomes
<1> QED
  BY <1>4, <1>8, <1>9, CallStep

LEMMA EndKeeps ==
  ASSUME IInv, NEW c \in Call, NEW r \in Awaited(c), NEW success \in BOOLEAN,
         End(c, r, success), UNCHANGED dispatcher
  PROVE  IInv'
<1> DEFINE e == [q \in DOMAIN call[c].ended \union {r} |->
                   IF q = r THEN success ELSE call[c].ended[q]]
           k == [call[c] EXCEPT !.ended = e]
<1>1. /\ call[c] \in CallRecord /\ call \in [Call -> CallRecord]
      /\ Sound(dispatcher, call[c]) /\ r \in call[c].group
  BY DEF IInv, Awaited
<1>2. Running(call[c]) /\ call[c].state = "running"
  BY <1>1 DEF Sound
<1>3. DOMAIN e \subseteq call[c].group /\ DOMAIN e \in SUBSET Request /\ e \in [DOMAIN e -> BOOLEAN]
  BY <1>1, <1>2, CallFields DEF Running
<1>4. call' = [call EXCEPT ![c] = k]
  BY <1>1 DEF End
<1> HIDE DEF e
<1>5. k \in CallRecord
  <2>1. e \in UNION {[D -> BOOLEAN] : D \in SUBSET Request}
    BY <1>3
  <2> QED
    BY <1>1, <2>1 DEF CallRecord
<1>6. /\ k.batch = call[c].batch /\ k.results = call[c].results /\ k.group = call[c].group
      /\ k.todo = call[c].todo /\ k.ended = e /\ k.thrown = call[c].thrown
      /\ k.state = "running"
  BY <1>1, <1>2 DEF CallRecord
<1> HIDE DEF k
<1>7. Running(k)
  BY <1>2, <1>3, <1>6 DEF Running
<1>8. Sound(dispatcher, k)
  BY <1>1, <1>6, <1>7 DEF Sound
<1>9. Becomes(c, k)
  BY <1>4 DEF Becomes
<1> QED
  BY <1>5, <1>8, <1>9, CallStep

LEMMA ReturnKeeps ==
  ASSUME IInv, NEW c \in Call, ReturnResults(c)
  PROVE  IInv'
<1> DEFINE b == call[c].batch
           R == Collected(c)
           k == [call[c] EXCEPT !.state = "returned", !.results = R, !.group = {},
                                !.ended = <<>>]
<1>1. /\ Running(call[c]) /\ b \in Seq(Request) /\ call \in [Call -> CallRecord]
      /\ call[c] \in CallRecord /\ call[c].todo = {}
  BY CallFields DEF IInv, Sound, AwaitsNone, Running, ReturnResults
<1>2. call' = [call EXCEPT ![c] = k]
  BY <1>1 DEF ReturnResults
<1>3. Stage(b, R, {}) /\ R \in Seq(DispatchResult)
  BY <1>1, CollectedStage DEF Stage, ReturnResults
<1> HIDE DEF R
<1>4. k \in CallRecord
  BY <1>1, <1>3, NothingEnded DEF CallRecord, State
<1>5. k.batch = b /\ k.results = R /\ k.group = {} /\ k.ended = <<>> /\ k.state = "returned"
  BY <1>1 DEF CallRecord
<1> HIDE DEF k, b
<1>6. Sound(dispatcher, k)
  BY <1>3, <1>5 DEF Sound
<1>7. Becomes(c, k)
  BY <1>2 DEF Becomes, ReturnResults
<1> QED
  BY <1>4, <1>6, <1>7, CallStep

(* A model that is not there leaves error results, of requests not called.   *)
LEMMA LocalFindsNoneFacts ==
  ASSUME IInv, NEW c \in Call, LocalFindsNone(c)
  PROVE  \E h : /\ NextResults(call[c].batch, h, NextOfModel(c), call[c].todo)
                /\ \A s \in ToSet(h) : ~ s.called
                /\ Proceed(c, {}, call[c].todo \ NextOfModel(c), Collected(c) \o h)
<1> DEFINE b == call[c].batch
           T == call[c].todo
           G == NextOfModel(c)
           e == [r \in G |-> FALSE]
           h == GroupResults(b, G, e, FALSE)
<1>1. /\ AwaitsNone(c) /\ T # {} /\ ModelOf[NextRequest(c)] \notin Deployed
      /\ Running(call[c]) /\ b \in Seq(Request) /\ T \in SUBSET Request
  BY CallFields DEF IInv, Sound, AwaitsNone, LocalFindsNone
<1>2. /\ G \subseteq T /\ \A r \in G : ModelOf[r] = ModelOf[NextRequest(c)]
      /\ Precede(b, G, T \ G)
  BY <1>1, NextRequestFacts
<1>3. IsInjective(b) /\ T \subseteq ToSet(b)
  BY <1>1 DEF Running, Stage
<1>4. ToSet(b) \subseteq Request
  BY <1>1, BatchFacts
<1>5. ResultsOf(h, b, G, e, FALSE)
  <2>1. e \in [G -> BOOLEAN] /\ G \in SUBSET ToSet(b)
    BY <1>2, <1>3
  <2>2. \A q, r \in G : ModelOf[q] = ModelOf[r]
    BY <1>2
  <2> HIDE DEF b, G, e
  <2> QED
    BY <1>1, <1>3, <2>1, <2>2, GroupResultsFacts
<1>6. Proceed(c, {}, T \ G, Collected(c) \o h)
  <2> DEFINE g == InOrder(b, G)
  <2>1. /\ g \in Seq(Request) /\ ToSet(g) = G
    BY <1>1, <1>2, <1>3, InOrderFacts
  <2>2. \A i \in DOMAIN g : g[i] \in G
    BY <2>1 DEF ToSet
  <2>3. h = [i \in DOMAIN g |-> Result(g[i], FALSE, FALSE)]
    BY <2>2 DEF GroupResults
  <2> HIDE DEF h, g
  <2>4. Proceed(c, {}, T \ G, Collected(c) \o [i \in DOMAIN g |-> Result(g[i], FALSE, FALSE)])
    BY DEF LocalFindsNone, g
  <2> QED
    BY <2>3, <2>4
<1> HIDE DEF h
<1>7. NextResults(b, h, G, T)
  <2>1. \A r \in G : Honest(Result(r, FALSE, FALSE)) /\ e[r] = FALSE
    BY <1>1, <1>2 DEF Honest, Result
  <2>2. \A s \in ToSet(h) : Honest(s)
    BY <1>5, <2>1 DEF ResultsOf
  <2> QED
    BY <1>2, <1>5, <2>2 DEF ResultsOf, NextResults
<1>8. \A s \in ToSet(h) : ~ s.called
  BY <1>5 DEF ResultsOf, Result
<1> QED
  BY <1>6, <1>7, <1>8

LEMMA LocalFindsNoneKeeps ==
  ASSUME IInv, NEW c \in Call, LocalFindsNone(c)
  PROVE  IInv'
<1> DEFINE b == call[c].batch
           T == call[c].todo
           G == NextOfModel(c)
<1>1. AwaitsNone(c) /\ b \in Seq(Request) /\ T \in SUBSET Request
  BY CallFields DEF LocalFindsNone
<1>2. PICK h : NextResults(b, h, G, T) /\ Proceed(c, {}, T \ G, Collected(c) \o h)
  BY LocalFindsNoneFacts
<1>3. Stage(b, Collected(c) \o h, T \ G)
  BY <1>1, <1>2, CollectedStage, StageGrows
<1> DEFINE R == Collected(c) \o h
<1> HIDE DEF R
<1>4. MayCall(dispatcher, b, R, {}, T \ G)
  <2>1. {} \union (T \ G) = T \ G
    OBVIOUS
  <2>2. Stage(b, R, {} \union (T \ G))
    BY <1>3, <2>1 DEF R
  <2> QED
    BY <2>2 DEF MayCall, Precede
<1>5. Proceed(c, {}, T \ G, R)
  BY <1>2 DEF R
<1>6. T \ G \in SUBSET Request /\ {} \in SUBSET Request
  BY <1>1
<1> DEFINE U == T \ G
<1> HIDE DEF U, G
<1>7. IInv'
  <2>1. UNCHANGED dispatcher
    BY DEF LocalFindsNone
  <2>2. U \in SUBSET Request /\ MayCall(dispatcher, b, R, {}, U) /\ Proceed(c, {}, U, R)
    BY <1>4, <1>5, <1>6 DEF U
  <2> QED
    BY <1>1, <1>6, <2>1, <2>2, ProceedKeeps
<1> QED
  BY <1>7

(* A group G of what is left may be called if it has one model that is       *)
(* deployed, can be rebuilt and comes before the rest.                       *)
LEMMA GroupKeeps ==
  ASSUME IInv, NEW c \in Call, AwaitsNone(c), NEW G, G \subseteq call[c].todo,
         Precede(call[c].batch, G, call[c].todo \ G),
         \A q, r \in G : ModelOf[q] = ModelOf[r],
         \A r \in G : ModelOf[r] \in Deployed /\ r \notin Unreadable,
         dispatcher = "local" => \E r \in Request : G = {r},
         Proceed(c, G, call[c].todo \ G, Collected(c)), UNCHANGED dispatcher
  PROVE  IInv'
<1> DEFINE b == call[c].batch
           U == call[c].todo \ G
           R == Collected(c)
<1>1. call[c].todo \in SUBSET Request
  BY CallFields
<1>2. U \in SUBSET Request /\ G \in SUBSET Request /\ G \union U = call[c].todo
  BY <1>1
<1>3. Stage(b, R, G \union U)
  BY <1>2, CollectedStage
<1>4. MayCall(dispatcher, b, R, G, U)
  BY <1>3 DEF MayCall
<1>5. Proceed(c, G, U, R)
  OBVIOUS
<1> HIDE DEF U, R
<1> QED
  BY <1>2, <1>4, <1>5, ProceedKeeps

LEMMA LocalCallsKeeps ==
  ASSUME IInv, NEW c \in Call, LocalCalls(c)
  PROVE  IInv'
<1> DEFINE r == NextRequest(c)
<1>1. /\ AwaitsNone(c) /\ call[c].todo # {} /\ ModelOf[r] \in Deployed /\ UNCHANGED dispatcher
      /\ \/ r \in Unreadable /\ Raise(c)
         \/ r \notin Unreadable /\ Proceed(c, {r}, call[c].todo \ {r}, Collected(c))
  BY DEF LocalCalls
<1>2. r \in call[c].todo /\ Precede(call[c].batch, {r}, call[c].todo \ {r})
  BY <1>1, NextRequestFacts
<1>3. r \in Request
  BY <1>2, CallFields
<1> HIDE DEF r
<1>4. CASE r \in Unreadable /\ Raise(c)
  BY <1>1, <1>2, <1>4, RaiseKeeps
<1>5. CASE r \notin Unreadable /\ Proceed(c, {r}, call[c].todo \ {r}, Collected(c))
  <2> DEFINE G == {r}
  <2>1. /\ G \subseteq call[c].todo /\ \A p, q \in G : ModelOf[p] = ModelOf[q]
        /\ \A q \in G : ModelOf[q] \in Deployed /\ q \notin Unreadable
        /\ \E q \in Request : G = {q}
    BY <1>1, <1>2, <1>3, <1>5
  <2>2. Precede(call[c].batch, G, call[c].todo \ G) /\ Proceed(c, G, call[c].todo \ G, Collected(c))
    BY <1>2, <1>5
  <2> HIDE DEF G
  <2> QED
    BY <1>1, <2>1, <2>2, GroupKeeps
<1> QED
  BY <1>1, <1>4, <1>5

LEMMA RayCallsKeeps ==
  ASSUME IInv, NEW c \in Call, RayCalls(c)
  PROVE  IInv'
<1> DEFINE G == NextOfModel(c)
           callable == ModelOf[NextRequest(c)] \in Deployed /\ G \cap Unreadable = {}
<1>1. /\ AwaitsNone(c) /\ call[c].todo # {} /\ dispatcher = "ray" /\ UNCHANGED dispatcher
      /\ \/ ~ callable /\ Raise(c)
         \/ callable /\ Proceed(c, G, call[c].todo \ G, Collected(c))
  BY DEF RayCalls
<1>2. /\ NextRequest(c) \in G /\ G \subseteq call[c].todo
      /\ \A r \in G : ModelOf[r] = ModelOf[NextRequest(c)]
      /\ Precede(call[c].batch, G, call[c].todo \ G)
  BY <1>1, NextRequestFacts
<1> HIDE DEF G
<1>3. CASE ~ callable /\ Raise(c)
  <2>1. \E r \in call[c].todo : r \in Unreadable \/ ModelOf[r] \notin Deployed
    BY <1>2, <1>3
  <2> QED
    BY <1>1, <1>3, <2>1, RaiseKeeps
<1>4. CASE callable /\ Proceed(c, G, call[c].todo \ G, Collected(c))
  <2>1. /\ \A p, q \in G : ModelOf[p] = ModelOf[q]
        /\ \A q \in G : ModelOf[q] \in Deployed /\ q \notin Unreadable
    BY <1>2, <1>4
  <2> QED
    BY <1>1, <1>2, <1>4, <2>1, GroupKeeps
<1> QED
  BY <1>1, <1>3, <1>4

LEMMA NextIInv == IInv /\ [Next]_vars => IInv'
<1> SUFFICES ASSUME IInv, [Next]_vars PROVE IInv'
  OBVIOUS
<1>1. CASE UNCHANGED vars
  BY <1>1 DEF IInv, vars
<1>2. ASSUME NEW c \in Call, NEW r \in Request,
             ModelReturns(c, r) \/ ModelRaises(c, r) \/ ResultUnbuilt(c, r)
      PROVE  IInv'
  <2>1. r \in Awaited(c) /\ UNCHANGED dispatcher /\ (End(c, r, TRUE) \/ End(c, r, FALSE))
    BY <1>2 DEF ModelReturns, ModelRaises, ResultUnbuilt
  <2> QED
    BY <2>1, EndKeeps
<1> QED
  BY <1>1, <1>2, StartKeeps, LocalFindsNoneKeeps, LocalCallsKeeps, RayCallsKeeps, ReturnKeeps
  DEF Next

LEMMA IInvAlways == Spec => []IInv
BY InitIInv, NextIInv, PTL DEF Spec

-----------------------------------------------------------------------------
(* Health: whatever step it takes, a call's outcomes change only by those of *)
(* a model call that ends.                                                   *)

OutcomesOf(k) ==
  ToSet(k.results) \union ToSet(k.thrown)
    \union {Result(r, k.ended[r], TRUE) : r \in DOMAIN k.ended}

\* Ended(m) when the outcomes of each call are those of F.
EndedIn(F, m) == UNION {{c} \X {s \in F[c] : s.called /\ ModelOf[s.req] = m} : c \in Call}

AllOutcomes == [c \in Call |-> OutcomesOf(call[c])]

LEMMA EndedNow ==
  ASSUME NEW m
  PROVE  Ended(m) = EndedIn(AllOutcomes, m) /\ Ended(m)' = EndedIn(AllOutcomes', m)
BY DEF Ended, EndedIn, AllOutcomes, Outcomes, OutcomesOf

LEMMA EndedMembers ==
  ASSUME NEW F, NEW m
  PROVE  /\ \A c \in Call : \A s : <<c, s>> \in EndedIn(F, m)
                                 <=> s \in F[c] /\ s.called /\ ModelOf[s.req] = m
         /\ \A p \in EndedIn(F, m) : \E c \in Call : \E s \in F[c] : p = <<c, s>>
BY DEF EndedIn

\* The answered requests of F and of H are the same.
SameCalled(F, H) == \A c \in Call : \A s : s.called => (s \in F[c] <=> s \in H[c])

LEMMA EndedSame ==
  ASSUME NEW F, NEW H, SameCalled(F, H), NEW m
  PROVE  EndedIn(H, m) = EndedIn(F, m)
<1>1. EndedIn(H, m) \subseteq EndedIn(F, m)
  BY EndedMembers DEF SameCalled
<1>2. EndedIn(F, m) \subseteq EndedIn(H, m)
  BY EndedMembers DEF SameCalled
<1> QED
  BY <1>1, <1>2

\* H adds s, a call that has ended, to the outcomes of call c in F.
AddsOutcome(F, H, c, s) ==
  /\ s.called /\ s \notin F[c] /\ H[c] = F[c] \union {s}
  /\ \A d \in Call \ {c} : H[d] = F[d]

LEMMA EndedMore ==
  ASSUME NEW F, NEW H, NEW c \in Call, NEW s, AddsOutcome(F, H, c, s), NEW m
  PROVE  /\ <<c, s>> \notin EndedIn(F, m)
         /\ ModelOf[s.req] = m => EndedIn(H, m) = EndedIn(F, m) \union {<<c, s>>}
         /\ ModelOf[s.req] # m => EndedIn(H, m) = EndedIn(F, m)
<1>1. <<c, s>> \notin EndedIn(F, m)
  BY EndedMembers DEF AddsOutcome
<1>2. \A d \in Call : \A t : t \in H[d] <=> t \in F[d] \/ (d = c /\ t = s)
  BY DEF AddsOutcome
<1>3. \A p \in EndedIn(H, m) : p \in EndedIn(F, m) \/ (p = <<c, s>> /\ ModelOf[s.req] = m)
  BY <1>2, EndedMembers
<1>4. \A p \in EndedIn(F, m) : p \in EndedIn(H, m)
  BY <1>2, EndedMembers
<1>5. ModelOf[s.req] = m => <<c, s>> \in EndedIn(H, m)
  BY <1>2, EndedMembers DEF AddsOutcome
<1> QED
  BY <1>1, <1>3, <1>4, <1>5

Failed(E) == {p \in E : ~ p[2].success}

\* What health says of a model whose ended calls are E.
Tallies(h, E) ==
  /\ IsFiniteSet(E)
  /\ Cardinality(E) <= h.total_requests
  /\ h.total_requests <= Cardinality(E) + Cardinality(Failed(E))
  /\ h.last_error # 0 <=> Failed(E) # {}

HealthType ==
  /\ health \in [Model -> EndpointHealth]
  /\ \A m \in Model : health[m].last_error <= health[m].total_requests

HInv == HealthType /\ \A m \in Model : Tallies(health[m], Ended(m))

LEMMA HealthSame ==
  ASSUME HInv, SameCalled(AllOutcomes, AllOutcomes'), UNCHANGED health
  PROVE  HInv'
<1>1. ASSUME NEW m \in Model PROVE Tallies(health'[m], Ended(m)')
  <2> DEFINE F == AllOutcomes
             H == AllOutcomes'
  <2>1. Ended(m) = EndedIn(F, m) /\ Ended(m)' = EndedIn(H, m)
    BY EndedNow
  <2>2. SameCalled(F, H)
    OBVIOUS
  <2> HIDE DEF F, H
  <2>3. EndedIn(H, m) = EndedIn(F, m)
    BY <2>2, EndedSame
  <2> QED
    BY <2>1, <2>3 DEF HInv
<1> QED
  BY <1>1 DEF HInv, HealthType

\* A request ends and h becomes g: a failure is counted once or twice.
Moved(h, g, success) ==
  \/ /\ success
     /\ g.total_requests = h.total_requests + 1 /\ g.last_error = h.last_error
  \/ /\ ~ success
     /\ g.total_requests = h.total_requests + 1 \/ g.total_requests = h.total_requests + 2
     /\ g.last_error = g.total_requests

LEMMA TallyMore ==
  ASSUME NEW h, NEW E, Tallies(h, E), h.total_requests \in Nat,
         NEW p, p \notin E, NEW g, Moved(h, g, p[2].success)
  PROVE  Tallies(g, E \union {p})
<1> DEFINE A == Failed(E)
           B == Failed(E \union {p})
           n == Cardinality(E)
           a == Cardinality(A)
<1>1. IsFiniteSet(E) /\ IsFiniteSet(A)
  BY FS_Subset DEF Tallies, Failed
<1>2. IsFiniteSet(E \union {p}) /\ Cardinality(E \union {p}) = n + 1 /\ n \in Nat
  BY <1>1, AddSize
<1>3. B = IF p[2].success THEN A ELSE A \union {p}
  BY DEF Failed
<1>4. p \notin A
  BY DEF Failed
<1>5. /\ n <= h.total_requests /\ h.total_requests <= n + a
      /\ h.last_error # 0 <=> A # {}
  BY DEF Tallies
<1> HIDE DEF A, B
<1>6. a \in Nat /\ Cardinality(A \union {p}) = a + 1
  BY <1>1, <1>4, AddSize
<1>7. /\ n + 1 <= g.total_requests /\ g.total_requests <= (n + 1) + Cardinality(B)
      /\ g.last_error # 0 <=> B # {}
  <2>1. ASSUME p[2].success
        PROVE  /\ n + 1 <= g.total_requests /\ g.total_requests <= (n + 1) + Cardinality(B)
               /\ g.last_error # 0 <=> B # {}
    <3>1. B = A
      BY <1>3, <2>1
    <3>2. g.total_requests = h.total_requests + 1 /\ g.last_error = h.last_error
      BY <2>1 DEF Moved
    <3> QED
      BY <1>2, <1>5, <1>6, <3>1, <3>2
  <2>2. ASSUME ~ p[2].success
        PROVE  /\ n + 1 <= g.total_requests /\ g.total_requests <= (n + 1) + Cardinality(B)
               /\ g.last_error # 0 <=> B # {}
    <3>1. B # {} /\ Cardinality(B) = a + 1
      BY <1>3, <1>6, <2>2
    <3>2. /\ g.total_requests = h.total_requests + 1 \/ g.total_requests = h.total_requests + 2
          /\ g.last_error = g.total_requests
      BY <2>2 DEF Moved
    <3>3. n + 1 <= g.total_requests /\ g.total_requests <= (n + 1) + (a + 1)
      BY <1>2, <1>5, <1>6, <3>2
    <3>4. g.last_error # 0
      BY <3>2
    <3> QED
      BY <3>1, <3>3, <3>4
  <2> QED
    BY <2>1, <2>2
<1> QED
  BY <1>2, <1>7 DEF Tallies, B

(* A model call that ends is an outcome that was not there.                  *)
LEMMA EndAdds ==
  ASSUME IInv, NEW c \in Call, NEW r \in Awaited(c), NEW success \in BOOLEAN,
         End(c, r, success)
  PROVE  AddsOutcome(AllOutcomes, AllOutcomes', c, Result(r, success, TRUE))
<1> DEFINE k == call[c]
           e == [q \in DOMAIN k.ended \union {r} |-> IF q = r THEN success ELSE k.ended[q]]
           l == [k EXCEPT !.ended = e]
           s == Result(r, success, TRUE)
<1>1. /\ k \in CallRecord /\ call \in [Call -> CallRecord] /\ Sound(dispatcher, k)
      /\ r \in k.group /\ r \notin DOMAIN k.ended
  BY DEF IInv, Awaited
<1>2. Running(k) /\ k.batch \in Seq(Request)
  BY <1>1, CallFields DEF Sound
<1>3. call' = [call EXCEPT ![c] = l]
  BY <1>1 DEF End
<1>4. l.ended = e /\ l.results = k.results /\ l.thrown = k.thrown
  BY <1>1 DEF CallRecord
<1>5. OutcomesOf(l) = OutcomesOf(k) \union {s}
  <2>1. {Result(q, e[q], TRUE) : q \in DOMAIN e}
          = {Result(q, k.ended[q], TRUE) : q \in DOMAIN k.ended} \union {s}
    BY <1>1
  <2>2. OutcomesOf(k) = ToSet(k.results) \union ToSet(k.thrown)
                          \union {Result(q, k.ended[q], TRUE) : q \in DOMAIN k.ended}
    BY Zenon DEF OutcomesOf
  <2> HIDE DEF k, e, l, s
  <2>3. OutcomesOf(l) = ToSet(l.results) \union ToSet(l.thrown)
                          \union {Result(q, l.ended[q], TRUE) : q \in DOMAIN l.ended}
    BY Zenon DEF OutcomesOf
  <2>4. OutcomesOf(l) = ToSet(k.results) \union ToSet(k.thrown)
                          \union {Result(q, e[q], TRUE) : q \in DOMAIN e}
    BY <1>4, <2>3
  <2> QED
    BY <2>1, <2>2, <2>4
<1>6. s \notin OutcomesOf(k)
  <2>1. ToSet(k.thrown) = {}
    BY <1>2, NothingEnded DEF Running, ToSet
  <2>2. r \notin Reqs(k.results)
    <3>1. Reqs(k.results) \subseteq ToSet(k.batch) /\ IsInjective(k.batch)
          /\ Precede(k.batch, Reqs(k.results), k.group \union k.todo)
      BY <1>2 DEF Running, Stage
    <3> QED
      BY <1>1, <1>2, <3>1, Apart
  <2>3. s \notin ToSet(k.results)
    BY <2>2 DEF Reqs, Result
  <2>4. \A q \in DOMAIN k.ended : Result(q, k.ended[q], TRUE) # s
    BY <1>1 DEF Result
  <2> QED
    BY <2>1, <2>3, <2>4 DEF OutcomesOf
<1>7. s.called
  BY DEF Result
<1> HIDE DEF k, l, s
<1>8. call'[c] = l /\ \A d \in Call \ {c} : call'[d] = call[d]
  BY <1>1, <1>3
<1>9. /\ AllOutcomes[c] = OutcomesOf(k) /\ AllOutcomes'[c] = OutcomesOf(l)
      /\ \A d \in Call \ {c} : AllOutcomes'[d] = AllOutcomes[d]
  BY <1>8 DEF AllOutcomes, k
<1> QED
  BY <1>5, <1>6, <1>7, <1>9 DEF AddsOutcome, s

\* Call c keeps the outcomes of the group that has ended, and may add requests
\* that were not called.
KeepsOutcomes(c) ==
  /\ \A d \in Call \ {c} : call'[d] = call[d]
  /\ call'[c].ended = <<>>
  /\ \A s : s.called => (s \in ToSet(call'[c].results) \union ToSet(call'[c].thrown)
                           <=> s \in ToSet(Collected(c)))

LEMMA KeptOutcomes ==
  ASSUME IInv, NEW c \in Call, AwaitsNone(c), KeepsOutcomes(c)
  PROVE  SameCalled(AllOutcomes, AllOutcomes')
<1>1. Running(call[c]) /\ DOMAIN call[c].ended = call[c].group
  BY DEF IInv, Sound, AwaitsNone
<1>2. ToSet(call[c].thrown) = {}
  BY <1>1, NothingEnded DEF Running, ToSet
<1>3. OutcomesOf(call[c]) = ToSet(Collected(c))
  BY <1>1, <1>2, CollectedStage DEF OutcomesOf
<1>4. OutcomesOf(call'[c]) = ToSet(call'[c].results) \union ToSet(call'[c].thrown)
  <2>1. {Result(r, call'[c].ended[r], TRUE) : r \in DOMAIN call'[c].ended} = {}
    BY NothingEnded DEF KeepsOutcomes
  <2> QED
    BY <2>1 DEF OutcomesOf
<1>5. \A s : s.called => (s \in AllOutcomes[c] <=> s \in AllOutcomes'[c])
  BY <1>3, <1>4 DEF KeepsOutcomes, AllOutcomes
<1>6. \A d \in Call \ {c} : AllOutcomes[d] = AllOutcomes'[d]
  BY DEF KeepsOutcomes, AllOutcomes
<1> QED
  BY <1>5, <1>6 DEF SameCalled

LEMMA ProceedFields ==
  ASSUME IInv, NEW c \in Call, NEW G, NEW T, NEW R, Proceed(c, G, T, R)
  PROVE  /\ \A d \in Call \ {c} : call'[d] = call[d]
         /\ call'[c].ended = <<>> /\ call'[c].results = R /\ call'[c].thrown = call[c].thrown
<1>1. call \in [Call -> CallRecord] /\ call[c] \in CallRecord
  BY DEF IInv
<1>2. call' = [call EXCEPT ![c] = [call[c] EXCEPT !.group = G, !.ended = <<>>, !.todo = T,
                                                  !.results = R]]
  BY <1>1 DEF Proceed
<1> QED
  BY <1>1, <1>2 DEF CallRecord

LEMMA ProceedCollected ==
  ASSUME IInv, NEW c \in Call, AwaitsNone(c), NEW G, NEW T, Proceed(c, G, T, Collected(c))
  PROVE  KeepsOutcomes(c)
<1>1. ToSet(call[c].thrown) = {}
  BY NothingEnded DEF IInv, Sound, AwaitsNone, Running, ToSet
<1> DEFINE R == Collected(c)
<1>2. Proceed(c, G, T, R)
  OBVIOUS
<1> HIDE DEF R
<1>3. /\ \A d \in Call \ {c} : call'[d] = call[d]
      /\ call'[c].ended = <<>> /\ call'[c].results = R /\ call'[c].thrown = call[c].thrown
  BY <1>2, ProceedFields
<1> QED
  BY <1>1, <1>3 DEF KeepsOutcomes, R

LEMMA RaiseCollected ==
  ASSUME IInv, NEW c \in Call, AwaitsNone(c), Raise(c)
  PROVE  KeepsOutcomes(c)
<1>1. call \in [Call -> CallRecord] /\ call[c] \in CallRecord
  BY DEF IInv
<1>2. call' = [call EXCEPT ![c] = [call[c] EXCEPT !.state = "raised", !.thrown = Collected(c),
                                                  !.results = <<>>, !.group = {}, !.ended = <<>>]]
  BY <1>1 DEF Raise
<1>3. /\ \A d \in Call \ {c} : call'[d] = call[d]
      /\ call'[c].ended = <<>> /\ call'[c].results = <<>> /\ call'[c].thrown = Collected(c)
  BY <1>1, <1>2 DEF CallRecord
<1>4. ToSet(<<>>) = {}
  BY NothingEnded DEF ToSet
<1> QED
  BY <1>3, <1>4 DEF KeepsOutcomes

LEMMA LoopsKeepOutcomes ==
  ASSUME IInv, NEW c \in Call,
         LocalFindsNone(c) \/ LocalCalls(c) \/ RayCalls(c) \/ ReturnResults(c)
  PROVE  AwaitsNone(c) /\ KeepsOutcomes(c)
<1>1. AwaitsNone(c)
  BY DEF LocalFindsNone, LocalCalls, RayCalls, ReturnResults
<1>2. ToSet(call[c].thrown) = {}
  BY <1>1, NothingEnded DEF IInv, Sound, AwaitsNone, Running, ToSet
<1>3. CASE LocalFindsNone(c)
  <2>1. PICK h : /\ NextResults(call[c].batch, h, NextOfModel(c), call[c].todo)
                 /\ \A s \in ToSet(h) : ~ s.called
                 /\ Proceed(c, {}, call[c].todo \ NextOfModel(c), Collected(c) \o h)
    BY <1>3, LocalFindsNoneFacts
  <2> DEFINE R == Collected(c)
             U == R \o h
             T == call[c].todo \ NextOfModel(c)
  <2>2. R \in Seq(DispatchResult) /\ h \in Seq(DispatchResult)
    BY <1>1, <2>1, CollectedStage DEF Stage, NextResults
  <2>3. Proceed(c, {}, T, U)
    BY <2>1
  <2> HIDE DEF R, T
  <2>4. ToSet(U) = ToSet(R) \union ToSet(h)
    BY <2>2, ConcatFacts
  <2> HIDE DEF U
  <2>5. /\ \A d \in Call \ {c} : call'[d] = call[d]
        /\ call'[c].ended = <<>> /\ call'[c].results = U /\ call'[c].thrown = call[c].thrown
    BY <2>3, ProceedFields
  <2> QED
    BY <1>1, <1>2, <2>1, <2>4, <2>5 DEF KeepsOutcomes, R
<1>4. CASE LocalCalls(c)
  <2>1. Raise(c) \/ \E G, T : Proceed(c, G, T, Collected(c))
    BY <1>4 DEF LocalCalls
  <2> QED
    BY <1>1, <2>1, ProceedCollected, RaiseCollected
<1>5. CASE RayCalls(c)
  <2>1. Raise(c) \/ \E G, T : Proceed(c, G, T, Collected(c))
    BY <1>5 DEF RayCalls
  <2> QED
    BY <1>1, <2>1, ProceedCollected, RaiseCollected
<1>6. CASE ReturnResults(c)
  <2>1. call \in [Call -> CallRecord] /\ call[c] \in CallRecord
    BY DEF IInv
  <2>2. call' = [call EXCEPT ![c] = [call[c] EXCEPT !.state = "returned", !.results = Collected(c),
                                                    !.group = {}, !.ended = <<>>]]
    BY <1>6, <2>1 DEF ReturnResults
  <2>3. /\ \A d \in Call \ {c} : call'[d] = call[d]
        /\ call'[c].ended = <<>> /\ call'[c].results = Collected(c)
        /\ call'[c].thrown = call[c].thrown
    BY <2>1, <2>2 DEF CallRecord
  <2> QED
    BY <1>1, <1>2, <2>3 DEF KeepsOutcomes
<1> QED
  BY <1>3, <1>4, <1>5, <1>6

LEMMA StartKeepsOutcomes ==
  ASSUME IInv, NEW c \in Call, StartDispatch(c)
  PROVE  SameCalled(AllOutcomes, AllOutcomes')
<1>1. PICK b \in SeqOf(Request, MaxBatch) :
        call' = [call EXCEPT ![c].state = "running", ![c].batch = b, ![c].todo = ToSet(b)]
  BY DEF StartDispatch
<1>2. call[c] = NoCall /\ call \in [Call -> CallRecord] /\ call[c] \in CallRecord
  BY DEF StartDispatch, IInv
<1>3. call' = [call EXCEPT ![c] = [call[c] EXCEPT !.state = "running", !.batch = b,
                                                  !.todo = ToSet(b)]]
  BY <1>1, <1>2
<1>4. call'[c].ended = <<>> /\ call'[c].results = <<>> /\ call'[c].thrown = <<>>
  <2>1. call[c].ended = <<>> /\ call[c].results = <<>> /\ call[c].thrown = <<>>
    BY <1>2 DEF NoCall
  <2> QED
    BY <1>2, <1>3, <2>1 DEF CallRecord
<1>5. \A d \in Call \ {c} : AllOutcomes[d] = AllOutcomes'[d]
  BY <1>2, <1>3 DEF AllOutcomes
<1>6. call[c].ended = <<>> /\ call[c].results = <<>> /\ call[c].thrown = <<>>
  BY <1>2 DEF NoCall
<1>7. AllOutcomes[c] = AllOutcomes'[c]
  BY <1>4, <1>6 DEF AllOutcomes, OutcomesOf
<1> QED
  BY <1>5, <1>7 DEF SameCalled

LEMMA InitHInv == Init => HInv
<1> SUFFICES ASSUME Init PROVE HInv
  OBVIOUS
<1>1. HealthType
  BY DEF Init, HealthType, EndpointHealth
<1>2. ASSUME NEW m \in Model PROVE Tallies(health[m], Ended(m))
  <2>1. \A c \in Call : Outcomes(c) = {}
    <3>1. ToSet(<<>>) = {} /\ DOMAIN <<>> = {}
      BY NothingEnded DEF ToSet
    <3>2. \A c \in Call : call[c].results = <<>> /\ call[c].thrown = <<>> /\ call[c].ended = <<>>
      BY DEF Init, NoCall
    <3> QED
      BY <3>1, <3>2 DEF Outcomes
  <2>2. Ended(m) = {}
    BY <2>1 DEF Ended
  <2>3. Failed({}) = {}
    BY DEF Failed
  <2>4. IsFiniteSet({}) /\ Cardinality({}) = 0
    BY FS_EmptySet
  <2>5. health[m].total_requests = 0 /\ health[m].last_error = 0
    BY DEF Init
  <2> QED
    BY <2>2, <2>3, <2>4, <2>5 DEF Tallies
<1> QED
  BY <1>1, <1>2 DEF HInv

(* The one way health moves: with a model call that ends.                    *)
Recorded(r, g, success) ==
  /\ health' = [health EXCEPT ![ModelOf[r]] = g]
  /\ g \in EndpointHealth /\ g.last_error <= g.total_requests
  /\ Moved(health[ModelOf[r]], g, success)

LEMMA UpdatedFields ==
  ASSUME NEW h \in EndpointHealth, h.last_error <= h.total_requests, NEW success \in BOOLEAN
  PROVE  /\ Updated(h, success) \in EndpointHealth
         /\ Updated(h, success).total_requests = h.total_requests + 1
         /\ Updated(h, success).last_error
              = IF success THEN h.last_error ELSE h.total_requests + 1
         /\ Updated(h, success).last_error <= Updated(h, success).total_requests
<1>1. h.total_requests \in Nat /\ h.last_error \in Nat
  BY DEF EndpointHealth
<1> QED
  BY <1>1 DEF Updated, EndpointHealth

LEMMA HealthAdds ==
  ASSUME IInv, HInv, NEW c \in Call, NEW r \in Awaited(c), NEW success \in BOOLEAN,
         End(c, r, success), NEW g, Recorded(r, g, success)
  PROVE  HInv'
<1> DEFINE n == ModelOf[r]
           s == Result(r, success, TRUE)
           F == AllOutcomes
           H == AllOutcomes'
<1>1. r \in Request /\ n \in Model
  <2>1. call[c].group \in SUBSET Request
    BY CallFields
  <2>2. r \in Request
    BY <2>1 DEF Awaited
  <2> QED
    BY <2>2
<1>2. AddsOutcome(F, H, c, s)
  BY EndAdds
<1>3. s.req = r /\ s.success = success
  BY DEF Result
<1>4. \A m \in Model : Ended(m) = EndedIn(F, m) /\ Ended(m)' = EndedIn(H, m)
  BY EndedNow
<1>5. /\ health' = [health EXCEPT ![n] = g]
      /\ g \in EndpointHealth /\ g.last_error <= g.total_requests
      /\ Moved(health[n], g, success)
  BY DEF Recorded
<1>6. /\ health \in [Model -> EndpointHealth]
      /\ \A m \in Model : health[m].last_error <= health[m].total_requests
  BY DEF HInv, HealthType
<1> HIDE DEF n, s, F, H
<1>7. health'[n] = g /\ \A m \in Model \ {n} : health'[m] = health[m]
  BY <1>1, <1>5, <1>6
<1>8. HealthType'
  <2>1. health' \in [Model -> EndpointHealth]
    BY <1>5, <1>6
  <2>2. \A m \in Model : health'[m].last_error <= health'[m].total_requests
    BY <1>5, <1>6, <1>7
  <2> QED
    BY <2>1, <2>2 DEF HealthType
<1>9. ASSUME NEW m \in Model, m # n PROVE Tallies(health'[m], Ended(m)')
  <2>0. ModelOf[s.req] # m
    BY <1>3, <1>9 DEF n
  <2>1. EndedIn(H, m) = EndedIn(F, m)
    <3>1. /\ <<c, s>> \notin EndedIn(F, m)
          /\ ModelOf[s.req] # m => EndedIn(H, m) = EndedIn(F, m)
      BY <1>2, EndedMore
    <3> QED
      BY <2>0, <3>1
  <2>2. Tallies(health[m], Ended(m))
    BY DEF HInv
  <2>3. health'[m] = health[m] /\ Ended(m)' = Ended(m)
    BY <1>4, <1>7, <1>9, <2>1
  <2> QED
    BY <2>2, <2>3
<1>10. Tallies(health'[n], Ended(n)')
  <2> DEFINE E == EndedIn(F, n)
             p == <<c, s>>
             h == health[n]
  <2>1. p \notin E /\ EndedIn(H, n) = E \union {p}
    BY <1>2, <1>3, EndedMore DEF n
  <2>2. Tallies(h, E)
    BY <1>1, <1>4 DEF HInv
  <2>3. h.total_requests \in Nat
    BY <1>1, <1>6 DEF EndpointHealth
  <2>4. Moved(h, g, p[2].success)
    BY <1>3, <1>5
  <2> HIDE DEF E, p, h
  <2>5. Tallies(g, E \union {p})
    BY <2>1, <2>2, <2>3, <2>4, TallyMore, Zenon
  <2>6. Ended(n)' = E \union {p}
    BY <1>1, <1>4, <2>1
  <2> QED
    BY <1>7, <2>5, <2>6
<1> QED
  BY <1>8, <1>9, <1>10 DEF HInv

LEMMA NextHInv == IInv /\ HInv /\ [Next]_vars => HInv'
<1> SUFFICES ASSUME IInv, HInv, [Next]_vars PROVE HInv'
  OBVIOUS
<1>1. CASE UNCHANGED vars
  <2>1. SameCalled(AllOutcomes, AllOutcomes') /\ UNCHANGED health
    BY <1>1 DEF vars, SameCalled, AllOutcomes
  <2> QED
    BY <2>1, HealthSame
<1>2. ASSUME NEW c \in Call, StartDispatch(c) PROVE HInv'
  BY <1>2, StartKeepsOutcomes, HealthSame DEF StartDispatch
<1>3. ASSUME NEW c \in Call,
             LocalFindsNone(c) \/ LocalCalls(c) \/ RayCalls(c) \/ ReturnResults(c)
      PROVE  HInv'
  <2>1. UNCHANGED health
    BY <1>3 DEF LocalFindsNone, LocalCalls, RayCalls, ReturnResults
  <2> QED
    BY <1>3, <2>1, LoopsKeepOutcomes, KeptOutcomes, HealthSame
<1>4. ASSUME NEW c \in Call, NEW r \in Request,
             ModelReturns(c, r) \/ ModelRaises(c, r) \/ ResultUnbuilt(c, r)
      PROVE  HInv'
  <2> DEFINE h == health[ModelOf[r]]
             once(success) == Updated(h, success)
             twice == Updated(once(TRUE), FALSE)
  <2>1. r \in Awaited(c)
    BY <1>4 DEF ModelReturns, ModelRaises, ResultUnbuilt
  <2>2. /\ health \in [Model -> EndpointHealth] /\ ModelOf[r] \in Model
        /\ h \in EndpointHealth /\ h.last_error <= h.total_requests /\ h.total_requests \in Nat
    BY DEF HInv, HealthType, EndpointHealth
  <2>3. \A success \in BOOLEAN :
          /\ once(success) \in EndpointHealth
          /\ once(success).total_requests = h.total_requests + 1
          /\ once(success).last_error
               = IF success THEN h.last_error ELSE h.total_requests + 1
          /\ once(success).last_error <= once(success).total_requests
    BY <2>2, UpdatedFields, Zenon
  <2>4. /\ twice \in EndpointHealth
        /\ twice.total_requests = once(TRUE).total_requests + 1
        /\ twice.last_error = once(TRUE).total_requests + 1
        /\ twice.last_error <= twice.total_requests
    <3>1. once(TRUE) \in EndpointHealth /\ once(TRUE).last_error <= once(TRUE).total_requests
      BY <2>3
    <3> DEFINE k == once(TRUE)
    <3> HIDE DEF k
    <3> QED
      BY <3>1, UpdatedFields DEF k
  <2> HIDE DEF h, once, twice
  <2>5. ASSUME ModelReturns(c, r) PROVE HInv'
    <3>1. End(c, r, TRUE) /\ health' = [health EXCEPT ![ModelOf[r]] = once(TRUE)]
      BY <2>5 DEF ModelReturns, UpdateHealth, once, h
    <3>2. Moved(h, once(TRUE), TRUE)
      BY <2>3 DEF Moved
    <3>3. Recorded(r, once(TRUE), TRUE)
      BY <2>3, <3>1, <3>2 DEF Recorded, h
    <3> QED
      BY <2>1, <3>1, <3>3, HealthAdds
  <2>6. ASSUME ModelRaises(c, r) PROVE HInv'
    <3>1. End(c, r, FALSE) /\ health' = [health EXCEPT ![ModelOf[r]] = once(FALSE)]
      BY <2>6 DEF ModelRaises, UpdateHealth, once, h
    <3>2. Moved(h, once(FALSE), FALSE)
      BY <2>3 DEF Moved
    <3>3. Recorded(r, once(FALSE), FALSE)
      BY <2>3, <3>1, <3>2 DEF Recorded, h
    <3> QED
      BY <2>1, <3>1, <3>3, HealthAdds
  <2>7. ASSUME ResultUnbuilt(c, r) PROVE HInv'
    <3>1. End(c, r, FALSE) /\ health' = [health EXCEPT ![ModelOf[r]] = twice]
      BY <2>7 DEF ResultUnbuilt, twice, once, h
    <3>2. twice.total_requests = h.total_requests + 2 /\ twice.last_error = twice.total_requests
      <4>1. once(TRUE).total_requests = h.total_requests + 1
        BY <2>3
      <4> DEFINE a == once(TRUE).total_requests
                 t == twice.total_requests
                 l == twice.last_error
      <4>2. h.total_requests \in Nat /\ a = h.total_requests + 1 /\ t = a + 1 /\ l = a + 1
        BY <2>2, <2>4, <4>1, Zenon
      <4> HIDE DEF a, t, l
      <4>3. t = h.total_requests + 2 /\ l = t
        BY <4>2
      <4> QED
        BY <4>3 DEF t, l
    <3>3. Moved(h, twice, FALSE)
      BY <3>2 DEF Moved
    <3>4. Recorded(r, twice, FALSE)
      BY <2>4, <3>1, <3>3 DEF Recorded, h
    <3> QED
      BY <2>1, <3>1, <3>4, HealthAdds
  <2> QED
    BY <1>4, <2>5, <2>6, <2>7
<1> QED
  BY <1>1, <1>2, <1>3, <1>4 DEF Next

LEMMA HInvAlways == Spec => [](IInv /\ HInv)
<1>1. Init => IInv /\ HInv
  BY InitIInv, InitHInv
<1>2. IInv /\ HInv /\ [Next]_vars => (IInv /\ HInv)'
  BY NextIInv, NextHInv
<1> QED
  BY <1>1, <1>2, PTL DEF Spec

-----------------------------------------------------------------------------
(* The theorems.                                                             *)

(* Every variable keeps its type; the local loop has one model call out at   *)
(* most, and an endpoint's last error is one of the requests it counted.     *)
THEOREM TypeCorrect == Spec => []TypeOK
<1>1. ASSUME IInv, HInv PROVE TypeOK
  <2>1. ASSUME NEW c \in Call
        PROVE  /\ call[c].state \in {"none", "running", "returned", "raised"}
               /\ call[c].batch \in Seq(Request)
               /\ call[c].todo \union call[c].group \subseteq Request
               /\ DOMAIN call[c].ended \subseteq call[c].group
               /\ {call[c].results, call[c].thrown} \subseteq Seq(DispatchResult)
               /\ dispatcher = "local" => Cardinality(call[c].group) <= 1
    <3>1. call[c].state \in State
      BY <1>1, CallFields
    <3>2. /\ call[c].batch \in Seq(Request)
          /\ call[c].todo \union call[c].group \subseteq Request
          /\ {call[c].results, call[c].thrown} \subseteq Seq(DispatchResult)
      BY <1>1, CallFields
    <3>3. DOMAIN call[c].ended \subseteq call[c].group
      <4>1. CASE call[c].state = "running"
        BY <1>1, <4>1 DEF IInv, Sound, Running
      <4>2. CASE call[c].state # "running"
        BY <1>1, <4>2, NothingEnded DEF IInv, Sound
      <4> QED
        BY <4>1, <4>2
    <3>4. ASSUME dispatcher = "local" PROVE Cardinality(call[c].group) <= 1
      <4>1. call[c].group = {} \/ \E r \in Request : call[c].group = {r}
        BY <1>1, <3>4 DEF IInv, Sound
      <4>2. Cardinality({}) = 0 /\ \A r \in Request : Cardinality({r}) = 1
        BY FS_EmptySet, FS_Singleton
      <4> QED
        BY <4>1, <4>2
    <3> QED
      BY <3>1, <3>2, <3>3, <3>4 DEF State
  <2> QED
    BY <1>1, <2>1 DEF TypeOK, IInv, HInv, HealthType
<1> QED
  BY <1>1, HInvAlways, PTL

(* However calls overlap and models end, a dispatch() that returns has one   *)
(* result for each request of its batch, in the order of by_model, and only  *)
(* a request whose model was called can have succeeded.                      *)
THEOREM OneResultAlways == Spec => []OneResultEach
<1>1. ASSUME IInv PROVE OneResultEach
  <2>1. ASSUME NEW c \in Call, call[c].state = "returned"
        PROVE  LET results == call[c].results IN
                 /\ {results[i].req : i \in DOMAIN results} = ToSet(call[c].batch)
                 /\ \A i, j \in DOMAIN results :
                      i < j => Before(call[c].batch, results[i].req, results[j].req)
                 /\ \A s \in ToSet(results) :
                      /\ s.called <=> ModelOf[s.req] \in Deployed
                      /\ s.success => s.called /\ s.req \notin Unreadable
    <3> DEFINE R == call[c].results
               b == call[c].batch
    <3>1. Stage(b, R, {})
      BY <1>1, <2>1 DEF IInv, Sound
    <3> HIDE DEF R, b
    <3>2. Reqs(R) = ToSet(b) /\ Ordered(b, R) /\ \A s \in ToSet(R) : Honest(s)
      BY <3>1 DEF Stage
    <3>3. {R[i].req : i \in DOMAIN R} = Reqs(R)
      BY DEF Reqs, ToSet
    <3>4. /\ {R[i].req : i \in DOMAIN R} = ToSet(b)
          /\ \A i, j \in DOMAIN R : i < j => Before(b, R[i].req, R[j].req)
          /\ \A s \in ToSet(R) :
               /\ s.called <=> ModelOf[s.req] \in Deployed
               /\ s.success => s.called /\ s.req \notin Unreadable
      BY <3>2, <3>3 DEF Ordered, Honest
    <3> QED
      BY <3>4 DEF R, b
  <2> QED
    BY <2>1, Zenon DEF OneResultEach
<1> QED
  BY <1>1, IInvAlways, PTL

(* A model that fails never makes dispatch() raise: what does is a request   *)
(* that cannot be rebuilt or an app that is not there, and a batch of one    *)
(* request, the pipeline's, then loses no result.                            *)
THEOREM RaiseAlwaysCaused == Spec => []RaiseIsCaused
<1>1. ASSUME IInv PROVE RaiseIsCaused
  BY <1>1 DEF IInv, Sound, Caused, RaiseIsCaused
<1> QED
  BY <1>1, IInvAlways, PTL

(* EndpointHealth, written apart from the results and in another order,      *)
(* agrees with them: no ended call is missing from total_requests, which is  *)
(* too high by at most the failed ones, and a model has a last_error if and  *)
(* only if one of its requests failed.                                       *)
THEOREM HealthAlwaysCounts == Spec => []HealthCounts
<1>1. ASSUME HInv PROVE HealthCounts
  BY <1>1 DEF HInv, Tallies, Failed, HealthCounts
<1> QED
  BY <1>1, HInvAlways, PTL

===============================================================================
