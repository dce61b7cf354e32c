---------------------------- MODULE SessionProofs ----------------------------
(* Proofs about the conversation of a client with the server, for every      *)
(* number of observations, broken connections, tasks and models.             *)
EXTENDS Session, FilterProofs

USE SessionAssumption

-----------------------------------------------------------------------------
(* The inductive invariant.                                                  *)

Result == [id: Ids, model: Model, asked: Model]

IdsOf(A) == {x.id : x \in A}

Distinct(A) == \A x, y \in A : x.id = y.id => x = y

\* Answer a was sent before answer b; s is the history of the answers sent.
Earlier(s, a, b) == \E i, j \in DOMAIN s : i < j /\ s[i] = a /\ s[j] = b

\* Every x in A was sent before every y in B.
AllEarlier(s, A, B) == \A x \in A, y \in B : Earlier(s, x.id, y.id)

\* A queue of answers, in the order they were sent.
Line(s, q) ==
  /\ q \in Seq(Observation)
  /\ \A i, j \in DOMAIN q : i < j => Earlier(s, q[i].id, q[j].id)

\* What was returned, for each model in the order in which it was sent.
Replies(s, r) ==
  /\ r \in Seq(Result)
  /\ \A i, j \in DOMAIN r : r[i].id = r[j].id => i = j
  /\ \A i, j \in DOMAIN r : i < j /\ r[i].model = r[j].model => Earlier(s, r[i].id, r[j].id)

InLines(b) == UNION {ToIds(b[m]) : m \in Model}

\* The answers s that were sent, on their way (d), in buffers (b) or queues,
\* returned (r) or lost (l): each is in one place, and the socket is behind the
\* buffers, which are behind what was returned for their model.
Flow(s, d, b, r, l) ==
  /\ s \in Seq(Ids) /\ IsInjective(s)
  /\ Line(s, d)
  /\ b \in [Model -> Seq(Observation)]
  /\ \A m \in Model : Line(s, b[m]) /\ \A x \in ToSet(b[m]) : x.model = m
  /\ Replies(s, r) /\ l \subseteq Ids
  /\ \A m \in Model : AllEarlier(s, ToSet(b[m]), ToSet(d))
  /\ AllEarlier(s, ToSet(r), ToSet(d))
  /\ \A z \in ToSet(r) : AllEarlier(s, {z}, ToSet(b[z.model]))
  /\ ToSet(s) = ToIds(d) \union InLines(b) \union ToIds(r) \union l
  /\ l \intersect (ToIds(d) \union InLines(b) \union ToIds(r)) = {}
  /\ InLines(b) \intersect ToIds(r) = {}
  /\ \A m, n \in Model : m # n => ToIds(b[m]) \intersect ToIds(b[n]) = {}

\* The observations that were not answered: under way (u), accepted (t) or with
\* their answer about to be sent (w); n were sent, the answers to s came back.
Upstream(u, t, w, s, n) ==
  /\ n \in 0 .. MaxObs
  /\ u \in Seq(Observation) /\ \A i, j \in DOMAIN u : u[i].id = u[j].id => i = j
  /\ t \subseteq Observation /\ Distinct(t)
  /\ w \subseteq Observation /\ Distinct(w)
  /\ ToIds(u) \intersect (IdsOf(t) \union IdsOf(w) \union ToSet(s)) = {}
  /\ IdsOf(t) \intersect (IdsOf(w) \union ToSet(s)) = {}
  /\ IdsOf(w) \intersect ToSet(s) = {}
  /\ \A i \in ToIds(u) \union IdsOf(t) \union IdsOf(w) \union ToSet(s) : i <= n

\* The tracker's record is of an observation whose dispatch has succeeded; in
\* lockstep only the last observation can be without an answer returned.
Tracked(a, u, t, r, n, lock) ==
  /\ a = NoRecord \/ /\ a \in [id: Ids, state: {"ISSUED", "CONSUMED"}] /\ a.id <= n
                     /\ a.id \notin ToIds(u) \union IdsOf(t)
  /\ lock => \A i \in 1 .. n - 1 : i \in ToIds(r)
  /\ lock /\ a.state = "CONSUMED" => a.id \in ToIds(r)

Buffered ==
  /\ sdk \in {"sync", "async"} => \A i \in DOMAIN returned : returned[i].model = returned[i].asked
  /\ sdk \notin {"sync", "async"} => \A m \in Model : buffers[m] = <<>>

Plain ==
  /\ sdk \in {"sync", "async", "native", "rust_async"}
  /\ connected \in BOOLEAN /\ breaks \in 0..MaxBreaks /\ lockstep \in BOOLEAN
  /\ waiting \in [Task -> {Idle} \union [model: Model, limited: BOOLEAN]]

IInv ==
  /\ Plain
  /\ Flow(sent, down, buffers, returned, lost)
  /\ Upstream(up, todo, sending, sent, observed)
  /\ Tracked(active, up, todo, returned, observed, lockstep)
  /\ Buffered

-----------------------------------------------------------------------------
(* Sequences and their identities.                                           *)

LEMMA ToIdsSet ==
  ASSUME NEW s
  PROVE  ToIds(s) = IdsOf(ToSet(s))
BY DEF ToIds, IdsOf, ToSet

(* The first element and the others.                                         *)
LEMMA TailFacts ==
  ASSUME NEW X, NEW s \in Seq(X), s # <<>>
  PROVE  /\ Head(s) \in X /\ Tail(s) \in Seq(X) /\ Head(s) = s[1] /\ 1 \in DOMAIN s
         /\ \A i \in DOMAIN Tail(s) : i \in Nat /\ i + 1 \in DOMAIN s /\ Tail(s)[i] = s[i + 1]
         /\ ToSet(s) = {Head(s)} \union ToSet(Tail(s))
         /\ Len(Tail(s)) = Len(s) - 1
<1> DEFINE w == Tail(s)
<1>1. DOMAIN s = 1 .. Len(s) /\ Len(s) \in Nat /\ Len(s) # 0
  BY LenProperties, EmptySeq
<1>2. /\ Head(s) \in X /\ w \in Seq(X) /\ Len(w) = Len(s) - 1
      /\ \A i \in 1 .. Len(w) : w[i] = s[i + 1]
  BY HeadTailProperties
<1>3. Head(s) = s[1]
  OBVIOUS
<1> HIDE DEF w
<1>4. DOMAIN w = 1 .. Len(s) - 1
  BY <1>2, LenProperties
<1>5. \A i \in DOMAIN w : i \in Nat /\ i + 1 \in DOMAIN s /\ w[i] = s[i + 1]
  BY <1>1, <1>2, <1>4
<1>6. 1 \in DOMAIN s
  BY <1>1
<1>7. ASSUME NEW i \in DOMAIN s, i # 1 PROVE s[i] \in ToSet(w)
  <2>1. i - 1 \in DOMAIN w /\ (i - 1) + 1 = i
    BY <1>1, <1>4, <1>7
  <2>2. w[i - 1] = s[(i - 1) + 1]
    BY <1>5, <2>1
  <2> QED
    BY <2>1, <2>2 DEF ToSet
<1>8. ToSet(s) = {s[1]} \union ToSet(w)
  <2>1. ToSet(s) \subseteq {s[1]} \union ToSet(w)
    BY <1>7 DEF ToSet
  <2>2. ToSet(w) \subseteq ToSet(s)
    BY <1>5 DEF ToSet
  <2> QED
    BY <1>6, <2>1, <2>2 DEF ToSet
<1> QED
  BY <1>2, <1>3, <1>5, <1>6, <1>8 DEF w

LEMMA TailThins ==
  ASSUME NEW X, NEW s \in Seq(X), s # <<>>
  PROVE  Thins(Tail(s), s)
<1> DEFINE w == Tail(s)
           e == [i \in DOMAIN w |-> i + 1]
<1>1. \A i \in DOMAIN w : i \in Nat /\ i + 1 \in DOMAIN s /\ w[i] = s[i + 1]
  BY TailFacts
<1> HIDE DEF w
<1>2. e \in [DOMAIN w -> DOMAIN s] /\ \A i \in DOMAIN w : e[i] = i + 1
  BY <1>1
<1>3. \A i, j \in DOMAIN w : i < j => e[i] < e[j]
  BY <1>1, <1>2
<1>4. \A i \in DOMAIN w : w[i] = s[e[i]]
  BY <1>1, <1>2
<1> HIDE DEF e
<1>5. Embeds(e, w, s)
  BY <1>2, <1>3, <1>4 DEF Embeds
<1> QED
  BY <1>5 DEF Thins, w

(* One sequence after the other.                                             *)
LEMMA ConcatFacts ==
  ASSUME NEW X, NEW a \in Seq(X), NEW b \in Seq(X)
  PROVE  /\ a \o b \in Seq(X) /\ ToSet(a \o b) = ToSet(a) \union ToSet(b)
         /\ \A i \in DOMAIN (a \o b) :
              \/ i \in DOMAIN a /\ (a \o b)[i] = a[i]
              \/ i > Len(a) /\ i - Len(a) \in DOMAIN b /\ (a \o b)[i] = b[i - Len(a)]
         /\ DOMAIN a = 1 .. Len(a) /\ Len(a) \in Nat
<1> DEFINE c == a \o b
<1>1. /\ DOMAIN a = 1 .. Len(a) /\ Len(a) \in Nat
      /\ DOMAIN b = 1 .. Len(b) /\ Len(b) \in Nat
  BY LenProperties
<1>2. /\ c \in Seq(X) /\ Len(c) = Len(a) + Len(b)
      /\ \A i \in 1 .. Len(a) + Len(b) : c[i] = IF i <= Len(a) THEN a[i] ELSE b[i - Len(a)]
  BY ConcatProperties
<1> HIDE DEF c
<1>3. DOMAIN c = 1 .. Len(a) + Len(b)
  BY <1>2, LenProperties
<1>4. ASSUME NEW i \in DOMAIN c
      PROVE  \/ i \in DOMAIN a /\ c[i] = a[i]
             \/ i > Len(a) /\ i - Len(a) \in DOMAIN b /\ c[i] = b[i - Len(a)]
  <2>1. CASE i <= Len(a)
    BY <1>1, <1>2, <1>3, <2>1
  <2>2. CASE ~ (i <= Len(a))
    <3>1. i > Len(a) /\ i - Len(a) \in 1 .. Len(b)
      BY <1>1, <1>3, <2>2
    <3>2. c[i] = b[i - Len(a)]
      BY <1>2, <1>3, <2>2
    <3> QED
      BY <1>1, <3>1, <3>2
  <2> QED
    BY <2>1, <2>2
<1>5. ASSUME NEW i \in DOMAIN a PROVE a[i] \in ToSet(c)
  <2>1. i \in DOMAIN c /\ i <= Len(a)
    BY <1>1, <1>3
  <2>2. c[i] = a[i]
    BY <1>2, <1>3, <2>1
  <2> QED
    BY <2>1, <2>2 DEF ToSet
<1>6. ASSUME NEW i \in DOMAIN b PROVE b[i] \in ToSet(c)
  <2> DEFINE k == Len(a) + i
  <2>1. k \in DOMAIN c /\ ~ (k <= Len(a)) /\ k - Len(a) = i
    BY <1>1, <1>3
  <2> HIDE DEF k
  <2>2. c[k] = b[i]
    BY <1>2, <1>3, <2>1
  <2> QED
    BY <2>1, <2>2 DEF ToSet
<1>7. ToSet(c) = ToSet(a) \union ToSet(b)
  <2>1. ToSet(c) \subseteq ToSet(a) \union ToSet(b)
    BY <1>4 DEF ToSet
  <2>2. ToSet(a) \subseteq ToSet(c) /\ ToSet(b) \subseteq ToSet(c)
    BY <1>5, <1>6 DEF ToSet
  <2> QED
    BY <2>1, <2>2
<1> QED
  BY <1>1, <1>2, <1>4, <1>7 DEF c

-----------------------------------------------------------------------------
(* Lines.                                                                    *)

LEMMA Irreflexive ==
  ASSUME NEW s \in Seq(Ids), IsInjective(s), NEW a
  PROVE  ~ Earlier(s, a, a)
<1>1. DOMAIN s = 1 .. Len(s) /\ Len(s) \in Nat
  BY LenProperties
<1>2. \A i, j \in DOMAIN s : i < j => i # j
  BY <1>1
<1> QED
  BY <1>2 DEF Earlier, IsInjective

LEMMA LineElements ==
  ASSUME NEW s, NEW q, Line(s, q)
  PROVE  /\ q \in Seq(Observation) /\ ToSet(q) \subseteq Observation
         /\ \A i \in DOMAIN q : i \in Nat
<1>1. q \in Seq(Observation)
  BY DEF Line
<1>2. DOMAIN q = 1 .. Len(q) /\ Len(q) \in Nat /\ \A i \in 1 .. Len(q) : q[i] \in Observation
  BY <1>1, LenProperties, ElementOfSeq
<1> QED
  BY <1>1, <1>2 DEF ToSet

(* In a line an identity occurs once.                                        *)
LEMMA LineDistinct ==
  ASSUME NEW s \in Seq(Ids), IsInjective(s), NEW q, Line(s, q)
  PROVE  /\ \A i, j \in DOMAIN q : q[i].id = q[j].id => i = j
         /\ Distinct(ToSet(q))
<1>1. ASSUME NEW i \in DOMAIN q, NEW j \in DOMAIN q, q[i].id = q[j].id PROVE i = j
  <2>1. ~ (i < j) /\ ~ (j < i)
    BY <1>1, Irreflexive DEF Line
  <2> QED
    BY <2>1, LineElements
<1>2. Distinct(ToSet(q))
  BY <1>1 DEF Distinct, ToSet
<1> QED
  BY <1>1, <1>2

LEMMA LineThins ==
  ASSUME NEW s, NEW q, Line(s, q), NEW w \in Seq(Observation), Thins(w, q)
  PROVE  Line(s, w)
<1>1. PICK e : Embeds(e, w, q)
  BY DEF Thins
<1>2. ASSUME NEW i \in DOMAIN w, NEW j \in DOMAIN w, i < j
      PROVE  Earlier(s, w[i].id, w[j].id)
  <2>1. e[i] \in DOMAIN q /\ e[j] \in DOMAIN q /\ e[i] < e[j] /\ w[i] = q[e[i]] /\ w[j] = q[e[j]]
    BY <1>1, <1>2 DEF Embeds
  <2> QED
    BY <2>1 DEF Line
<1> QED
  BY <1>2 DEF Line

(* The first leaves.                                                         *)
LEMMA LineTail ==
  ASSUME NEW s \in Seq(Ids), IsInjective(s), NEW q, Line(s, q), q # <<>>
  PROVE  /\ Line(s, Tail(q)) /\ Head(q) \in Observation /\ Head(q) \in ToSet(q)
         /\ ToSet(Tail(q)) \subseteq ToSet(q)
         /\ ToIds(q) = {Head(q).id} \union ToIds(Tail(q)) /\ Head(q).id \notin ToIds(Tail(q))
         /\ AllEarlier(s, {Head(q)}, ToSet(Tail(q)))
<1> DEFINE h == Head(q)
           w == Tail(q)
<1>1. q \in Seq(Observation)
  BY DEF Line
<1>2. /\ h \in Observation /\ w \in Seq(Observation) /\ h = q[1] /\ 1 \in DOMAIN q
      /\ \A i \in DOMAIN w : i \in Nat /\ i + 1 \in DOMAIN q /\ w[i] = q[i + 1]
      /\ ToSet(q) = {h} \union ToSet(w)
  BY <1>1, TailFacts
<1>3. Line(s, w)
  BY <1>1, <1>2, TailThins, LineThins
<1> HIDE DEF h, w
<1>4. ASSUME NEW y \in ToSet(w) PROVE Earlier(s, h.id, y.id)
  <2>1. PICK i \in DOMAIN w : y = w[i]
    BY <1>4 DEF ToSet
  <2>2. i \in Nat /\ i + 1 \in DOMAIN q /\ y = q[i + 1]
    BY <1>2, <2>1
  <2>3. 1 \in DOMAIN q /\ \A k \in DOMAIN q : k \in Nat
    BY <1>2, LineElements
  <2>4. 1 < i + 1 \/ i + 1 = 1
    BY <2>2
  <2>5. CASE 1 < i + 1
    <3>1. Earlier(s, q[1].id, q[i + 1].id)
      BY <2>2, <2>3, <2>5 DEF Line
    <3> QED
      BY <1>2, <2>2, <3>1
  <2>6. CASE i + 1 = 1
    <3>1. i = 0
      BY <2>2, <2>6
    <3>2. DOMAIN w = 1 .. Len(w) /\ Len(w) \in Nat
      BY <1>2, LenProperties
    <3> QED
      BY <2>1, <3>1, <3>2
  <2> QED
    BY <2>4, <2>5, <2>6
<1>5. h.id \notin ToIds(w)
  <2>1. \A y \in ToSet(w) : y.id # h.id
    BY <1>4, Irreflexive
  <2> QED
    BY <2>1, ToIdsSet DEF IdsOf
<1>6. ToIds(q) = {h.id} \union ToIds(w)
  BY <1>2, ToIdsSet DEF IdsOf
<1>7. AllEarlier(s, {h}, ToSet(w))
  BY <1>4 DEF AllEarlier
<1> QED
  BY <1>2, <1>3, <1>5, <1>6, <1>7 DEF h, w

(* One joins at the end.                                                     *)
LEMMA LineAppend ==
  ASSUME NEW s, NEW q, Line(s, q), NEW y \in Observation, AllEarlier(s, ToSet(q), {y})
  PROVE  /\ Line(s, Append(q, y)) /\ ToSet(Append(q, y)) = ToSet(q) \union {y}
         /\ ToIds(Append(q, y)) = ToIds(q) \union {y.id}
<1> DEFINE w == Append(q, y)
           n == Len(q) + 1
<1>1. q \in Seq(Observation) /\ \A i \in DOMAIN q : i \in Nat
  BY LineElements
<1>2. /\ w \in Seq(Observation) /\ DOMAIN w = DOMAIN q \union {n} /\ w[n] = y
      /\ \A i \in DOMAIN q : w[i] = q[i] /\ i < n
      /\ ToSet(w) = ToSet(q) \union {y}
  BY <1>1, AppendFacts
<1>3. n \in Nat
  BY <1>1, LenProperties
<1> HIDE DEF w, n
<1>4. ASSUME NEW i \in DOMAIN w, NEW j \in DOMAIN w, i < j
      PROVE  Earlier(s, w[i].id, w[j].id)
  <2>1. i \in DOMAIN q
    <3>1. i # n
      <4>1. CASE j = n
        BY <1>3, <1>4, <4>1
      <4>2. CASE j \in DOMAIN q
        BY <1>1, <1>2, <1>3, <1>4, <4>2
      <4> QED
        BY <1>2, <4>1, <4>2
    <3> QED
      BY <1>2, <3>1
  <2>2. CASE j = n
    BY <1>2, <2>1, <2>2 DEF AllEarlier, ToSet
  <2>3. CASE j \in DOMAIN q
    BY <1>2, <1>4, <2>1, <2>3 DEF Line
  <2> QED
    BY <1>2, <2>2, <2>3
<1>5. ToIds(w) = ToIds(q) \union {y.id}
  BY <1>2, ToIdsSet DEF IdsOf
<1> QED
  BY <1>2, <1>4, <1>5 DEF Line, w

(* One line behind another.                                                  *)
LEMMA LineConcat ==
  ASSUME NEW s, NEW p, NEW q, Line(s, p), Line(s, q), AllEarlier(s, ToSet(p), ToSet(q))
  PROVE  Line(s, p \o q) /\ ToSet(p \o q) = ToSet(p) \union ToSet(q)
<1> DEFINE c == p \o q
           n == Len(p)
<1>1. p \in Seq(Observation) /\ q \in Seq(Observation)
  BY DEF Line
<1>2. /\ c \in Seq(Observation) /\ ToSet(c) = ToSet(p) \union ToSet(q)
      /\ \A i \in DOMAIN c :
           \/ i \in DOMAIN p /\ c[i] = p[i]
           \/ i > n /\ i - n \in DOMAIN q /\ c[i] = q[i - n]
      /\ DOMAIN p = 1 .. n /\ n \in Nat
  BY <1>1, ConcatFacts
<1>3. \A i \in DOMAIN c : i \in Nat
  BY <1>2, LenProperties
<1> HIDE DEF c, n
<1>4. ASSUME NEW i \in DOMAIN c, NEW j \in DOMAIN c, i < j
      PROVE  Earlier(s, c[i].id, c[j].id)
  <2>1. CASE i \in DOMAIN p /\ c[i] = p[i] /\ j \in DOMAIN p /\ c[j] = p[j]
    BY <1>4, <2>1 DEF Line
  <2>2. CASE i \in DOMAIN p /\ c[i] = p[i] /\ j - n \in DOMAIN q /\ c[j] = q[j - n]
    BY <2>2 DEF AllEarlier, ToSet
  <2>3. CASE i > n /\ i - n \in DOMAIN q /\ c[i] = q[i - n]
    <3>1. j > n /\ i - n < j - n /\ ~ (j \in DOMAIN p)
      BY <1>2, <1>3, <1>4, <2>3
    <3>2. j - n \in DOMAIN q /\ c[j] = q[j - n]
      BY <1>2, <3>1
    <3> QED
      BY <2>3, <3>1, <3>2 DEF Line
  <2> QED
    BY <1>2, <2>1, <2>2, <2>3
<1> QED
  BY <1>2, <1>4 DEF Line, c

-----------------------------------------------------------------------------
(* What the operations do to the flow of answers.                            *)

LEMMA EarlierIn ==
  ASSUME NEW s, NEW a, NEW b, Earlier(s, a, b)
  PROVE  a \in ToSet(s) /\ b \in ToSet(s)
BY DEF Earlier, ToSet

LEMMA LaterStill ==
  ASSUME NEW s \in Seq(Ids), NEW o \in Ids
  PROVE  /\ \A a, b : Earlier(s, a, b) => Earlier(Append(s, o), a, b)
         /\ \A a \in ToSet(s) : Earlier(Append(s, o), a, o)
<1> DEFINE t == Append(s, o)
           n == Len(s) + 1
<1>1. /\ DOMAIN t = DOMAIN s \union {n} /\ t[n] = o
      /\ \A i \in DOMAIN s : t[i] = s[i] /\ i < n
  BY AppendFacts
<1> HIDE DEF t, n
<1>2. \A a, b : Earlier(s, a, b) => Earlier(t, a, b)
  BY <1>1 DEF Earlier
<1>3. \A a \in ToSet(s) : Earlier(t, a, o)
  BY <1>1 DEF Earlier, ToSet
<1> QED
  BY <1>2, <1>3 DEF t

LEMMA InjectiveStill ==
  ASSUME NEW X, NEW s \in Seq(X), IsInjective(s), NEW o \in X, o \notin ToSet(s)
  PROVE  IsInjective(Append(s, o))
<1> DEFINE n == Len(s) + 1
           t == Append(s, o)
<1>1. /\ DOMAIN t = DOMAIN s \union {n} /\ t[n] = o
      /\ \A i \in DOMAIN s : t[i] = s[i] /\ i < n
  BY AppendFacts
<1>2. \A i \in DOMAIN s : s[i] # o
  BY DEF ToSet
<1>3. \A i, j \in DOMAIN s : s[i] = s[j] => i = j
  BY DEF IsInjective
<1> HIDE DEF n, t
<1>4. \A i, j \in DOMAIN t : t[i] = t[j] => i = j
  BY <1>1, <1>2, <1>3
<1>5. IsInjective(t)
  BY <1>4 DEF IsInjective
<1> QED
  BY <1>5 DEF t

LEMMA EmptyLine ==
  ASSUME NEW s
  PROVE  ToSet(<<>>) = {} /\ ToIds(<<>>) = {} /\ Line(s, <<>>)
<1>1. <<>> \in Seq(Observation) /\ DOMAIN <<>> = {}
  BY EmptySeq
<1> QED
  BY <1>1 DEF ToSet, ToIds, Line

LEMMA LinesFacts ==
  ASSUME NEW b
  PROVE  /\ \A m \in Model : ToIds(b[m]) \subseteq InLines(b)
         /\ \A i \in InLines(b) : \E m \in Model : i \in ToIds(b[m])
BY DEF InLines

LEMMA ResultModel ==
  ASSUME NEW r \in Seq(Result), NEW z \in ToSet(r)
  PROVE  z \in Result /\ z.model \in Model /\ z.id \in Ids
<1>1. DOMAIN r = 1 .. Len(r) /\ Len(r) \in Nat /\ \A i \in 1 .. Len(r) : r[i] \in Result
  BY LenProperties, ElementOfSeq
<1>2. z \in Result
  BY <1>1 DEF ToSet
<1> QED
  BY <1>2 DEF Result

(* The send of an answer.                                                    *)
LEMMA FlowSend ==
  ASSUME NEW s, NEW d, NEW b, NEW r, NEW l, Flow(s, d, b, r, l),
         NEW o \in Observation, o.id \notin ToSet(s)
  PROVE  /\ Flow(Append(s, o.id), Append(d, o), b, r, l)
         /\ ToSet(Append(s, o.id)) = ToSet(s) \union {o.id}
<1> DEFINE t == Append(s, o.id)
           e == Append(d, o)
<1>1. s \in Seq(Ids) /\ IsInjective(s) /\ o.id \in Ids
  BY DEF Flow, Observation
<1>2. t \in Seq(Ids) /\ IsInjective(t) /\ ToSet(t) = ToSet(s) \union {o.id}
  <2> DEFINE i == o.id
  <2>1. i \in Ids /\ i \notin ToSet(s) /\ t = Append(s, i)
    BY <1>1
  <2> HIDE DEF t, i
  <2>2. Append(s, i) \in Seq(Ids) /\ ToSet(Append(s, i)) = ToSet(s) \union {i}
    BY <1>1, <2>1, AppendFacts
  <2>3. IsInjective(Append(s, i))
    BY <1>1, <2>1, InjectiveStill
  <2> QED
    BY <2>1, <2>2, <2>3 DEF i
<1>3. /\ \A x, y : Earlier(s, x, y) => Earlier(t, x, y)
      /\ \A x \in ToSet(s) : Earlier(t, x, o.id)
  BY <1>1, LaterStill
<1> HIDE DEF t
<1>4. \A q : Line(s, q) => Line(t, q)
  BY <1>3 DEF Line
<1>5. \A A, B : AllEarlier(s, A, B) => AllEarlier(t, A, B)
  BY <1>3 DEF AllEarlier
<1>6. \A A : IdsOf(A) \subseteq ToSet(s) => AllEarlier(t, A, {o})
  BY <1>3 DEF AllEarlier, IdsOf
<1>7. /\ IdsOf(ToSet(d)) \subseteq ToSet(s) /\ IdsOf(ToSet(r)) \subseteq ToSet(s)
      /\ \A m \in Model : IdsOf(ToSet(b[m])) \subseteq ToSet(s)
  BY ToIdsSet DEF Flow, InLines
<1>8. Line(t, d) /\ AllEarlier(t, ToSet(d), {o})
  BY <1>4, <1>6, <1>7 DEF Flow
<1>9. Line(t, e) /\ ToSet(e) = ToSet(d) \union {o} /\ ToIds(e) = ToIds(d) \union {o.id}
  BY <1>8, LineAppend
<1> HIDE DEF e
<1>10. \A A, B, C : AllEarlier(t, A, B) /\ AllEarlier(t, A, C) => AllEarlier(t, A, B \union C)
  BY DEF AllEarlier
<1>11. ASSUME NEW m \in Model PROVE AllEarlier(t, ToSet(b[m]), ToSet(e))
  <2>1. AllEarlier(t, ToSet(b[m]), ToSet(d))
    BY <1>5 DEF Flow
  <2>2. AllEarlier(t, ToSet(b[m]), {o})
    BY <1>6, <1>7
  <2> QED
    BY <1>9, <1>10, <2>1, <2>2
<1>12. AllEarlier(t, ToSet(r), ToSet(e))
  <2>1. AllEarlier(t, ToSet(r), ToSet(d))
    BY <1>5 DEF Flow
  <2>2. AllEarlier(t, ToSet(r), {o})
    BY <1>6, <1>7
  <2> QED
    BY <1>9, <1>10, <2>1, <2>2
<1>13. \A m \in Model : Line(t, b[m]) /\ \A x \in ToSet(b[m]) : x.model = m
  BY <1>4 DEF Flow
<1>14. \A z \in ToSet(r) : AllEarlier(t, {z}, ToSet(b[z.model]))
  BY <1>5 DEF Flow
<1>15. Replies(t, r)
  BY <1>3 DEF Flow, Replies
<1>16. /\ ToSet(t) = ToIds(e) \union InLines(b) \union ToIds(r) \union l
       /\ l \intersect (ToIds(e) \union InLines(b) \union ToIds(r)) = {}
  BY <1>2, <1>9 DEF Flow
<1>17. Flow(t, e, b, r, l)
  BY <1>2, <1>9, <1>11, <1>12, <1>13, <1>14, <1>15, <1>16 DEF Flow
<1> QED
  BY <1>2, <1>17 DEF t, e

(* A connection breaks and some answers under way are lost.                  *)
LEMMA FlowLose ==
  ASSUME NEW s, NEW d, NEW b, NEW r, NEW l, Flow(s, d, b, r, l), NEW D \in SUBSET ToSet(d)
  PROVE  Flow(s, Without(d, D), b, r, l \union IdsOf(D))
<1> DEFINE e == Without(d, D)
           k == l \union IdsOf(D)
<1>1. s \in Seq(Ids) /\ IsInjective(s) /\ Line(s, d) /\ d \in Seq(Observation)
  BY DEF Flow, Line
<1>2. e \in Seq(Observation) /\ ToSet(e) = ToSet(d) \ D /\ Thins(e, d)
  BY <1>1, WithoutFacts
<1> HIDE DEF e
<1>3. Line(s, e)
  BY <1>1, <1>2, LineThins
<1>4. Distinct(ToSet(d)) /\ ToSet(d) \subseteq Observation
  BY <1>1, LineDistinct, LineElements
<1>5. ToIds(e) = ToIds(d) \ IdsOf(D) /\ IdsOf(D) \subseteq ToIds(d)
  BY <1>2, <1>4, ToIdsSet DEF IdsOf, Distinct
<1>6. ToSet(e) \subseteq ToSet(d)
  BY <1>2
<1>7. \A A : AllEarlier(s, A, ToSet(d)) => AllEarlier(s, A, ToSet(e))
  BY <1>6 DEF AllEarlier
<1>8. /\ \A m \in Model : AllEarlier(s, ToSet(b[m]), ToSet(e))
      /\ AllEarlier(s, ToSet(r), ToSet(e))
  BY <1>7 DEF Flow
<1>9. k \subseteq Ids
  BY <1>4 DEF Flow, IdsOf, Observation
<1>10. IdsOf(D) \intersect (InLines(b) \union ToIds(r)) = {}
  <2>1. ASSUME NEW m \in Model, NEW i \in ToIds(b[m]), i \in ToIds(d) PROVE FALSE
    <3>1. PICK x \in ToSet(b[m]) : x.id = i
      BY <2>1, ToIdsSet DEF IdsOf
    <3>2. PICK y \in ToSet(d) : y.id = i
      BY <2>1, ToIdsSet DEF IdsOf
    <3>3. Earlier(s, i, i)
      BY <3>1, <3>2 DEF Flow, AllEarlier
    <3> QED
      BY <1>1, <3>3, Irreflexive
  <2>2. ASSUME NEW i \in ToIds(r), i \in ToIds(d) PROVE FALSE
    <3>1. PICK x \in ToSet(r) : x.id = i
      BY <2>2, ToIdsSet DEF IdsOf
    <3>2. PICK y \in ToSet(d) : y.id = i
      BY <2>2, ToIdsSet DEF IdsOf
    <3>3. Earlier(s, i, i)
      BY <3>1, <3>2 DEF Flow, AllEarlier
    <3> QED
      BY <1>1, <3>3, Irreflexive
  <2> QED
    BY <1>5, <2>1, <2>2 DEF InLines
<1>11. /\ ToSet(s) = ToIds(e) \union InLines(b) \union ToIds(r) \union k
       /\ k \intersect (ToIds(e) \union InLines(b) \union ToIds(r)) = {}
  BY <1>5, <1>10 DEF Flow
<1> HIDE DEF k
<1>12. Flow(s, e, b, r, k)
  BY <1>3, <1>8, <1>9, <1>11 DEF Flow
<1> QED
  BY <1>12 DEF e, k

(* An answer is in one place only.                                           *)
LEMMA FlowApart ==
  ASSUME NEW s, NEW d, NEW b, NEW r, NEW l, Flow(s, d, b, r, l)
  PROVE  ToIds(d) \intersect (InLines(b) \union ToIds(r)) = {}
<1>1. s \in Seq(Ids) /\ IsInjective(s)
  BY DEF Flow
<1>2. ASSUME NEW A, AllEarlier(s, A, ToSet(d)), NEW i \in IdsOf(A), i \in ToIds(d)
      PROVE  FALSE
  <2>1. PICK x \in A : x.id = i
    BY <1>2 DEF IdsOf
  <2>2. PICK y \in ToSet(d) : y.id = i
    BY <1>2, ToIdsSet DEF IdsOf
  <2>3. Earlier(s, i, i)
    BY <1>2, <2>1, <2>2 DEF AllEarlier
  <2> QED
    BY <1>1, <2>3, Irreflexive
<1>3. /\ \A m \in Model : AllEarlier(s, ToSet(b[m]), ToSet(d))
      /\ AllEarlier(s, ToSet(r), ToSet(d))
  BY DEF Flow
<1>4. ASSUME NEW i \in ToIds(d), i \in ToIds(r) PROVE FALSE
  BY <1>2, <1>3, <1>4, ToIdsSet
<1>5. ASSUME NEW i \in ToIds(d), NEW m \in Model, i \in ToIds(b[m]) PROVE FALSE
  BY <1>2, <1>3, <1>5, ToIdsSet
<1> QED
  BY <1>4, <1>5 DEF InLines

(* The reader moves the first answer from the socket to its model's queue.   *)
LEMMA FlowRoute ==
  ASSUME NEW s, NEW d, NEW b, NEW r, NEW l, Flow(s, d, b, r, l), d # <<>>,
         NEW k \in Model, k = Head(d).model,
         NEW c \in [Model -> Seq(Observation)], c[k] = Append(b[k], Head(d)),
         \A m \in Model \ {k} : c[m] = b[m]
  PROVE  Flow(s, Tail(d), c, r, l)
<1> DEFINE h == Head(d)
           e == Tail(d)
<1>1. s \in Seq(Ids) /\ IsInjective(s) /\ Line(s, d) /\ Line(s, b[k])
  BY DEF Flow
<1>2. /\ Line(s, e) /\ h \in Observation /\ h \in ToSet(d) /\ ToSet(e) \subseteq ToSet(d)
      /\ ToIds(d) = {h.id} \union ToIds(e) /\ h.id \notin ToIds(e)
      /\ AllEarlier(s, {h}, ToSet(e))
  BY <1>1, LineTail
<1>3. h.model = k /\ c[k] = Append(b[k], h)
  OBVIOUS
<1> HIDE DEF h, e
<1>4. AllEarlier(s, ToSet(b[k]), {h})
  BY <1>2 DEF Flow, AllEarlier
<1>5. /\ Line(s, c[k]) /\ ToSet(c[k]) = ToSet(b[k]) \union {h}
      /\ ToIds(c[k]) = ToIds(b[k]) \union {h.id}
  BY <1>1, <1>2, <1>3, <1>4, LineAppend
<1>6. /\ h.id \in ToIds(d)
      /\ ToIds(d) \intersect (InLines(b) \union ToIds(r)) = {}
  BY <1>2, FlowApart
<1>7. ASSUME NEW m \in Model
      PROVE  /\ Line(s, c[m]) /\ \A x \in ToSet(c[m]) : x.model = m
             /\ AllEarlier(s, ToSet(c[m]), ToSet(e))
             /\ ToIds(c[m]) \ {h.id} = ToIds(b[m])
             /\ m # k => h.id \notin ToIds(c[m])
  <2>1. /\ Line(s, b[m]) /\ \A x \in ToSet(b[m]) : x.model = m
        /\ AllEarlier(s, ToSet(b[m]), ToSet(d))
        /\ h.id \notin ToIds(b[m])
    BY <1>6 DEF Flow, InLines
  <2>2. AllEarlier(s, ToSet(b[m]), ToSet(e))
    BY <1>2, <2>1 DEF AllEarlier
  <2>3. CASE m = k
    <3>1. AllEarlier(s, ToSet(c[m]), ToSet(e))
      BY <1>2, <1>5, <2>2, <2>3 DEF AllEarlier
    <3> QED
      BY <1>3, <1>5, <2>1, <2>3, <3>1
  <2>4. CASE m # k
    BY <2>1, <2>2, <2>4
  <2> QED
    BY <2>3, <2>4
<1>8. AllEarlier(s, ToSet(r), ToSet(e))
  BY <1>2 DEF Flow, AllEarlier
<1>9. ASSUME NEW z \in ToSet(r) PROVE AllEarlier(s, {z}, ToSet(c[z.model]))
  <2>1. AllEarlier(s, {z}, ToSet(b[z.model])) /\ Earlier(s, z.id, h.id)
    BY <1>2 DEF Flow, AllEarlier
  <2>2. z.model \in Model
    BY ResultModel DEF Flow, Replies
  <2>3. CASE z.model = k
    BY <1>5, <2>1, <2>3 DEF AllEarlier
  <2>4. CASE z.model # k
    BY <2>1, <2>2, <2>4
  <2> QED
    BY <2>3, <2>4
<1>10. InLines(c) = InLines(b) \union {h.id}
  <2>1. InLines(c) \subseteq InLines(b) \union {h.id}
    BY <1>7, LinesFacts
  <2>2. InLines(b) \subseteq InLines(c)
    BY <1>7, LinesFacts
  <2>3. h.id \in InLines(c)
    BY <1>5, LinesFacts
  <2> QED
    BY <2>1, <2>2, <2>3
<1>11. /\ ToSet(s) = ToIds(e) \union InLines(c) \union ToIds(r) \union l
       /\ l \intersect (ToIds(e) \union InLines(c) \union ToIds(r)) = {}
       /\ InLines(c) \intersect ToIds(r) = {}
  BY <1>2, <1>6, <1>10 DEF Flow
<1>12. ASSUME NEW m \in Model, NEW n \in Model, m # n
       PROVE  ToIds(c[m]) \intersect ToIds(c[n]) = {}
  <2>1. ToIds(b[m]) \intersect ToIds(b[n]) = {}
    BY <1>12 DEF Flow
  <2> QED
    BY <1>7, <1>12, <2>1
<1> HIDE DEF Line, AllEarlier
<1>13. Flow(s, e, c, r, l)
  BY <1>2, <1>7, <1>8, <1>9, <1>11, <1>12 DEF Flow
<1> QED
  BY <1>13 DEF e

\* c is what is in the buffers b once the socket d is drained.
Drains(c, b, d) ==
  /\ c \in [Model -> Seq(Observation)]
  /\ \A m \in Model : c[m] = b[m] \o Without(d, {x \in ToSet(d) : x.model # m})

Adds(c, b, d) ==
  \A m \in Model : ToSet(c[m]) = ToSet(b[m]) \union {x \in ToSet(d) : x.model = m}

(* The synchronous client moves every answer from the socket to the buffers. *)
LEMMA FlowDrain ==
  ASSUME NEW s, NEW d, NEW b, NEW r, NEW l, Flow(s, d, b, r, l),
         NEW c, Drains(c, b, d)
  PROVE  Flow(s, <<>>, c, r, l) /\ Adds(c, b, d)
<1>1. /\ s \in Seq(Ids) /\ IsInjective(s) /\ Line(s, d) /\ d \in Seq(Observation)
      /\ ToSet(d) \subseteq Observation /\ Distinct(ToSet(d))
      /\ ToIds(d) \intersect (InLines(b) \union ToIds(r)) = {}
  <2>1. s \in Seq(Ids) /\ IsInjective(s) /\ Line(s, d)
    BY DEF Flow
  <2> QED
    BY <2>1, LineElements, LineDistinct, FlowApart
<1>2. ASSUME NEW m \in Model
      PROVE  /\ Line(s, c[m])
             /\ ToSet(c[m]) = ToSet(b[m]) \union {x \in ToSet(d) : x.model = m}
  <2> DEFINE R == {x \in ToSet(d) : x.model # m}
             q == Without(d, R)
  <2>1. q \in Seq(Observation) /\ ToSet(q) = ToSet(d) \ R /\ Thins(q, d)
    BY <1>1, WithoutFacts
  <2>2. ToSet(q) = {x \in ToSet(d) : x.model = m}
    BY <2>1
  <2> HIDE DEF q
  <2>3. Line(s, q)
    BY <1>1, <2>1, LineThins
  <2>4. Line(s, b[m]) /\ AllEarlier(s, ToSet(b[m]), ToSet(q))
    BY <2>2 DEF Flow, AllEarlier
  <2>5. Line(s, b[m] \o q) /\ ToSet(b[m] \o q) = ToSet(b[m]) \union ToSet(q)
    BY <2>3, <2>4, LineConcat
  <2>6. c[m] = b[m] \o q
    BY DEF q, Drains
  <2> QED
    BY <2>2, <2>5, <2>6
<1>3. \A m \in Model : \A x \in ToSet(c[m]) : x.model = m
  BY <1>2 DEF Flow
<1>4. ToSet(<<>>) = {} /\ ToIds(<<>>) = {} /\ Line(s, <<>>)
  BY EmptyLine
<1>5. /\ \A m \in Model : AllEarlier(s, ToSet(c[m]), ToSet(<<>>))
      /\ AllEarlier(s, ToSet(r), ToSet(<<>>))
  BY <1>4 DEF AllEarlier
<1>6. ASSUME NEW z \in ToSet(r) PROVE AllEarlier(s, {z}, ToSet(c[z.model]))
  <2>1. AllEarlier(s, {z}, ToSet(b[z.model])) /\ AllEarlier(s, {z}, ToSet(d))
    BY DEF Flow, AllEarlier
  <2>2. z.model \in Model
    BY ResultModel DEF Flow, Replies
  <2> QED
    BY <1>2, <2>1, <2>2 DEF AllEarlier
<1>7. \A m \in Model : ToIds(c[m]) = ToIds(b[m]) \union IdsOf({x \in ToSet(d) : x.model = m})
  BY <1>2, ToIdsSet DEF IdsOf
<1>8. /\ \A x \in ToSet(d) : x.model \in Model
      /\ \A m \in Model : IdsOf({x \in ToSet(d) : x.model = m}) \subseteq ToIds(d)
  BY <1>1, ToIdsSet DEF Observation, IdsOf
<1>9. InLines(c) = InLines(b) \union ToIds(d)
  <2>1. ASSUME NEW i \in InLines(c) PROVE i \in InLines(b) \union ToIds(d)
    <3>1. PICK m \in Model : i \in ToIds(c[m])
      BY LinesFacts
    <3>2. ToIds(b[m]) \subseteq InLines(b)
      BY LinesFacts
    <3> QED
      BY <1>7, <1>8, <3>1, <3>2
  <2>2. InLines(b) \subseteq InLines(c)
    BY <1>7, LinesFacts
  <2>3. ASSUME NEW i \in ToIds(d) PROVE i \in InLines(c)
    <3>1. PICK x \in ToSet(d) : x.id = i
      BY ToIdsSet DEF IdsOf
    <3>2. x.model \in Model /\ i \in ToIds(c[x.model])
      BY <1>7, <1>8, <3>1 DEF IdsOf
    <3> QED
      BY <3>2 DEF InLines
  <2> QED
    BY <2>1, <2>2, <2>3
<1>10. /\ ToSet(s) = ToIds(<<>>) \union InLines(c) \union ToIds(r) \union l
       /\ l \intersect (ToIds(<<>>) \union InLines(c) \union ToIds(r)) = {}
       /\ InLines(c) \intersect ToIds(r) = {}
  BY <1>1, <1>4, <1>9 DEF Flow
<1>11. ASSUME NEW m \in Model, NEW n \in Model, m # n
       PROVE  ToIds(c[m]) \intersect ToIds(c[n]) = {}
  <2>1. ToIds(b[m]) \intersect ToIds(b[n]) = {}
    BY <1>11 DEF Flow
  <2>2. IdsOf({x \in ToSet(d) : x.model = m}) \intersect IdsOf({x \in ToSet(d) : x.model = n}) = {}
    BY <1>1, <1>11 DEF IdsOf, Distinct
  <2>3. ToIds(b[m]) \subseteq InLines(b) /\ ToIds(b[n]) \subseteq InLines(b)
    BY DEF InLines
  <2> QED
    BY <1>1, <1>7, <1>8, <2>1, <2>2, <2>3
<1>12. Flow(s, <<>>, c, r, l)
  BY <1>2, <1>3, <1>4, <1>5, <1>6, <1>10, <1>11 DEF Flow, Drains
<1> QED
  BY <1>2, <1>12 DEF Adds

(* A result joins those returned.                                            *)
LastOfModel(s, r, z) == \A x \in ToSet(r) : x.model = z.model => Earlier(s, x.id, z.id)

LEMMA ReturnedStill ==
  ASSUME NEW s, NEW r, Replies(s, r), NEW z \in Result, z.id \notin ToIds(r),
         LastOfModel(s, r, z)
  PROVE  /\ Replies(s, Append(r, z))
         /\ ToSet(Append(r, z)) = ToSet(r) \union {z}
         /\ ToIds(Append(r, z)) = ToIds(r) \union {z.id}
<1> DEFINE n == Len(r) + 1
           t == Append(r, z)
<1>. r \in Seq(Result)
  BY DEF Replies
<1>1. /\ t \in Seq(Result) /\ DOMAIN t = DOMAIN r \union {n} /\ t[n] = z
      /\ \A i \in DOMAIN r : t[i] = r[i] /\ i < n
      /\ ToSet(t) = ToSet(r) \union {z}
  BY AppendFacts
<1>2. n \in Nat /\ \A i \in DOMAIN r : i \in Nat
  BY LenProperties
<1> HIDE DEF n, t
<1>3. \A i \in DOMAIN r : r[i].id # z.id /\ r[i] \in ToSet(r)
  BY ToIdsSet DEF ToSet, IdsOf
<1>4. \A i, j \in DOMAIN t : t[i].id = t[j].id => i = j
  BY <1>1, <1>3 DEF Replies
<1>5. ASSUME NEW i \in DOMAIN t, NEW j \in DOMAIN t, i < j, t[i].model = t[j].model
      PROVE  Earlier(s, t[i].id, t[j].id)
  <2>1. i \in DOMAIN r
    BY <1>1, <1>2, <1>5
  <2>2. CASE j = n
    BY <1>1, <1>3, <1>5, <2>1, <2>2 DEF LastOfModel
  <2>3. CASE j \in DOMAIN r
    BY <1>1, <1>5, <2>1, <2>3 DEF Replies
  <2> QED
    BY <1>1, <2>2, <2>3
<1>6. ToIds(t) = ToIds(r) \union {z.id}
  BY <1>1, ToIdsSet DEF IdsOf
<1>7. Replies(s, t)
  BY <1>1, <1>4, <1>5 DEF Replies
<1> QED
  BY <1>1, <1>6, <1>7 DEF t

\* c is what is in the buffers b once the first answer for model k has left.
Pops(c, b, k) ==
  /\ c \in [Model -> Seq(Observation)] /\ b[k] # <<>> /\ c[k] = Tail(b[k])
  /\ \A m \in Model \ {k} : c[m] = b[m]

\* Result z is of model k and the first in its buffer.
FirstFor(z, b, k) == z \in Result /\ z.id = Head(b[k]).id /\ z.model = k

\* Result z is the first answer of q.
FirstOf(z, q) == z \in Result /\ z.id = Head(q).id /\ z.model = Head(q).model

(* A Python call takes the first answer of its model's buffer.               *)
LEMMA FlowTake ==
  ASSUME NEW s, NEW d, NEW b, NEW r, NEW l, Flow(s, d, b, r, l),
         NEW k \in Model, NEW c, Pops(c, b, k), NEW z, FirstFor(z, b, k)
  PROVE  /\ Flow(s, d, c, Append(r, z), l)
         /\ ToIds(Append(r, z)) = ToIds(r) \union {z.id}
<1> DEFINE t == Append(r, z)
           h == Head(b[k])
<1>1. s \in Seq(Ids) /\ IsInjective(s) /\ Line(s, b[k])
  BY DEF Flow
<1>2. /\ Line(s, c[k]) /\ h \in Observation /\ h \in ToSet(b[k])
      /\ ToSet(c[k]) \subseteq ToSet(b[k])
      /\ ToIds(b[k]) = {h.id} \union ToIds(c[k]) /\ h.id \notin ToIds(c[k])
      /\ AllEarlier(s, {h}, ToSet(c[k]))
  <2> DEFINE q == b[k]
  <2>1. Line(s, q) /\ q # <<>> /\ h = Head(q) /\ c[k] = Tail(q)
    BY <1>1 DEF Pops
  <2> HIDE DEF q, h
  <2>2. /\ Line(s, Tail(q)) /\ Head(q) \in Observation /\ Head(q) \in ToSet(q)
        /\ ToSet(Tail(q)) \subseteq ToSet(q)
        /\ ToIds(q) = {Head(q).id} \union ToIds(Tail(q)) /\ Head(q).id \notin ToIds(Tail(q))
        /\ AllEarlier(s, {Head(q)}, ToSet(Tail(q)))
    BY <1>1, <2>1, LineTail
  <2> QED
    BY <2>1, <2>2 DEF q
<1>3. z.id = h.id /\ z.model = k /\ z \in Result
  BY DEF FirstFor
<1> HIDE DEF h, t
<1> USE DEF Pops
<1>4. /\ z.id \in InLines(b) /\ z.id \notin ToIds(r) /\ z.id \notin ToIds(d) /\ z.id \notin l
      /\ ToIds(d) \intersect InLines(b) = {}
  <2>1. z.id \in InLines(b)
    BY <1>2, <1>3, LinesFacts
  <2>2. ToIds(d) \intersect InLines(b) = {}
    BY FlowApart
  <2> QED
    BY <2>1, <2>2 DEF Flow
<1>5. LastOfModel(s, r, z)
  BY <1>2, <1>3 DEF Flow, AllEarlier, LastOfModel
<1>6. /\ Replies(s, t)
      /\ ToSet(t) = ToSet(r) \union {z} /\ ToIds(t) = ToIds(r) \union {z.id}
  <2>1. Replies(s, r)
    BY DEF Flow
  <2> QED
    BY <1>3, <1>4, <1>5, <2>1, ReturnedStill DEF t
<1>7. ASSUME NEW m \in Model
      PROVE  /\ Line(s, c[m]) /\ \A x \in ToSet(c[m]) : x.model = m
             /\ AllEarlier(s, ToSet(c[m]), ToSet(d))
             /\ ToSet(c[m]) \subseteq ToSet(b[m])
             /\ ToIds(c[m]) = ToIds(b[m]) \ {z.id}
  <2>1. ToSet(c[m]) \subseteq ToSet(b[m])
    BY <1>2
  <2>2. Line(s, c[m])
    BY <1>2 DEF Flow
  <2>3. /\ \A x \in ToSet(b[m]) : x.model = m
        /\ AllEarlier(s, ToSet(b[m]), ToSet(d))
    BY DEF Flow
  <2>4. ToIds(c[m]) = ToIds(b[m]) \ {z.id}
    <3>1. CASE m = k
      BY <1>2, <1>3, <3>1
    <3>2. CASE m # k
      <4>1. ToIds(b[m]) \intersect ToIds(b[k]) = {}
        BY <3>2 DEF Flow
      <4> QED
        BY <1>2, <1>3, <3>2, <4>1
    <3> QED
      BY <3>1, <3>2
  <2> QED
    BY <2>1, <2>2, <2>3, <2>4 DEF AllEarlier
<1>8. AllEarlier(s, ToSet(t), ToSet(d))
  <2>1. \A y \in ToSet(d) : Earlier(s, z.id, y.id)
    BY <1>2, <1>3 DEF Flow, AllEarlier
  <2> QED
    BY <1>6, <2>1 DEF Flow, AllEarlier
<1>9. ASSUME NEW y \in ToSet(t) PROVE AllEarlier(s, {y}, ToSet(c[y.model]))
  <2>1. CASE y = z
    BY <1>2, <1>3, <2>1 DEF AllEarlier
  <2>2. CASE y \in ToSet(r)
    <3>1. AllEarlier(s, {y}, ToSet(b[y.model]))
      BY <2>2 DEF Flow
    <3>2. y.model \in Model
      BY <2>2, ResultModel DEF Flow, Replies
    <3> QED
      BY <1>7, <3>1, <3>2 DEF AllEarlier
  <2> QED
    BY <1>6, <2>1, <2>2
<1>10. InLines(c) = InLines(b) \ {z.id}
  <2>1. ASSUME NEW i \in InLines(c) PROVE i \in InLines(b) \ {z.id}
    <3>1. PICK m \in Model : i \in ToIds(c[m])
      BY LinesFacts
    <3> QED
      BY <1>7, <3>1, LinesFacts
  <2>2. ASSUME NEW i \in InLines(b) \ {z.id} PROVE i \in InLines(c)
    <3>1. PICK m \in Model : i \in ToIds(b[m])
      BY LinesFacts
    <3>2. i \in ToIds(c[m])
      BY <1>7, <3>1
    <3> QED
      BY <3>2, LinesFacts
  <2> QED
    BY <2>1, <2>2
<1>11. /\ ToSet(s) = ToIds(d) \union InLines(c) \union ToIds(t) \union l
       /\ l \intersect (ToIds(d) \union InLines(c) \union ToIds(t)) = {}
       /\ InLines(c) \intersect ToIds(t) = {}
  <2>1. /\ ToSet(s) = ToIds(d) \union InLines(b) \union ToIds(r) \union l
        /\ l \intersect (ToIds(d) \union InLines(b) \union ToIds(r)) = {}
        /\ InLines(b) \intersect ToIds(r) = {}
    BY DEF Flow
  <2> QED
    BY <1>4, <1>6, <1>10, <2>1
<1>12. ASSUME NEW m \in Model, NEW n \in Model, m # n
       PROVE  ToIds(c[m]) \intersect ToIds(c[n]) = {}
  <2>1. ToIds(b[m]) \intersect ToIds(b[n]) = {}
    BY <1>12 DEF Flow
  <2> QED
    BY <1>7, <2>1
<1>13. Flow(s, d, c, t, l)
  BY <1>6, <1>7, <1>8, <1>9, <1>11, <1>12 DEF Flow
<1> QED
  BY <1>6, <1>13 DEF t

(* A Rust or C++ call takes the next answer, and nothing is buffered.        *)
LEMMA FlowNative ==
  ASSUME NEW s, NEW d, NEW b, NEW r, NEW l, Flow(s, d, b, r, l), d # <<>>,
         \A m \in Model : b[m] = <<>>,
         NEW z, FirstOf(z, d)
  PROVE  /\ Flow(s, Tail(d), b, Append(r, z), l)
         /\ ToIds(Append(r, z)) = ToIds(r) \union {z.id}
<1> DEFINE t == Append(r, z)
           h == Head(d)
           e == Tail(d)
<1>1. s \in Seq(Ids) /\ IsInjective(s) /\ Line(s, d)
  BY DEF Flow
<1>2. /\ Line(s, e) /\ h \in ToSet(d) /\ ToSet(e) \subseteq ToSet(d)
      /\ ToIds(d) = {h.id} \union ToIds(e) /\ h.id \notin ToIds(e)
      /\ AllEarlier(s, {h}, ToSet(e))
  BY <1>1, LineTail
<1>3. z.id = h.id /\ z \in Result
  BY DEF FirstOf
<1> HIDE DEF h, e, t
<1>4. /\ z.id \in ToIds(d) /\ z.id \notin ToIds(r) /\ z.id \notin l
  <2>1. z.id \in ToIds(d) /\ ToIds(d) \intersect ToIds(r) = {}
    BY <1>2, <1>3, FlowApart
  <2> QED
    BY <2>1 DEF Flow
<1>5. LastOfModel(s, r, z)
  BY <1>2, <1>3 DEF Flow, AllEarlier, LastOfModel
<1>6. /\ Replies(s, t)
      /\ ToSet(t) = ToSet(r) \union {z} /\ ToIds(t) = ToIds(r) \union {z.id}
  <2>1. Replies(s, r)
    BY DEF Flow
  <2> QED
    BY <1>3, <1>4, <1>5, <2>1, ReturnedStill DEF t
<1>7. \A m \in Model : ToSet(b[m]) = {} /\ ToIds(b[m]) = {} /\ Line(s, b[m])
  BY EmptyLine
<1>8. InLines(b) = {}
  BY <1>7 DEF InLines
<1>9. AllEarlier(s, ToSet(t), ToSet(e))
  BY <1>2, <1>3, <1>6 DEF Flow, AllEarlier
<1>10. \A y \in ToSet(t) : y.model \in Model
  BY <1>6, ResultModel DEF Replies
<1>11. /\ ToSet(s) = ToIds(e) \union InLines(b) \union ToIds(t) \union l
       /\ l \intersect (ToIds(e) \union InLines(b) \union ToIds(t)) = {}
  <2>1. /\ ToSet(s) = ToIds(d) \union InLines(b) \union ToIds(r) \union l
        /\ l \intersect (ToIds(d) \union InLines(b) \union ToIds(r)) = {}
    BY DEF Flow
  <2> QED
    BY <1>2, <1>3, <1>4, <1>6, <2>1
<1>12. /\ \A m \in Model : AllEarlier(s, ToSet(b[m]), ToSet(e))
       /\ \A y \in ToSet(t) : AllEarlier(s, {y}, ToSet(b[y.model]))
  BY <1>7, <1>10 DEF AllEarlier
<1>13. Flow(s, e, b, t, l)
  <2>1. /\ b \in [Model -> Seq(Observation)] /\ l \subseteq Ids
        /\ \A m \in Model : Line(s, b[m]) /\ \A x \in ToSet(b[m]) : x.model = m
    BY DEF Flow
  <2> QED
    BY <1>1, <1>2, <1>6, <1>7, <1>8, <1>9, <1>11, <1>12, <2>1 DEF Flow
<1> QED
  BY <1>6, <1>13 DEF e, t

-----------------------------------------------------------------------------
(* What the operations do to the observations that were not answered.        *)

(* Some observations under way are lost, or leave for recv().                *)
LEMMA UpThins ==
  ASSUME NEW u, NEW t, NEW w, NEW s, NEW n, Upstream(u, t, w, s, n),
         NEW v \in Seq(Observation), Thins(v, u)
  PROVE  Upstream(v, t, w, s, n) /\ ToIds(v) \subseteq ToIds(u)
<1>1. PICK e : Embeds(e, v, u)
  BY DEF Thins
<1>2. \A i \in DOMAIN v : e[i] \in DOMAIN u /\ v[i] = u[e[i]]
  BY <1>1 DEF Embeds
<1>3. ToIds(v) \subseteq ToIds(u)
  BY <1>2 DEF ToIds
<1>4. DOMAIN v = 1 .. Len(v) /\ Len(v) \in Nat
  BY LenProperties
<1>5. DOMAIN u = 1 .. Len(u) /\ Len(u) \in Nat
  BY LenProperties DEF Upstream
<1>6. ASSUME NEW i \in DOMAIN v, NEW j \in DOMAIN v, v[i].id = v[j].id PROVE i = j
  <2>1. e[i] = e[j]
    BY <1>2, <1>6 DEF Upstream
  <2>2. ~ (i < j) /\ ~ (j < i)
    <3>1. (i < j => e[i] < e[j]) /\ (j < i => e[j] < e[i])
      BY <1>1 DEF Embeds
    <3> QED
      BY <1>2, <1>5, <2>1, <3>1
  <2> QED
    BY <1>4, <2>2
<1> QED
  BY <1>3, <1>6 DEF Upstream

(* The observation received first was not received before.                   *)
LEMMA UpHead ==
  ASSUME NEW u, NEW t, NEW w, NEW s, NEW n, Upstream(u, t, w, s, n), u # <<>>
  PROVE  /\ Head(u) \in Observation /\ Head(u).id \in ToIds(u)
         /\ Head(u).id \notin ToIds(Tail(u)) /\ ToIds(Tail(u)) \subseteq ToIds(u)
         /\ Upstream(Tail(u), t, w, s, n)
<1>1. u \in Seq(Observation)
  BY DEF Upstream
<1> DEFINE v == Tail(u)
           h == Head(u)
<1>2. /\ h \in Observation /\ v \in Seq(Observation) /\ h = u[1] /\ 1 \in DOMAIN u
      /\ \A i \in DOMAIN v : i \in Nat /\ i + 1 \in DOMAIN u /\ v[i] = u[i + 1]
      /\ Thins(v, u)
  BY <1>1, TailFacts, TailThins
<1>3. DOMAIN v = 1 .. Len(v) /\ Len(v) \in Nat
  BY <1>2, LenProperties
<1> HIDE DEF v, h
<1>4. Upstream(v, t, w, s, n) /\ ToIds(v) \subseteq ToIds(u)
  BY <1>2, UpThins
<1>5. h.id \in ToIds(u)
  BY <1>2 DEF ToIds
<1>6. ASSUME h.id \in ToIds(v) PROVE FALSE
  <2>1. PICK i \in DOMAIN v : v[i].id = h.id
    BY <1>6 DEF ToIds
  <2>2. i + 1 = 1 /\ i \in 1 .. Len(v)
    BY <1>2, <1>3, <2>1 DEF Upstream
  <2> QED
    BY <1>3, <2>2
<1> QED
  BY <1>2, <1>4, <1>5, <1>6 DEF v, h

(* recv() accepts it.                                                        *)
LEMMA UpReceive ==
  ASSUME NEW u, NEW t, NEW w, NEW s, NEW n, Upstream(u, t, w, s, n), u # <<>>,
         NEW y \in Observation, y.id = Head(u).id
  PROVE  Upstream(Tail(u), t \union {y}, w, s, n)
<1> DEFINE v == Tail(u)
           x == t \union {y}
<1>1. /\ y.id \in ToIds(u) /\ y.id \notin ToIds(v) /\ ToIds(v) \subseteq ToIds(u)
      /\ Upstream(v, t, w, s, n)
  BY UpHead
<1> HIDE DEF v, x
<1>2. x \subseteq Observation /\ IdsOf(x) = IdsOf(t) \union {y.id}
  BY DEF x, IdsOf, Upstream
<1>3. y.id \notin IdsOf(t) \union IdsOf(w) \union ToSet(s)
  BY <1>1 DEF Upstream
<1>4. Distinct(x)
  <2>1. \A z \in t : z.id # y.id
    BY <1>3 DEF IdsOf
  <2> QED
    BY <2>1 DEF Distinct, x, Upstream
<1>5. \A i \in ToIds(v) \union IdsOf(x) \union IdsOf(w) \union ToSet(s) : i <= n
  BY <1>1, <1>2 DEF Upstream
<1> HIDE DEF Distinct
<1>6. Upstream(v, x, w, s, n)
  BY <1>1, <1>2, <1>3, <1>4, <1>5 DEF Upstream
<1> QED
  BY <1>6 DEF v, x

(* It is discarded, or its dispatch has succeeded.                           *)
LEMMA UpSettle ==
  ASSUME NEW u, NEW t, NEW w, NEW s, NEW n, Upstream(u, t, w, s, n), NEW o \in t
  PROVE  /\ Upstream(u, t \ {o}, w, s, n) /\ Upstream(u, t \ {o}, w \union {o}, s, n)
         /\ o.id \in Ids /\ o.id <= n
         /\ o.id \notin ToIds(u) \union IdsOf(t \ {o})
         /\ IdsOf(t \ {o}) \subseteq IdsOf(t)
<1> DEFINE x == t \ {o}
           z == w \union {o}
<1>1. o \in Observation /\ o.id \in Ids /\ o.id \in IdsOf(t)
  BY DEF Upstream, Observation, IdsOf
<1>2. x \subseteq Observation /\ Distinct(x) /\ IdsOf(x) \subseteq IdsOf(t) \ {o.id}
  BY DEF Upstream, Distinct, IdsOf
<1>3. z \subseteq Observation /\ IdsOf(z) = IdsOf(w) \union {o.id}
  BY <1>1 DEF Upstream, IdsOf
<1>4. o.id \notin ToIds(u) \union IdsOf(w) \union ToSet(s) /\ o.id <= n
  BY <1>1 DEF Upstream
<1>5. Distinct(z)
  <2>1. \A y \in w : y.id # o.id
    BY <1>4 DEF IdsOf
  <2> QED
    BY <2>1 DEF Distinct, Upstream
<1> HIDE DEF x, z, Distinct
<1>6. Upstream(u, x, w, s, n)
  BY <1>2 DEF Upstream
<1>7. Upstream(u, x, z, s, n)
  BY <1>2, <1>3, <1>4, <1>5, <1>6 DEF Upstream
<1> QED
  BY <1>1, <1>2, <1>4, <1>6, <1>7 DEF x, z

(* Its answer is sent, or the send raises.                                   *)
LEMMA UpSend ==
  ASSUME NEW u, NEW t, NEW w, NEW s, NEW n, Upstream(u, t, w, s, n), NEW o \in w
  PROVE  /\ Upstream(u, t, w \ {o}, s, n)
         /\ o \in Observation /\ o.id \notin ToSet(s)
         /\ \A p : ToSet(p) = ToSet(s) \union {o.id} => Upstream(u, t, w \ {o}, p, n)
<1> DEFINE z == w \ {o}
<1>1. o \in Observation /\ o.id \in IdsOf(w)
  BY DEF Upstream, IdsOf
<1>2. z \subseteq Observation /\ Distinct(z) /\ IdsOf(z) \subseteq IdsOf(w) \ {o.id}
  BY DEF Upstream, Distinct, IdsOf
<1>3. o.id \notin ToIds(u) \union IdsOf(t) \union ToSet(s) /\ o.id <= n
  BY <1>1 DEF Upstream
<1> HIDE DEF z, Distinct
<1>4. Upstream(u, t, z, s, n)
  BY <1>2 DEF Upstream
<1>5. ASSUME NEW p, ToSet(p) = ToSet(s) \union {o.id} PROVE Upstream(u, t, z, p, n)
  BY <1>2, <1>3, <1>4, <1>5 DEF Upstream
<1> QED
  BY <1>1, <1>3, <1>4, <1>5 DEF z

\* y is the observation sent after n others.
Follows(y, n) == y \in Observation /\ n < MaxObs /\ y.id = n + 1

(* A new observation.                                                        *)
LEMMA UpObserve ==
  ASSUME NEW u, NEW t, NEW w, NEW s \in Seq(Ids), NEW n, Upstream(u, t, w, s, n),
         NEW y, Follows(y, n)
  PROVE  /\ Upstream(Append(u, y), t, w, s, n + 1)
         /\ ToIds(Append(u, y)) = ToIds(u) \union {n + 1}
<1> DEFINE v == Append(u, y)
           k == Len(u) + 1
<1> USE DEF Follows
<1>1. u \in Seq(Observation) /\ n \in Nat /\ n + 1 \in 0 .. MaxObs
  BY DEF Upstream
<1>2. /\ v \in Seq(Observation) /\ DOMAIN v = DOMAIN u \union {k} /\ v[k] = y
      /\ \A i \in DOMAIN u : v[i] = u[i] /\ i < k
      /\ ToSet(v) = ToSet(u) \union {y}
  BY <1>1, AppendFacts
<1> HIDE DEF v, k
<1>3. ToIds(v) = ToIds(u) \union {n + 1}
  BY <1>2, ToIdsSet DEF IdsOf
<1> DEFINE Old == ToIds(u) \union IdsOf(t) \union IdsOf(w) \union ToSet(s)
<1>4. \A i \in Old : i \in Nat /\ i <= n
  <2>1. ToSet(u) \subseteq Observation /\ t \subseteq Observation /\ w \subseteq Observation
    BY <1>1, ElementOfSeq, LenProperties DEF Upstream, ToSet
  <2>2. ToSet(s) \subseteq Ids
    BY ElementOfSeq, LenProperties DEF ToSet
  <2>3. \A z \in Observation : z.id \in Nat
    BY DEF Observation, Ids
  <2>4. ToIds(u) \subseteq Nat /\ IdsOf(t) \subseteq Nat /\ IdsOf(w) \subseteq Nat
    BY <2>1, <2>3, ToIdsSet DEF IdsOf
  <2> QED
    BY <2>2, <2>4 DEF Upstream, Ids
<1>5. n + 1 \notin Old /\ \A i \in Old : i <= n + 1
  BY <1>1, <1>4
<1>6. \A i \in DOMAIN u : u[i].id # n + 1
  BY <1>5 DEF ToIds
<1>7. \A i, j \in DOMAIN v : v[i].id = v[j].id => i = j
  BY <1>2, <1>6 DEF Upstream
<1>8. n + 1 <= n + 1
  BY <1>1
<1>9. Upstream(v, t, w, s, n + 1)
  BY <1>1, <1>2, <1>3, <1>5, <1>7, <1>8 DEF Upstream
<1> QED
  BY <1>3, <1>9 DEF v

-----------------------------------------------------------------------------
(* What the operations do to the tracker's record.                           *)

(* Fewer observations to come, more answers returned.                        *)
LEMMA TrackedStill ==
  ASSUME NEW a, NEW u, NEW t, NEW r, NEW n, NEW k, Tracked(a, u, t, r, n, k),
         NEW v, NEW x, NEW q, ToIds(v) \union IdsOf(x) \subseteq ToIds(u) \union IdsOf(t),
         ToIds(r) \subseteq ToIds(q)
  PROVE  Tracked(a, v, x, q, n, k)
BY DEF Tracked

(* In lockstep the observation that comes is the last one, so the one that   *)
(* the record is of was returned.                                            *)
LEMMA TrackedRequest ==
  ASSUME NEW a, NEW u, NEW t, NEW w, NEW s, NEW r, NEW n, NEW k,
         Upstream(u, t, w, s, n), Tracked(a, u, t, r, n, k), ToIds(r) \subseteq ToSet(s),
         u # <<>>,
         NEW c, c = IF a.state = "ISSUED" THEN [a EXCEPT !.state = "CONSUMED"] ELSE a
  PROVE  Tracked(c, u, t, r, n, k)
<1> DEFINE h == Head(u).id
<1>1. h \in ToIds(u) /\ h \in Ids /\ n \in Nat /\ h <= n /\ h \notin ToSet(s)
  <2>1. Head(u) \in Observation /\ h \in ToIds(u)
    BY UpHead
  <2> QED
    BY <2>1 DEF Upstream, Observation
<1> HIDE DEF h
<1>2. CASE a.state # "ISSUED"
  BY <1>2
<1>3. CASE a.state = "ISSUED"
  <2>1. a # NoRecord
    BY <1>3 DEF NoRecord
  <2>2. /\ a \in [id: Ids, state: {"ISSUED", "CONSUMED"}] /\ a.id <= n
        /\ a.id \notin ToIds(u) \union IdsOf(t)
    BY <2>1 DEF Tracked
  <2>3. /\ c \in [id: Ids, state: {"ISSUED", "CONSUMED"}] /\ c.id = a.id
    BY <1>3, <2>2
  <2>4. ASSUME k PROVE c.id \in ToIds(r)
    <3>1. \A i \in 1 .. n - 1 : i \in ToIds(r)
      BY <2>4 DEF Tracked
    <3>2. h = n
      <4>1. h \notin 1 .. n - 1
        BY <1>1, <3>1
      <4> QED
        BY <1>1, <4>1 DEF Ids
    <3>3. c.id \in 1 .. n - 1
      <4>1. c.id # h /\ c.id \in Ids /\ c.id <= n
        BY <1>1, <2>2, <2>3
      <4> QED
        BY <1>1, <3>2, <4>1 DEF Ids
    <3> QED
      BY <3>1, <3>3
  <2> QED
    BY <2>2, <2>3, <2>4 DEF Tracked
<1> QED
  BY <1>2, <1>3

-----------------------------------------------------------------------------
(* The invariant is inductive.                                               *)

LEMMA InitIInv == Init => IInv
<1> SUFFICES ASSUME Init PROVE IInv
  OBVIOUS
<1> USE DEF Init
<1>1. /\ \A s : ToSet(<<>>) = {} /\ ToIds(<<>>) = {} /\ Line(s, <<>>)
      /\ DOMAIN <<>> = {}
  BY EmptyLine, EmptySeq
<1>2. \A m \in Model : buffers[m] = <<>>
  OBVIOUS
<1>3. InLines(buffers) = {}
  BY <1>1, <1>2 DEF InLines
<1>4. Plain
  BY DEF Plain
<1>5. Flow(sent, down, buffers, returned, lost)
  <2>1. Replies(sent, returned)
    BY <1>1, EmptySeq DEF Replies
  <2>2. sent \in Seq(Ids) /\ IsInjective(sent) /\ buffers \in [Model -> Seq(Observation)]
    BY <1>1, EmptySeq DEF IsInjective
  <2>3. /\ \A m \in Model : AllEarlier(sent, ToSet(buffers[m]), ToSet(down))
        /\ AllEarlier(sent, ToSet(returned), ToSet(down))
        /\ \A z \in ToSet(returned) : AllEarlier(sent, {z}, ToSet(buffers[z.model]))
    BY <1>1 DEF AllEarlier
  <2> QED
    BY <1>1, <1>2, <1>3, <2>1, <2>2, <2>3 DEF Flow
<1>6. Upstream(up, todo, sending, sent, observed)
  BY <1>1, EmptySeq DEF Upstream, IdsOf, Distinct
<1>7. Tracked(active, up, todo, returned, observed, lockstep)
  BY <1>1 DEF Tracked, NoRecord
<1>8. Buffered
  BY <1>1 DEF Buffered
<1> QED
  BY <1>4, <1>5, <1>6, <1>7, <1>8 DEF IInv

(* What a state of the invariant has.                                        *)
LEMMA IInvFacts ==
  ASSUME IInv
  PROVE  /\ ToIds(returned) \subseteq ToSet(sent) /\ sent \in Seq(Ids)
         /\ Identity \in 0 .. MaxBreaks
         /\ up \in Seq(Observation) /\ observed \in 0 .. MaxObs
         /\ \A t \in Task : waiting[t] # Idle =>
              waiting[t].model \in Model /\ waiting[t].limited \in BOOLEAN
         /\ DOMAIN waiting = Task
<1>1. ToIds(returned) \subseteq ToSet(sent) /\ sent \in Seq(Ids)
  BY DEF IInv, Flow
<1>2. Identity \in 0 .. MaxBreaks
  BY DEF IInv, Plain, Identity
<1>3. up \in Seq(Observation) /\ observed \in 0 .. MaxObs
  BY DEF IInv, Upstream
<1>4. \A t \in Task : waiting[t] # Idle =>
        waiting[t].model \in Model /\ waiting[t].limited \in BOOLEAN
  BY DEF IInv, Plain
<1> QED
  BY <1>1, <1>2, <1>3, <1>4 DEF IInv, Plain

LEMMA NextBreaks ==
  ASSUME IInv, Breaks
  PROVE  IInv'
<1>1. PICK U \in SUBSET ToSet(up), D \in SUBSET ToSet(down) :
        /\ up' = Without(up, U)
        /\ down' = Without(down, D)
        /\ lost' = lost \union IdsOf(D)
  BY DEF Breaks, IdsOf
<1>2. /\ breaks' = breaks + 1 /\ breaks < MaxBreaks /\ connected' = FALSE
      /\ UNCHANGED <<sdk, observed, server, buffers, waiting, sent, returned, lockstep>>
  BY DEF Breaks
<1> USE DEF server
<1>3. Flow(sent, down', buffers, returned, lost')
  BY <1>1, FlowLose DEF IInv
<1>4. Upstream(up', todo, sending, sent, observed) /\ ToIds(up') \subseteq ToIds(up)
  <2>1. up' \in Seq(Observation) /\ Thins(up', up)
    BY <1>1, IInvFacts, WithoutFacts
  <2> QED
    BY <2>1, UpThins DEF IInv
<1>5. Tracked(active, up', todo, returned, observed, lockstep)
  BY <1>4, TrackedStill DEF IInv
<1>6. breaks' \in 0 .. MaxBreaks
  BY <1>2 DEF IInv, Plain
<1>7. Plain'
  BY <1>2, <1>6 DEF IInv, Plain
<1>8. Buffered'
  BY <1>2 DEF IInv, Buffered
<1> QED
  BY <1>2, <1>3, <1>4, <1>5, <1>7, <1>8 DEF IInv

LEMMA NextReceive ==
  ASSUME IInv, Receive
  PROVE  IInv'
<1>1. /\ up # <<>> /\ up' = Tail(up)
      /\ UNCHANGED <<sdk, connected, breaks, observed, sending, down, buffers, waiting, history>>
  BY DEF Receive
<1> USE DEF history
<1>2. /\ Upstream(up, todo, sending, sent, observed)
      /\ Tracked(active, up, todo, returned, observed, lockstep)
  BY DEF IInv
<1>3. /\ Head(up) \in Observation /\ Head(up).id \in ToIds(up)
      /\ ToIds(Tail(up)) \subseteq ToIds(up)
      /\ Upstream(Tail(up), todo, sending, sent, observed)
  BY <1>1, <1>2, UpHead
<1>4. OnRequest => Tracked(active', up, todo, returned, observed, lockstep)
  BY <1>1, <1>2, IInvFacts, TrackedRequest DEF OnRequest
<1>5. CASE /\ OnRequest
           /\ \E n \in Head(up).identity..Identity :
                todo' = todo \union {[Head(up) EXCEPT !.identity = n]}
  <2>1. PICK n \in Head(up).identity..Identity :
          todo' = todo \union {[Head(up) EXCEPT !.identity = n]}
    BY <1>5
  <2> DEFINE y == [Head(up) EXCEPT !.identity = n]
  <2>2. n \in 0 .. MaxBreaks
    BY <1>3, IInvFacts DEF Observation
  <2>3. y \in Observation /\ y.id = Head(up).id
    BY <1>3, <2>2 DEF Observation
  <2>4. todo' = todo \union {y}
    BY <2>1
  <2> HIDE DEF y
  <2>5. Upstream(up', todo', sending, sent, observed)
    BY <1>1, <1>2, <2>3, <2>4, UpReceive
  <2>6. ToIds(up') \union IdsOf(todo') \subseteq ToIds(up) \union IdsOf(todo)
    BY <1>1, <1>3, <2>3, <2>4 DEF IdsOf
  <2>7. Tracked(active', up', todo', returned, observed, lockstep)
    BY <1>4, <1>5, <2>6, TrackedStill
  <2> QED
    BY <1>1, <2>5, <2>7 DEF IInv, Plain, Buffered
<1>6. CASE (OnRequest \/ UNCHANGED active) /\ UNCHANGED todo
  <2>1. Tracked(active', up, todo, returned, observed, lockstep)
    BY <1>2, <1>4, <1>6
  <2>2. Tracked(active', up', todo, returned, observed, lockstep)
    BY <1>1, <1>3, <2>1, TrackedStill
  <2> QED
    BY <1>1, <1>3, <1>6, <2>2 DEF IInv, Plain, Buffered
<1> QED
  BY <1>5, <1>6 DEF Receive

LEMMA NextServer ==
  ASSUME IInv, NEW o,
         \/ Discard(o) \/ DispatchSucceeds(o) \/ Send(o)
  PROVE  IInv'
<1> USE DEF history
<1>1. /\ Upstream(up, todo, sending, sent, observed)
      /\ Tracked(active, up, todo, returned, observed, lockstep)
      /\ Flow(sent, down, buffers, returned, lost)
  BY DEF IInv
<1>2. CASE Discard(o)
  <2>1. /\ o \in todo /\ todo' = todo \ {o}
        /\ UNCHANGED <<sdk, connected, breaks, observed, up, active, sending, down, buffers,
                      waiting, history>>
    BY <1>2 DEF Discard
  <2>2. Upstream(up, todo', sending, sent, observed) /\ IdsOf(todo') \subseteq IdsOf(todo)
    BY <1>1, <2>1, UpSettle
  <2>3. Tracked(active, up, todo', returned, observed, lockstep)
    BY <1>1, <2>2, TrackedStill
  <2> QED
    BY <2>1, <2>2, <2>3 DEF IInv, Plain, Buffered
<1>3. CASE DispatchSucceeds(o)
  <2>1. /\ o \in todo /\ todo' = todo \ {o} /\ sending' = sending \union {o}
        /\ active' = [id |-> o.id, state |-> "ISSUED"]
        /\ UNCHANGED <<sdk, connected, breaks, observed, up, down, buffers, waiting, history>>
    BY <1>3 DEF DispatchSucceeds, OnResponseSent
  <2>2. /\ Upstream(up, todo', sending', sent, observed)
        /\ o.id \in Ids /\ o.id <= observed
        /\ o.id \notin ToIds(up) \union IdsOf(todo')
    BY <1>1, <2>1, UpSettle
  <2>3. /\ active' \in [id: Ids, state: {"ISSUED", "CONSUMED"}]
        /\ active'.id = o.id /\ active'.state # "CONSUMED"
    BY <2>1, <2>2
  <2>4. Tracked(active', up, todo', returned, observed, lockstep)
    BY <1>1, <2>2, <2>3 DEF Tracked
  <2> QED
    BY <2>1, <2>2, <2>4 DEF IInv, Plain, Buffered
<1>4. CASE Send(o)
  <2>1. /\ o \in sending /\ sending' = sending \ {o}
        /\ \/ down' = Append(down, o) /\ sent' = Append(sent, o.id)
           \/ UNCHANGED <<down, sent>>
        /\ UNCHANGED <<sdk, connected, breaks, observed, up, todo, active, buffers, waiting,
                      returned, lost, lockstep>>
    BY <1>4 DEF Send
  <2>2. /\ Upstream(up, todo, sending', sent, observed)
        /\ o \in Observation /\ o.id \notin ToSet(sent)
        /\ \A p : ToSet(p) = ToSet(sent) \union {o.id} =>
              Upstream(up, todo, sending', p, observed)
    BY <1>1, <2>1, UpSend
  <2>3. CASE UNCHANGED <<down, sent>>
    BY <2>1, <2>2, <2>3 DEF IInv, Plain, Buffered
  <2>4. CASE down' = Append(down, o) /\ sent' = Append(sent, o.id)
    <3>1. /\ Flow(sent', down', buffers, returned, lost)
          /\ ToSet(sent') = ToSet(sent) \union {o.id}
      BY <1>1, <2>2, <2>4, FlowSend
    <3>2. Upstream(up, todo, sending', sent', observed)
      BY <2>2, <3>1
    <3> QED
      BY <2>1, <3>1, <3>2 DEF IInv, Plain, Buffered
  <2> QED
    BY <2>1, <2>3, <2>4
<1> QED
  BY <1>2, <1>3, <1>4

LEMMA NextObserve ==
  ASSUME IInv, NEW m \in Model, Observe(m)
  PROVE  IInv'
<1> DEFINE y == [id |-> observed + 1, model |-> m, identity |-> Identity]
<1> USE DEF server
<1>1. /\ observed < MaxObs /\ observed' = observed + 1 /\ up' = Append(up, y)
      /\ lockstep' = (lockstep /\ \A i \in 1..observed : i \in ToIds(returned))
      /\ UNCHANGED <<sdk, connected, breaks, server, down, buffers, waiting, sent, returned, lost>>
  BY DEF Observe
<1>2. y \in Observation /\ y.id = observed + 1 /\ observed \in Nat
  BY <1>1, IInvFacts DEF Observation, Ids
<1> HIDE DEF y
<1>3. Upstream(up, todo, sending, sent, observed) /\ sent \in Seq(Ids)
  BY IInvFacts DEF IInv
<1>4. /\ Upstream(up', todo, sending, sent, observed')
      /\ ToIds(up') = ToIds(up) \union {observed + 1}
  <2>1. Follows(y, observed)
    BY <1>1, <1>2 DEF Follows
  <2>2. /\ Upstream(Append(up, y), todo, sending, sent, observed + 1)
        /\ ToIds(Append(up, y)) = ToIds(up) \union {observed + 1}
    BY <1>3, <2>1, UpObserve
  <2> QED
    BY <1>1, <2>2
<1>5. Tracked(active, up', todo, returned, observed', lockstep')
  <2>1. Tracked(active, up, todo, returned, observed, lockstep)
    BY DEF IInv
  <2>2. observed' - 1 = observed
    BY <1>1, <1>2
  <2>3. lockstep' => lockstep /\ \A i \in 1 .. observed' - 1 : i \in ToIds(returned)
    BY <1>1, <2>2
  <2>4. CASE active = NoRecord
    BY <2>3, <2>4 DEF Tracked, NoRecord
  <2>5. CASE active # NoRecord
    <3>1. /\ active \in [id: Ids, state: {"ISSUED", "CONSUMED"}] /\ active.id <= observed
          /\ active.id \notin ToIds(up) \union IdsOf(todo)
      BY <2>1, <2>5 DEF Tracked
    <3>2. active.id # observed + 1 /\ active.id <= observed'
      <4>1. active.id \in Nat
        BY <3>1 DEF Ids
      <4> QED
        BY <1>1, <1>2, <3>1, <4>1
    <3> QED
      BY <1>4, <2>1, <2>3, <3>1, <3>2 DEF Tracked
  <2> QED
    BY <2>4, <2>5
<1>6. lockstep' \in BOOLEAN
  BY <1>1 DEF IInv, Plain
<1> QED
  BY <1>1, <1>4, <1>5, <1>6 DEF IInv, Plain, Buffered

(* Returns: the call of a task t ends with answer o.                         *)
LEMMA TaskIdle ==
  ASSUME IInv, NEW t \in Task, waiting' = [waiting EXCEPT ![t] = Idle]
  PROVE  waiting' \in [Task -> {Idle} \union [model: Model, limited: BOOLEAN]]
BY DEF IInv, Plain

LEMMA BufferedStill ==
  ASSUME IInv, NEW z \in Result, returned' = Append(returned, z), sdk' = sdk,
         sdk \in {"sync", "async"} => z.model = z.asked,
         sdk \notin {"sync", "async"} => buffers' = buffers
  PROVE  Buffered'
<1> DEFINE n == Len(returned) + 1
           t == Append(returned, z)
<1>1. returned \in Seq(Result)
  BY DEF IInv, Flow, Replies
<1>2. /\ DOMAIN t = DOMAIN returned \union {n} /\ t[n] = z
      /\ \A i \in DOMAIN returned : t[i] = returned[i]
  BY <1>1, AppendFacts
<1>3. returned' = t
  OBVIOUS
<1> HIDE DEF n, t
<1>4. sdk \in {"sync", "async"} => \A i \in DOMAIN t : t[i].model = t[i].asked
  BY <1>2 DEF IInv, Buffered
<1>5. sdk \notin {"sync", "async"} => \A m \in Model : buffers'[m] = <<>>
  BY DEF IInv, Buffered
<1> QED
  BY <1>3, <1>4, <1>5 DEF Buffered

(* The parts that a step of the client leaves alone.                         *)
LEMMA ClientStep ==
  ASSUME IInv, Flow(sent, down', buffers', returned', lost), Buffered',
         ToIds(returned) \subseteq ToIds(returned'),
         waiting' \in [Task -> {Idle} \union [model: Model, limited: BOOLEAN]],
         UNCHANGED <<sdk, connected, breaks, observed, up, server, sent, lost, lockstep>>
  PROVE  IInv'
<1>1. Tracked(active, up, todo, returned', observed, lockstep)
  BY TrackedStill DEF IInv
<1> QED
  BY <1>1 DEF IInv, Plain, server

LEMMA NextTimes ==
  ASSUME IInv, NEW t \in Task, NEW m \in Model,
         Reconnects \/ GetResult(t, m) \/ TimesOut(t)
  PROVE  IInv'
<1> USE DEF server, history
<1>1. CASE Reconnects
  BY <1>1 DEF Reconnects, IInv, Plain, Buffered
<1>2. /\ Flow(sent, down, buffers, returned, lost) /\ Buffered
      /\ waiting \in [Task -> {Idle} \union [model: Model, limited: BOOLEAN]]
  BY DEF IInv, Plain
<1>3. CASE GetResult(t, m)
  <2>1. PICK l \in BOOLEAN : waiting' = [waiting EXCEPT ![t] = [model |-> m, limited |-> l]]
    BY <1>3 DEF GetResult
  <2>2. waiting' \in [Task -> {Idle} \union [model: Model, limited: BOOLEAN]]
    BY <1>2, <2>1
  <2>3. UNCHANGED <<sdk, connected, breaks, observed, up, server, down, buffers, history>>
    BY <1>3 DEF GetResult
  <2> QED
    BY <1>2, <2>2, <2>3, ClientStep DEF Buffered
<1>4. CASE TimesOut(t)
  <2>1. /\ waiting' = [waiting EXCEPT ![t] = Idle]
        /\ UNCHANGED <<sdk, connected, breaks, observed, up, server, down, buffers, history>>
    BY <1>4 DEF TimesOut, ReturnsNone
  <2> QED
    BY <1>2, <2>1, TaskIdle, ClientStep DEF Buffered
<1> QED
  BY <1>1, <1>3, <1>4

LEMMA NextRoutes ==
  ASSUME IInv, ReaderRoutes
  PROVE  IInv'
<1> USE DEF server, history
<1> DEFINE h == Head(down)
           k == h.model
<1>1. /\ sdk = "async" /\ down # <<>>
      /\ buffers' = [buffers EXCEPT ![k] = Append(@, h)]
      /\ down' = Tail(down)
      /\ UNCHANGED <<sdk, connected, breaks, observed, up, server, waiting, history>>
  BY DEF ReaderRoutes
<1>2. Flow(sent, down, buffers, returned, lost) /\ Line(sent, down)
      /\ sent \in Seq(Ids) /\ IsInjective(sent)
      /\ buffers \in [Model -> Seq(Observation)]
  BY DEF IInv, Flow
<1>3. h \in Observation
  BY <1>1, <1>2, LineTail
<1>4. k \in Model /\ buffers[k] \in Seq(Observation)
  BY <1>2, <1>3 DEF Observation
<1>5. k = Head(down).model /\ h = Head(down)
  OBVIOUS
<1> HIDE DEF h, k
<1>6. /\ buffers' \in [Model -> Seq(Observation)]
      /\ buffers'[k] = Append(buffers[k], h)
      /\ \A m \in Model \ {k} : buffers'[m] = buffers[m]
  <2>1. Append(buffers[k], h) \in Seq(Observation)
    BY <1>3, <1>4, AppendFacts
  <2> QED
    BY <1>1, <1>2, <1>4, <2>1
<1>7. Flow(sent, Tail(down), buffers', returned, lost)
  BY <1>1, <1>2, <1>4, <1>5, <1>6, FlowRoute
<1>8. Buffered'
  BY <1>1 DEF IInv, Buffered
<1> QED
  BY <1>1, <1>7, <1>8, ClientStep DEF IInv, Plain

(* A Python call takes the first of the answers c that are buffered.         *)
LEMMA NextTakes ==
  ASSUME IInv, NEW t \in Task, waiting[t] # Idle, sdk \in {"sync", "async"},
         NEW k, k = waiting[t].model,
         NEW c \in [Model -> Seq(Observation)], Flow(sent, down', c, returned, lost),
         c[k] # <<>>,
         Returns(t, Head(c[k])),
         buffers' = [c EXCEPT ![k] = Tail(@)],
         UNCHANGED <<sdk, connected, breaks, observed, up, server, sent, lost, lockstep>>
  PROVE  IInv'
<1> DEFINE h == Head(c[k])
           z == [id |-> h.id, model |-> h.model, asked |-> k]
<1>1. k \in Model /\ Line(sent, c[k]) /\ sent \in Seq(Ids) /\ IsInjective(sent)
  BY IInvFacts DEF Flow
<1>2. h \in Observation /\ h \in ToSet(c[k])
  <2> DEFINE q == c[k]
  <2>1. Line(sent, q) /\ q # <<>> /\ h = Head(q)
    BY <1>1
  <2> HIDE DEF q, h
  <2>2. Head(q) \in Observation /\ Head(q) \in ToSet(q)
    BY <1>1, <2>1, LineTail
  <2> QED
    BY <2>1, <2>2 DEF q
<1>3. h.model = k /\ z \in Result
  <2>1. h.model = k
    BY <1>1, <1>2 DEF Flow
  <2> QED
    BY <1>1, <1>2, <2>1 DEF Result, Observation
<1>4. FirstFor(z, c, k) /\ z.model = k /\ z.asked = k
  BY <1>3 DEF FirstFor
<1>5. returned' = Append(returned, z) /\ waiting' = [waiting EXCEPT ![t] = Idle]
  BY DEF Returns
<1> HIDE DEF z, h
<1>6. Pops(buffers', c, k)
  <2> DEFINE q == c[k]
  <2>1. q \in Seq(Observation) /\ q # <<>>
    BY <1>1
  <2> HIDE DEF q
  <2>2. Tail(q) \in Seq(Observation)
    BY <2>1, HeadTailProperties
  <2> QED
    BY <1>1, <2>2 DEF q, Pops
<1>7. Flow(sent, down', buffers', returned', lost) /\ ToIds(returned') = ToIds(returned) \union {z.id}
  BY <1>1, <1>4, <1>5, <1>6, FlowTake
<1>8. Buffered'
  BY <1>3, <1>4, <1>5, BufferedStill
<1> QED
  BY <1>5, <1>7, <1>8, TaskIdle, ClientStep

LEMMA DrainedFlow ==
  ASSUME IInv
  PROVE  /\ Drained \in [Model -> Seq(Observation)]
         /\ Flow(sent, <<>>, Drained, returned, lost)
         /\ Adds(Drained, buffers, down)
<1>1. /\ Flow(sent, down, buffers, returned, lost) /\ down \in Seq(Observation)
      /\ buffers \in [Model -> Seq(Observation)]
  BY DEF IInv, Flow, Line
<1> DEFINE c == Drained
<1>2. ASSUME NEW m \in Model
      PROVE  c[m] = buffers[m] \o Without(down, {x \in ToSet(down) : x.model # m})
  BY DEF Drained, OfOthers
<1>3. ASSUME NEW m \in Model PROVE c[m] \in Seq(Observation)
  <2> DEFINE q == Without(down, {x \in ToSet(down) : x.model # m})
  <2>1. q \in Seq(Observation)
    BY <1>1, WithoutFacts
  <2>2. c[m] = buffers[m] \o q
    BY <1>2
  <2> HIDE DEF q, c
  <2>3. buffers[m] \in Seq(Observation)
    BY <1>1
  <2> QED
    BY <2>1, <2>2, <2>3, ConcatProperties
<1>4. c \in [Model -> Seq(Observation)]
  <2>1. c = [m \in Model |-> c[m]]
    BY DEF Drained
  <2> HIDE DEF c
  <2> QED
    BY <1>3, <2>1
<1> HIDE DEF c
<1>5. Drains(c, buffers, down)
  BY <1>2, <1>4 DEF Drains
<1>6. Flow(sent, <<>>, c, returned, lost) /\ Adds(c, buffers, down)
  BY <1>1, <1>5, FlowDrain
<1> QED
  BY <1>4, <1>6 DEF c

LEMMA NextPass ==
  ASSUME IInv, NEW t \in Task, SyncPass(t)
  PROVE  IInv'
<1> DEFINE k == waiting[t].model
           c == Drained
<1>1. /\ sdk = "sync" /\ waiting[t] # Idle /\ down' = <<>>
      /\ UNCHANGED <<sdk, connected, breaks, observed, up, server, sent, lost, lockstep>>
      /\ \/ /\ c[k] # <<>>
            /\ Returns(t, Head(c[k]))
            /\ buffers' = [c EXCEPT ![k] = Tail(@)]
         \/ /\ buffers' = c
            /\ ReturnsNone(t) \/ UNCHANGED waiting
            /\ UNCHANGED returned
  BY DEF SyncPass
<1>2. c \in [Model -> Seq(Observation)] /\ Flow(sent, down', c, returned, lost)
  BY <1>1, DrainedFlow
<1>3. k = waiting[t].model
  OBVIOUS
<1> HIDE DEF c, k
<1>4. CASE /\ c[k] # <<>>
           /\ Returns(t, Head(c[k]))
           /\ buffers' = [c EXCEPT ![k] = Tail(@)]
  BY <1>1, <1>2, <1>3, <1>4, NextTakes
<1>5. CASE /\ buffers' = c
           /\ ReturnsNone(t) \/ UNCHANGED waiting
           /\ UNCHANGED returned
  <2>1. waiting' \in [Task -> {Idle} \union [model: Model, limited: BOOLEAN]]
    BY <1>5, TaskIdle DEF ReturnsNone, IInv, Plain
  <2>2. Buffered'
    BY <1>1, <1>5 DEF IInv, Buffered
  <2> QED
    BY <1>1, <1>2, <1>5, <2>1, <2>2, ClientStep
<1> QED
  BY <1>1, <1>4, <1>5

LEMMA NextCalls ==
  ASSUME IInv, NEW t \in Task, AsyncTakes(t) \/ NativeTakes(t)
  PROVE  IInv'
<1> DEFINE k == waiting[t].model
<1>1. /\ Flow(sent, down, buffers, returned, lost) /\ Line(sent, down)
      /\ buffers \in [Model -> Seq(Observation)]
      /\ sent \in Seq(Ids) /\ IsInjective(sent)
  BY DEF IInv, Flow
<1>2. CASE AsyncTakes(t)
  <2>1. /\ sdk = "async" /\ waiting[t] # Idle /\ buffers[k] # <<>>
        /\ Returns(t, Head(buffers[k]))
        /\ buffers' = [buffers EXCEPT ![k] = Tail(@)]
        /\ UNCHANGED <<sdk, connected, breaks, observed, up, server, down, sent, lost, lockstep>>
    BY <1>2 DEF AsyncTakes
  <2>2. Flow(sent, down', buffers, returned, lost)
    BY <1>1, <2>1
  <2>3. k = waiting[t].model
    OBVIOUS
  <2> HIDE DEF k
  <2> QED
    BY <1>1, <2>1, <2>2, <2>3, NextTakes
<1>3. CASE NativeTakes(t)
  <2> DEFINE h == Head(down)
             z == [id |-> h.id, model |-> h.model, asked |-> k]
  <2>1. /\ sdk \in {"native", "rust_async"} /\ waiting[t] # Idle /\ down # <<>>
        /\ returned' = Append(returned, z) /\ waiting' = [waiting EXCEPT ![t] = Idle]
        /\ down' = Tail(down)
        /\ UNCHANGED <<sdk, connected, breaks, observed, up, server, buffers, sent, lost, lockstep>>
    BY <1>3 DEF NativeTakes, Returns
  <2>2. h \in Observation
    BY <1>1, <2>1, LineTail
  <2>3. k \in Model
    BY <2>1, IInvFacts
  <2>4. FirstOf(z, down) /\ z \in Result
    BY <2>2, <2>3 DEF Result, Observation, FirstOf
  <2> HIDE DEF z, h, k
  <2>5. sdk \notin {"sync", "async"} /\ \A m \in Model : buffers[m] = <<>>
    BY <2>1 DEF IInv, Buffered
  <2>6. /\ Flow(sent, Tail(down), buffers, returned', lost)
        /\ ToIds(returned') = ToIds(returned) \union {z.id}
    BY <1>1, <2>1, <2>4, <2>5, FlowNative
  <2>7. Buffered'
    BY <2>1, <2>4, <2>5, BufferedStill
  <2> QED
    BY <2>1, <2>6, <2>7, TaskIdle, ClientStep
<1> QED
  BY <1>2, <1>3

LEMMA NextIInv == IInv /\ [Next]_vars => IInv'
<1> SUFFICES ASSUME IInv, [Next]_vars PROVE IInv'
  OBVIOUS
<1>1. CASE Breaks
  BY <1>1, NextBreaks
<1>2. CASE Reconnects
  BY <1>2 DEF Reconnects, IInv, Plain, Buffered, server, history
<1>3. CASE Receive
  BY <1>3, NextReceive
<1>4. CASE \E o \in todo : Discard(o) \/ DispatchSucceeds(o)
  BY <1>4, NextServer
<1>5. CASE \E o \in sending : Send(o)
  BY <1>5, NextServer
<1>6. CASE \E m \in Model : Observe(m)
  BY <1>6, NextObserve
<1>7. CASE \E t \in Task, m \in Model : GetResult(t, m)
  BY <1>7, NextTimes
<1>8. CASE ReaderRoutes
  BY <1>8, NextRoutes
<1>9. CASE \E t \in Task : SyncPass(t) \/ AsyncTakes(t) \/ NativeTakes(t)
  BY <1>9, NextPass, NextCalls
<1>10. CASE \E t \in Task : TimesOut(t)
  <2>1. PICK t \in Task : TimesOut(t)
    BY <1>10
  <2>2. PICK m \in Model : TRUE
    BY <2>1, IInvFacts DEF TimesOut
  <2> QED
    BY <2>1, <2>2, NextTimes
<1>11. CASE UNCHANGED vars
  BY <1>11 DEF IInv, Plain, Buffered, vars, server, history
<1> QED
  BY <1>1, <1>2, <1>3, <1>4, <1>5, <1>6, <1>7, <1>8, <1>9, <1>10, <1>11 DEF Next

LEMMA IInvAlways == Spec => []IInv
BY InitIInv, NextIInv, PTL DEF Spec

(* The values of the variables, in every state.                              *)
THEOREM TypeCorrect == Spec => []TypeOK
<1>1. IInv => TypeOK
  <2> SUFFICES ASSUME IInv PROVE TypeOK
    OBVIOUS
  <2>1. /\ sent \in Seq(Ids) /\ lost \subseteq Ids /\ returned \in Seq(Result)
        /\ down \in Seq(Observation) /\ buffers \in [Model -> Seq(Observation)]
    BY DEF IInv, Flow, Replies, Line
  <2>2. /\ up \in Seq(Observation) /\ todo \subseteq Observation /\ sending \subseteq Observation
        /\ observed \in 0 .. MaxObs
    BY DEF IInv, Upstream
  <2>3. active = NoRecord \/ active \in [id: Ids, state: {"ISSUED", "CONSUMED"}]
    BY DEF IInv, Tracked
  <2> QED
    BY <2>1, <2>2, <2>3 DEF IInv, Plain, TypeOK, Result
<1> QED
  BY <1>1, IInvAlways, PTL

(* The tracker takes an answer for consumed only if it was returned, for a   *)
(* client that awaits each answer before its next observation.               *)
THEOREM ConsumedIsReturned == Spec => []ConsumedWasReturned
<1>1. IInv => ConsumedWasReturned
  BY DEF IInv, Tracked, ConsumedWasReturned
<1> QED
  BY <1>1, IInvAlways, PTL

(* A queue in which no identity occurs twice is as long as it has identities.*)
LEMMA LengthIsSize ==
  ASSUME NEW n \in Nat, NEW f, DOMAIN f = 1 .. n, \A i, j \in 1 .. n : f[i] = f[j] => i = j
  PROVE  /\ IsFiniteSet({f[i] : i \in 1 .. n})
         /\ Cardinality({f[i] : i \in 1 .. n}) = n
<1> DEFINE T == {f[i] : i \in 1 .. n}
           g == [i \in 1 .. n |-> f[i]]
<1>1. g \in [1 .. n -> T] /\ \A x \in T : \E i \in 1 .. n : g[i] = x
  OBVIOUS
<1>2. \A i, j \in 1 .. n : g[i] = g[j] => i = j
  OBVIOUS
<1> HIDE DEF g
<1>3. g \in Bijection(1 .. n, T)
  BY <1>1, <1>2 DEF Bijection, Injection, Surjection, IsInjective
<1>4. ExistsBijection(1 .. n, T)
  BY <1>3 DEF ExistsBijection
<1>5. IsFiniteSet(1 .. n) /\ Cardinality(1 .. n) = n
  <2>1. 1 \in Int /\ n \in Int
    OBVIOUS
  <2>2. /\ IsFiniteSet(1 .. n)
        /\ Cardinality(1 .. n) = IF 1 > n THEN 0 ELSE n - 1 + 1
    BY <2>1, FS_Interval
  <2> QED
    BY <2>2
<1> HIDE DEF T
<1>6. IsFiniteSet(T) /\ Cardinality(T) = n
  BY <1>4, <1>5, FS_Bijection
<1> QED
  BY <1>6 DEF T

LEMMA QueueSize ==
  ASSUME NEW X, NEW q \in Seq(X), \A i, j \in DOMAIN q : q[i].id = q[j].id => i = j
  PROVE  IsFiniteSet(ToIds(q)) /\ Cardinality(ToIds(q)) = Len(q)
<1> DEFINE n == Len(q)
           f == [i \in 1 .. n |-> q[i].id]
<1>1. DOMAIN q = 1 .. n /\ n \in Nat
  BY LenProperties
<1>2. ToIds(q) = {f[i] : i \in 1 .. n}
  BY <1>1 DEF ToIds
<1>3. DOMAIN f = 1 .. n /\ \A i, j \in 1 .. n : f[i] = f[j] => i = j
  BY <1>1
<1> HIDE DEF f, n
<1>4. IsFiniteSet({f[i] : i \in 1 .. n}) /\ Cardinality({f[i] : i \in 1 .. n}) = n
  BY <1>1, <1>3, LengthIsSize
<1> QED
  BY <1>2, <1>4 DEF n

(* Four places that share nothing.                                           *)
LEMMA FourSizes ==
  ASSUME NEW A, NEW B, NEW C, NEW D, IsFiniteSet(A \union B \union C \union D),
         A \intersect B = {}, A \intersect C = {}, B \intersect C = {},
         D \intersect (A \union B \union C) = {}
  PROVE  Cardinality(A \union B \union C \union D)
           = Cardinality(A) + Cardinality(B) + Cardinality(C) + Cardinality(D)
<1> DEFINE P == A \union B
           Q == P \union C
<1>1. IsFiniteSet(A) /\ IsFiniteSet(B) /\ IsFiniteSet(C) /\ IsFiniteSet(D)
  BY FS_Subset
<1>2. ASSUME NEW S, NEW T, IsFiniteSet(S), IsFiniteSet(T), S \intersect T = {}
      PROVE  /\ IsFiniteSet(S \union T)
             /\ Cardinality(S \union T) = Cardinality(S) + Cardinality(T)
  <2>1. /\ IsFiniteSet(S \union T)
        /\ Cardinality(S \union T)
             = Cardinality(S) + Cardinality(T) - Cardinality(S \intersect T)
    BY <1>2, FS_Union
  <2>2. Cardinality(S \intersect T) = 0
    BY <1>2, FS_EmptySet
  <2>3. Cardinality(S) \in Nat /\ Cardinality(T) \in Nat
    BY <1>2, FS_CardinalityType
  <2> QED
    BY <2>1, <2>2, <2>3
<1>3. IsFiniteSet(P) /\ Cardinality(P) = Cardinality(A) + Cardinality(B)
  BY <1>1, <1>2
<1>4. P \intersect C = {} /\ Q \intersect D = {} /\ Q \union D = A \union B \union C \union D
  OBVIOUS
<1> HIDE DEF P
<1>5. IsFiniteSet(Q) /\ Cardinality(Q) = Cardinality(P) + Cardinality(C)
  BY <1>1, <1>3, <1>4, <1>2
<1> HIDE DEF Q
<1>6. Cardinality(Q \union D) = Cardinality(Q) + Cardinality(D)
  BY <1>1, <1>4, <1>5, <1>2
<1> QED
  BY <1>3, <1>4, <1>5, <1>6

(* No answer is lost or duplicated, and those of a model come in order.      *)
THEOREM EachOnceAlways == Spec => []EachOnceInOrder
<1>1. IInv => EachOnceInOrder
  <2> SUFFICES ASSUME IInv PROVE EachOnceInOrder
    OBVIOUS
  <2>1. Flow(sent, down, buffers, returned, lost)
    BY DEF IInv
  <2>2. /\ sent \in Seq(Ids) /\ IsInjective(sent) /\ Line(sent, down) /\ Replies(sent, returned)
        /\ ToSet(sent) = ToIds(down) \union InLines(buffers) \union ToIds(returned) \union lost
        /\ lost \intersect (ToIds(down) \union InLines(buffers) \union ToIds(returned)) = {}
        /\ InLines(buffers) \intersect ToIds(returned) = {}
    BY <2>1 DEF Flow
  <2>3. /\ ToIds(down) \intersect InLines(buffers) = {}
        /\ ToIds(down) \intersect ToIds(returned) = {}
    BY <2>1, FlowApart
  <2>4. InBuffers = InLines(buffers)
    BY DEF InBuffers, InLines
  <2>5. DOMAIN sent = 1 .. Len(sent) /\ Len(sent) \in Nat
    BY <2>2, LenProperties
  <2>6. ToSet(sent) = {sent[i] : i \in DOMAIN sent}
    BY DEF ToSet
  <2>7. IsFiniteSet(ToSet(sent)) /\ Cardinality(ToSet(sent)) = Len(sent)
    <3>1. \A i, j \in 1 .. Len(sent) : sent[i] = sent[j] => i = j
      BY <2>2, <2>5 DEF IsInjective
    <3> DEFINE n == Len(sent)
    <3>2. n \in Nat /\ DOMAIN sent = 1 .. n /\ \A i, j \in 1 .. n : sent[i] = sent[j] => i = j
      BY <2>5, <3>1
    <3> HIDE DEF n
    <3>3. /\ IsFiniteSet({sent[i] : i \in 1 .. n})
          /\ Cardinality({sent[i] : i \in 1 .. n}) = n
      BY <3>2, LengthIsSize
    <3>4. ToSet(sent) = {sent[i] : i \in 1 .. n}
      BY <2>6, <3>2
    <3> QED
      BY <3>3, <3>4 DEF n
  <2>8. Cardinality(ToIds(down)) = Len(down)
    <3>1. down \in Seq(Observation) /\ \A i, j \in DOMAIN down : down[i].id = down[j].id => i = j
      BY <2>2, LineDistinct DEF Line
    <3> QED
      BY <3>1, QueueSize
  <2>9. Cardinality(ToIds(returned)) = Len(returned)
    BY <2>2, QueueSize DEF Replies
  <2>10. Len(sent) = Len(down) + Cardinality(InBuffers) + Len(returned) + Cardinality(lost)
    <3> DEFINE A == ToIds(down)
               B == InLines(buffers)
               C == ToIds(returned)
    <3>1. /\ A \intersect B = {} /\ A \intersect C = {} /\ B \intersect C = {}
          /\ lost \intersect (A \union B \union C) = {}
          /\ ToSet(sent) = A \union B \union C \union lost
      BY <2>2, <2>3
    <3> HIDE DEF A, B, C
    <3>2. Cardinality(A \union B \union C \union lost)
            = Cardinality(A) + Cardinality(B) + Cardinality(C) + Cardinality(lost)
      BY <2>7, <3>1, FourSizes
    <3> QED
      BY <2>4, <2>7, <2>8, <2>9, <3>1, <3>2 DEF A, B, C
  <2>11. ASSUME NEW a, NEW b, Earlier(sent, a, b) PROVE Position(a) < Position(b)
    <3>1. PICK i, j \in DOMAIN sent : i < j /\ sent[i] = a /\ sent[j] = b
      BY <2>11 DEF Earlier
    <3>2. \A k \in DOMAIN sent : (sent[k] = a => k = i) /\ (sent[k] = b => k = j)
      BY <2>2, <3>1 DEF IsInjective
    <3>3. Position(a) = i /\ Position(b) = j
      BY <3>1, <3>2 DEF Position
    <3> QED
      BY <3>1, <3>3
  <2>12. \A i, j \in DOMAIN returned : i < j /\ returned[i].model = returned[j].model
           => Position(returned[i].id) < Position(returned[j].id)
    BY <2>2, <2>11 DEF Replies
  <2>13. sdk \in {"sync", "async"} =>
           \A i \in DOMAIN returned : returned[i].model = returned[i].asked
    BY DEF IInv, Buffered
  <2> QED
    BY <2>2, <2>4, <2>6, <2>10, <2>12, <2>13 DEF EachOnceInOrder
<1> QED
  BY <1>1, IInvAlways, PTL

(* A synchronous get_result() that returns nothing had nothing to return.    *)
THEOREM TimeoutAlwaysHonest == Spec => TimeoutIsHonest
<1> DEFINE Honest(t) ==
      waiting[t] # Idle /\ waiting'[t] = Idle /\ returned' = returned =>
         /\ sdk = "sync" => \A o \in {down[i] : i \in DOMAIN down} : o.model # waiting[t].model
         /\ sdk = "sync" => buffers[waiting[t].model] = <<>>
         /\ sdk = "native" => down = <<>>
<1>1. ASSUME IInv, [Next]_vars, NEW t \in Task PROVE Honest(t)
  <2> SUFFICES ASSUME waiting[t] # Idle, waiting'[t] = Idle, returned' = returned
               PROVE  /\ sdk = "sync" =>
                           /\ \A o \in {down[i] : i \in DOMAIN down} : o.model # waiting[t].model
                           /\ buffers[waiting[t].model] = <<>>
                      /\ sdk = "native" => down = <<>>
    OBVIOUS
  <2>1. waiting' # waiting
    OBVIOUS
  <2>2. returned \in Seq(Result) /\ buffers \in [Model -> Seq(Observation)]
    BY <1>1 DEF IInv, Flow, Replies
  <2>3. ASSUME NEW u \in Task, waiting' = [waiting EXCEPT ![u] = Idle] PROVE t = u
    BY <1>1, <2>3, IInvFacts
  <2>4. ASSUME NEW u \in Task, NEW o, o.id \in Ids, o.model \in Model, waiting[u] # Idle,
               Returns(u, o)
        PROVE  FALSE
    <3> DEFINE z == [id |-> o.id, model |-> o.model, asked |-> waiting[u].model]
    <3>1. z \in Result
      BY <1>1, <2>4, IInvFacts DEF Result
    <3>2. returned' = Append(returned, z)
      BY <2>4 DEF Returns
    <3> HIDE DEF z
    <3>3. Len(Append(returned, z)) = Len(returned) + 1 /\ Len(returned) \in Nat
      BY <2>2, <3>1, AppendProperties, LenProperties
    <3> QED
      BY <3>2, <3>3
  <2>5. CASE \E u \in Task : SyncPass(u)
    <3>1. PICK u \in Task : SyncPass(u)
      BY <2>5
    <3> DEFINE k == waiting[u].model
               c == Drained
    <3>2. /\ sdk = "sync" /\ waiting[u] # Idle
          /\ \/ c[k] # <<>> /\ Returns(u, Head(c[k]))
             \/ c[k] = <<>> /\ (ReturnsNone(u) \/ UNCHANGED waiting)
      BY <3>1 DEF SyncPass
    <3>3. k \in Model /\ k = waiting[u].model
      BY <1>1, <3>2, IInvFacts
    <3>4. /\ c \in [Model -> Seq(Observation)]
          /\ Flow(sent, <<>>, c, returned, lost) /\ Adds(c, buffers, down)
      BY <1>1, DrainedFlow
    <3> HIDE DEF c, k
    <3>5. CASE c[k] # <<>> /\ Returns(u, Head(c[k]))
      <4> DEFINE q == c[k]
                 o == Head(q)
      <4>1. q \in Seq(Observation) /\ q # <<>>
        BY <3>3, <3>4, <3>5
      <4> HIDE DEF q
      <4>2. o \in Observation
        BY <4>1, HeadTailProperties
      <4>3. Returns(u, o)
        BY <3>5 DEF q
      <4> HIDE DEF o
      <4>4. o.id \in Ids /\ o.model \in Model
        BY <4>2 DEF Observation
      <4> QED
        BY <2>4, <3>2, <4>3, <4>4
    <3>6. CASE c[k] = <<>> /\ ReturnsNone(u)
      <4>1. t = u
        BY <2>3, <3>6 DEF ReturnsNone
      <4>2. ToSet(buffers[k]) \union {x \in ToSet(down) : x.model = k} = {}
        BY <3>3, <3>4, <3>6, EmptyLine DEF Adds
      <4>3. buffers[k] = <<>>
        <5> DEFINE q == buffers[k]
        <5>1. q \in Seq(Observation)
          BY <2>2, <3>3
        <5>2. ToSet(q) = {}
          BY <4>2
        <5> HIDE DEF q
        <5>3. CASE q # <<>>
          BY <5>1, <5>2, <5>3, TailFacts
        <5> QED
          BY <5>3 DEF q
      <4>4. \A o \in {down[i] : i \in DOMAIN down} : o.model # k
        BY <4>2 DEF ToSet
      <4> QED
        BY <3>2, <3>3, <4>1, <4>3, <4>4
    <3> QED
      BY <2>1, <3>2, <3>5, <3>6
  <2>6. CASE \E u \in Task : AsyncTakes(u) \/ NativeTakes(u)
    <3>1. PICK u \in Task : AsyncTakes(u) \/ NativeTakes(u)
      BY <2>6
    <3>2. CASE AsyncTakes(u)
      <4> DEFINE q == buffers[waiting[u].model]
                 o == Head(q)
      <4>1. waiting[u] # Idle /\ q # <<>> /\ Returns(u, o)
        BY <3>2 DEF AsyncTakes
      <4>2. q \in Seq(Observation)
        BY <1>1, <2>2, <4>1, IInvFacts
      <4> HIDE DEF q
      <4>3. o \in Observation
        BY <4>1, <4>2, HeadTailProperties
      <4> HIDE DEF o
      <4>4. o.id \in Ids /\ o.model \in Model
        BY <4>3 DEF Observation
      <4> QED
        BY <2>4, <4>1, <4>4
    <3>3. CASE NativeTakes(u)
      <4> DEFINE o == Head(down)
      <4>1. waiting[u] # Idle /\ down # <<>> /\ Returns(u, o)
        BY <3>3 DEF NativeTakes
      <4>2. down \in Seq(Observation)
        BY <1>1 DEF IInv, Flow, Line
      <4>3. o \in Observation
        BY <4>1, <4>2, HeadTailProperties
      <4> HIDE DEF o
      <4>4. o.id \in Ids /\ o.model \in Model
        BY <4>3 DEF Observation
      <4> QED
        BY <2>4, <4>1, <4>4
    <3> QED
      BY <3>1, <3>2, <3>3
  <2>7. CASE \E u \in Task : TimesOut(u)
    <3>1. PICK u \in Task : TimesOut(u)
      BY <2>7
    <3>2. t = u
      BY <2>3, <3>1 DEF TimesOut, ReturnsNone
    <3> QED
      BY <3>1, <3>2 DEF TimesOut
  <2>8. CASE \E u \in Task, m \in Model : GetResult(u, m)
    <3>1. PICK u \in Task, m \in Model : GetResult(u, m)
      BY <2>8
    <3>2. waiting[u] = Idle
      BY <3>1 DEF GetResult
    <3>3. PICK l : waiting' = [waiting EXCEPT ![u] = [model |-> m, limited |-> l]]
      BY <3>1 DEF GetResult
    <3>4. waiting'[t] = waiting[t]
      BY <1>1, <3>2, <3>3, IInvFacts
    <3> QED
      BY <3>4
  <2>9. CASE UNCHANGED waiting
    BY <2>1, <2>9
  <2>10. UNCHANGED waiting \/ (\E u \in Task : SyncPass(u)) \/ (\E u \in Task : TimesOut(u))
         \/ (\E u \in Task : AsyncTakes(u) \/ NativeTakes(u))
         \/ (\E u \in Task, m \in Model : GetResult(u, m))
    BY <1>1 DEF Next, vars, Breaks, Reconnects, Receive, Discard, DispatchSucceeds, Send,
                Observe, ReaderRoutes
  <2> QED
    BY <2>5, <2>6, <2>7, <2>8, <2>9, <2>10
<1>2. IInv /\ [Next]_vars => [\A t \in Task : Honest(t)]_vars
  BY <1>1
<1>3. TimeoutIsHonest <=> [][\A t \in Task : Honest(t)]_vars
  BY DEF TimeoutIsHonest
<1> HIDE DEF Honest
<1> QED
  BY <1>2, <1>3, IInvAlways, PTL DEF Spec

=============================================================================
