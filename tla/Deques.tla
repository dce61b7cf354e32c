------------------------------- MODULE Deques -------------------------------
(* The strategies that keep a dict of deques: scheduler/round_robin.py (a    *)
(* deque per client; the dict's order is the rotation) and                   *)
(* scheduler/batch_optimized.py (a deque per model, handed out in batches    *)
(* that are full or whose time has come).  Both compare only the heads of    *)
(* the deques when they overflow.                                            *)
EXTENDS StrategyBase, Filter

CONSTANTS
  Strategies,  \* which of the two are looked at
  MaxBatch,    \* batch_optimized.max_batch_size, ge=1
  MaxWait,     \* batch_optimized.max_wait_ms, gt=0, in units of time
  TTL,         \* request_ttl_ms, in units of time
  MaxAge       \* bound: requests of this age or older are taken as equally old

ASSUME DequesAssumption ==
  /\ Strategies \subseteq {"round_robin", "batch_optimized"}
  /\ {MaxBatch, MaxWait} \subseteq Nat \ {0}
  /\ TTL \in Nat /\ MaxAge \in Nat /\ TTL < MaxAge

VARIABLES
  strategy,  \* which scheduler this is; never changes
  order,     \* keys of the dict, in dict order
  waiting,   \* the deque of each key, empty for one that is no key
  timer,     \* time since _first_arrival[k], at most MaxWait; Off if it has none
  total,     \* _total
  out        \* InferenceRequests handed to the server

vars == <<strategy, order, waiting, timer, total, out>>

Key == Client \union Model

Off == -1

\* age: time since received_at; retried: retry_count > 0.
InferenceRequest == [id: Request, age: 0 .. MaxAge, retried: BOOLEAN]

Batching == strategy = "batch_optimized"

KeyOf(x) == IF Batching THEN ModelOf[x.id] ELSE ClientOf[x.id]

TypeOK ==
  /\ strategy \in Strategies
  /\ order \in Seq(Key) /\ IsInjective(order)
  /\ waiting \in [Key -> Seq(InferenceRequest)]
  /\ timer \in [Key -> {Off} \union 0 .. MaxWait]
  /\ \A k \in Key : waiting[k] # <<>> \/ timer[k] # Off => k \in ToSet(order)
  /\ \A k \in Key : \A x \in ToSet(waiting[k]) : KeyOf(x) = k
  /\ total \in Int
  /\ out \subseteq InferenceRequest

Init ==
  /\ strategy \in Strategies
  /\ order = <<>>
  /\ waiting = [k \in Key |-> <<>>]
  /\ timer = [k \in Key |-> Off]
  /\ total = 0 /\ out = {}

-----------------------------------------------------------------------------
(* Helpers.                                                                  *)

Held == UNION {ToSet(waiting[k]) : k \in Key}

Place(k) == CHOOSE i \in DOMAIN order : order[i] = k

Waiting == {k \in Key : waiting[k] # <<>>}

\* The first key of a set in dict order.
First(K) == CHOOSE k \in K : \A l \in K : Place(k) <= Place(l)

IsExpired(x) == x.age > TTL

WithKey_inFront(k) == IF k \in ToSet(order) THEN order ELSE <<k>> \o order

\* The dict after self._queues[k] of a key it may not have yet.
WithKey(k) == IF k \in ToSet(order) THEN order ELSE Append(order, k)

\* Appending x to its deque, when the deques are as in w and the timers as in t.
Enqueue(w, t, x) ==
  /\ waiting' = [w EXCEPT ![KeyOf(x)] = Append(@, x)]
  /\ order' = WithKey(KeyOf(x))
  /\ timer' = IF Batching /\ t[KeyOf(x)] = Off THEN [t EXCEPT ![KeyOf(x)] = 0] ELSE t

AgeOfHead(k) == Head(waiting[k]).age

OldestHead_firstInTurn == First(Waiting)

\* Whose head _drop_oldest drops: the first of the earliest heads.
OldestHead == First({k \in Waiting : \A l \in Waiting : AgeOfHead(k) >= AgeOfHead(l)})

\* The keys the rotation reaches before k.
Ahead(k) == {l \in ToSet(order) : Place(l) < Place(k)}

\* _first_arrival.pop(k) for each key of K whose deque is empty in w.
StopEmptied(w, K) ==
  timer' = [k \in Key |-> IF k \in K /\ w[k] = <<>> THEN Off ELSE timer[k]]

Fresh(r) == [id |-> r, age |-> 0, retried |-> FALSE]

-----------------------------------------------------------------------------
(* Operations.                                                               *)

SubmitRoom(x) ==
  /\ total < MaxQueue
  /\ Enqueue(waiting, timer, x)
  /\ total' = total + 1
  /\ UNCHANGED <<strategy, out>>

SubmitDropping_stopsTimer(x) ==
  /\ total >= MaxQueue /\ OverflowPolicy = "drop_oldest"
  /\ Enqueue([waiting EXCEPT ![OldestHead] = Tail(@)], [timer EXCEPT ![OldestHead] = Off], x)
  /\ UNCHANGED <<strategy, total, out>>

\* total is decremented by the drop and incremented by the append.
SubmitDropping(x) ==
  /\ total >= MaxQueue /\ OverflowPolicy = "drop_oldest"
  /\ LET w == [waiting EXCEPT ![OldestHead] = Tail(@)]
         t == [timer EXCEPT ![OldestHead] = IF w[OldestHead] = <<>> THEN Off ELSE @]
     IN  Enqueue(w, t, x)
  /\ UNCHANGED <<strategy, total, out>>

\* Under reject_newest a full queue raises QueueFullError and changes nothing.
Submit(r) ==
  /\ r \notin Ids(Held) \union Ids(out)
  /\ SubmitRoom(Fresh(r)) \/ SubmitDropping(Fresh(r))

Retried(x) == [x EXCEPT !.retried = TRUE]

Resubmit_uncounted(x) ==
  /\ Enqueue(waiting, timer, Retried(x))
  /\ out' = out \ {x}
  /\ UNCHANGED <<strategy, total>>

Resubmit(x) ==
  /\ Enqueue(waiting, timer, Retried(x))
  /\ total' = total + 1
  /\ out' = out \ {x}
  /\ UNCHANGED strategy

ServeTurn_staysInFront ==
  /\ ~ Batching /\ total # 0 /\ Waiting # {} /\ Cardinality(out) < MaxOut
  /\ LET c == First(Waiting) IN
       /\ out' = out \union {Head(waiting[c])}
       /\ waiting' = [waiting EXCEPT ![c] = Tail(@)]
       /\ order' = SubSeq(order, Place(c), Len(order)) \o SubSeq(order, 1, Place(c) - 1)
  /\ total' = total - 1
  /\ UNCHANGED <<strategy, timer>>

\* round_robin, next_batch: idle clients before the one served go to the end
\* with it.
ServeTurn ==
  /\ ~ Batching /\ total # 0 /\ Waiting # {} /\ Cardinality(out) < MaxOut
  /\ LET c == First(Waiting) IN
       /\ out' = out \union {Head(waiting[c])}
       /\ waiting' = [waiting EXCEPT ![c] = Tail(@)]
       /\ order' = SubSeq(order, Place(c) + 1, Len(order)) \o SubSeq(order, 1, Place(c))
  /\ total' = total - 1
  /\ UNCHANGED <<strategy, timer>>

\* The models next_batch may flush: full, or their timer has run out.
Due == {m \in Waiting : Len(waiting[m]) >= MaxBatch \/ timer[m] >= MaxWait}

Flush_wholeDeque ==
  /\ Batching /\ Due # {} /\ Cardinality(out) < MaxOut
  /\ out' = out \union ToSet(waiting[First(Due)])
  /\ waiting' = [waiting EXCEPT ![First(Due)] = <<>>]
  /\ timer' = [timer EXCEPT ![First(Due)] = Off]
  /\ total' = total - Len(waiting[First(Due)])
  /\ UNCHANGED <<strategy, order>>

\* batch_optimized, next_batch: the first due model in dict order; the timer
\* starts anew for what the batch leaves behind.  The caller extends a batch
\* that is smaller than MaxOut by whole batches.
Flush ==
  /\ Batching /\ Due # {} /\ Cardinality(out) < MaxOut
  /\ LET m == First(Due)
         n == IF Len(waiting[m]) < MaxBatch THEN Len(waiting[m]) ELSE MaxBatch
         rest == SubSeq(waiting[m], n + 1, Len(waiting[m]))
     IN  /\ out' = out \union ToSet(SubSeq(waiting[m], 1, n))
         /\ waiting' = [waiting EXCEPT ![m] = rest]
         /\ timer' = [timer EXCEPT ![m] = IF rest = <<>> THEN Off ELSE 0]
         /\ total' = total - n
  /\ UNCHANGED <<strategy, order>>

NextBatch == ServeTurn \/ Flush

Expired == {x \in Held : IsExpired(x)}

Tick_forgetsKeys ==
  /\ waiting' = [k \in Key |-> Without(waiting[k], Expired)]
  /\ order' = Without(order, {k \in Key : waiting'[k] # waiting[k]})
  /\ StopEmptied(waiting', Key)
  /\ total' = total - Cardinality(Expired)
  /\ UNCHANGED <<strategy, out>>

\* Emptied deques keep their place.
Tick ==
  /\ waiting' = [k \in Key |-> Without(waiting[k], Expired)]
  /\ StopEmptied(waiting', Key)
  /\ total' = total - Cardinality(Expired)
  /\ UNCHANGED <<strategy, order, out>>

\* Overridden by round_robin only.
OnClientConnected(c) ==
  /\ ~ Batching
  /\ order' = WithKey(c)
  /\ UNCHANGED <<strategy, waiting, timer, total, out>>

\* round_robin, on_client_disconnected: the client loses its place.
ForgetClient(c) ==
  /\ ~ Batching
  /\ order' = Without(order, {c})
  /\ waiting' = [waiting EXCEPT ![c] = <<>>]
  /\ total' = total - Len(waiting[c])
  /\ UNCHANGED <<strategy, timer, out>>

\* batch_optimized, on_client_disconnected: timers run on, also for a model
\* that is left without requests.
PurgeClient(c) ==
  /\ Batching
  /\ LET gone == {x \in Held : ClientOf[x.id] = c} IN
       /\ waiting' = [k \in Key |-> Without(waiting[k], gone)]
       /\ total' = total - Cardinality(gone)
  /\ UNCHANGED <<strategy, order, timer, out>>

OnClientDisconnected(c) == ForgetClient(c) \/ PurgeClient(c)

\* The server is done with x: answered, failed for good or lost.
Settle(x) ==
  /\ out' = out \ {x}
  /\ UNCHANGED <<strategy, order, waiting, timer, total>>

\* One unit of time passes.
Advance ==
  LET Up(n, top) == IF n < top THEN n + 1 ELSE n
      Older(x) == [x EXCEPT !.age = Up(@, MaxAge)]
  IN  /\ waiting' = [k \in Key |-> [i \in DOMAIN waiting[k] |-> Older(waiting[k][i])]]
      /\ timer' = [k \in Key |-> IF timer[k] = Off THEN Off ELSE Up(timer[k], MaxWait)]
      /\ out' = {Older(x) : x \in out}
      /\ UNCHANGED <<strategy, order, total>>

Next ==
  \/ \E r \in Request : Submit(r)
  \/ \E x \in out : Resubmit(x) \/ Settle(x)
  \/ NextBatch
  \/ Tick
  \/ \E c \in Client : OnClientConnected(c) \/ OnClientDisconnected(c)
  \/ Advance

\* The legacy loop polls next_batch every millisecond, a dispatch ends, time
\* passes.
Fairness ==
  /\ WF_vars(NextBatch)
  /\ WF_vars(\E x \in out : Settle(x))
  /\ WF_vars(Advance)

Spec == Init /\ [][Next]_vars /\ Fairness

-----------------------------------------------------------------------------
(* Properties.                                                               *)

(* _total is adjusted by hand in submit, _drop_oldest, resubmit, next_batch, *)
(* tick and on_client_disconnected; it is the number of requests the deques  *)
(* hold, no two of which are one request, nor is one of them in dispatch.    *)
TotalMatches ==
  /\ total = Cardinality(Ids(Held))
  /\ Ids(Held) \intersect Ids(out) = {}

\* What this step hands out from before x in the deque of k.
TakenBefore(k, x) ==
  {waiting[k][i] : i \in {i \in DOMAIN waiting[k] :
                            \E j \in DOMAIN waiting[k] : i < j /\ waiting[k][j] = x}}
    \intersect (out' \ out)

(* batch_optimized keeps one time per model, started, stopped and restarted  *)
(* in five methods.  A request waits on a timer that runs, and whatever      *)
(* comes, goes, overflows, fails or expires beside it, only a full batch     *)
(* from before it in its deque sets that timer back - then however long it   *)
(* has waited: a request is due max_wait_ms after it came or after the last  *)
(* full batch that left it behind.  (Or earlier: see PurgeClient.)           *)
TimerKept ==
  [][Batching => \A k \in Key : \A x \in ToSet(waiting[k]) :
       x.id \in Ids(ToSet(waiting'[k])) =>
         /\ timer'[k] # Off
         /\ timer'[k] >= timer[k] \/ Cardinality(TakenBefore(k, x)) = MaxBatch]_vars

(* A client with a request waiting is never put back in the rotation by what *)
(* happens to others - service, connects, disconnects, retries, overflow:    *)
(* no client gets ahead of it that was not ahead before.                     *)
TurnKept ==
  [][\A k \in Waiting : Len(waiting'[k]) >= Len(waiting[k]) => Ahead(k)' \subseteq Ahead(k)]_vars

(* However many requests other clients send and retry, round_robin hands out *)
(* (or drops) a queued request: one turn of its client for each that was     *)
(* before it in its deque.  batch_optimized promises that only to the first  *)
(* model in dict order, also when its batch never fills: the others wait for *)
(* a poll that finds no earlier model due.                                   *)
NoStarvation ==
  \A r \in Request :
    /\ r \in Ids(Held) /\ (Batching => ModelOf[r] = Head(order))
    ~> r \notin Ids(Held)

(* _drop_oldest looks at the heads only, and retries join at the tail: it    *)
(* still never drops a request while an older one is held, save retries that *)
(* were put behind younger requests.                                         *)
DropsOldestButRetries ==
  [][\A d \in Held : d.id \notin Ids(Held') /\ out' = out /\ total' = total
       => \A y \in Held : y.retried \/ d.age >= y.age]_vars

S == INSTANCE Scheduler WITH
       queue <- Ids(Held), out <- Ids(out), MaxOut <- MaxOut + MaxBatch - 1

(* Both strategies keep the promise of the Scheduler ABC.  What a batch adds *)
(* to the caller's limit is its size less one, and no more.                  *)
Refines == S!Spec

=============================================================================
