---------------------------- MODULE ModelDeadline ----------------------------
(* scheduler/model_deadline.py: the default strategy.  One heap per model in *)
(* a dict, a total that is maintained by hand next to the heaps, a score     *)
(* computed when a request enters, a counter that breaks ties, and a drop    *)
(* that scans every heap for the oldest request.                             *)
(*                                                                           *)
(* A heap is the set of held requests of its model: heapq (external) hands   *)
(* out the least element of __lt__, a total order as counters are unique.    *)
(* A dict keeps its keys in insertion order; a key is only inserted by a     *)
(* push, so the value of the counter at that push stands for its place.      *)
EXTENDS StrategyBase

CONSTANTS
  Urgency,        \* values of a score without its age term
  AgeWeight,      \* model_deadline.age_weight, in units of score
  LatencyBudget,  \* latency_budget_ms of each client, in units of time
  TTL,            \* request_ttl_ms, in units of time
  MaxTime,        \* bound: the clock stops here
  MaxCounter      \* bound: no request enters a heap after this many have

ASSUME ScoreAssumption ==
  /\ Urgency \subseteq Nat
  /\ {AgeWeight, TTL, MaxTime, MaxCounter} \subseteq Nat
  /\ LatencyBudget \in [Client -> Nat \ {0}]
  \* a unit of score small enough for a score to be whole
  /\ \A c \in Client : AgeWeight % LatencyBudget[c] = 0

VARIABLES
  held,     \* the InferenceRequests in some heap of _queues
  inserted, \* keys of _queues, each with the counter when it was inserted
  total,    \* _total
  counter,  \* _counter
  out,      \* InferenceRequests handed to the server
  now,      \* time.monotonic()
  passed    \* history: <<y, x>> when y was handed out while x waited in its heap

vars == <<held, inserted, total, counter, out, now, passed>>

\* base: the cadence, urgency, steps and priority terms of the score, which
\* depend on fields that are never assigned again.
InferenceRequest ==
  [id: Request, base: Urgency, received_at: 0 .. MaxTime,
   score: Nat, counter: 0 .. MaxCounter]

TypeOK ==
  /\ held \subseteq InferenceRequest
  /\ out \subseteq InferenceRequest
  /\ DOMAIN inserted \subseteq Model
  /\ \A m \in DOMAIN inserted : inserted[m] \in 0 .. MaxCounter
  /\ total \in Int
  /\ counter \in 0 .. MaxCounter
  /\ now \in 0 .. MaxTime
  /\ passed \subseteq Request \X Request

Init ==
  /\ held = {} /\ out = {}
  /\ inserted = [m \in {} |-> 0]
  /\ total = 0 /\ counter = 0 /\ now = 0
  /\ passed = {}

-----------------------------------------------------------------------------
(* Helpers.                                                                  *)

Heap(h, m) == {x \in h : ModelOf[x.id] = m}

AgeTerm(age, budget) == (AgeWeight \div budget) * (IF age < budget THEN age ELSE budget)

ComputeScore_budgetLeft(x, t) ==
  LET budget == LatencyBudget[ClientOf[x.id]]
  IN x.base + (AgeWeight \div budget) * (budget - (t - x.received_at))

\* _compute_score of x at time t: its age counts against its client's budget.
ComputeScore(x, t) == x.base + AgeTerm(t - x.received_at, LatencyBudget[ClientOf[x.id]])

\* InferenceRequest.__lt__: x comes out of a heap before y.
Before(x, y) ==
  \/ x.score > y.score
  \/ x.score = y.score /\ x.counter < y.counter

\* What heappop may return: one request, as counters are unique.
Top(heap) == {x \in heap : \A y \in heap \ {x} : Before(x, y)}

IsExpired(x) == now - x.received_at > TTL

ModelsOf(h) == {ModelOf[x.id] : x \in h}

\* The dict when h is held: emptied heaps are deleted from it, the other keys
\* keep their place.
KeysOf(h) == [m \in DOMAIN inserted \intersect ModelsOf(h) |-> inserted[m]]

\* self._queues[m] of the defaultdict: a key that is not there goes to its end.
WithKey(keys, m) ==
  [k \in DOMAIN keys \union {m} |-> IF k \in DOMAIN keys THEN keys[k] ELSE counter]

\* Assigning score and counter and pushing x on the heap of its model, when h
\* is held under the given keys; the clock is read in the call.
Push(h, keys, x) ==
  /\ counter < MaxCounter
  /\ held' = h \union {[x EXCEPT !.score = ComputeScore(x, now'), !.counter = counter]}
  /\ inserted' = WithKey(keys, ModelOf[x.id])
  /\ counter' = counter + 1

\* Rebuilding the heaps without the requests of S: tick, disconnect.
Remove(S) ==
  /\ held' = held \ S
  /\ inserted' = KeysOf(held \ S)
  /\ total' = total - Cardinality(S)

Oldest(h) == {x \in h : \A y \in h : x.received_at <= y.received_at}

\* The first model of M in dict order.
First(M) == CHOOSE m \in M : \A k \in M : inserted[m] <= inserted[k]

Victims_firstHeap == Oldest(Heap(held, First(DOMAIN inserted)))

\* What _drop_oldest may drop: the scan keeps the first key, in dict order,
\* with the earliest received_at; in that heap the array position decides.
Victims == Heap(Oldest(held), First(ModelsOf(Oldest(held))))

\* The request the server builds for slot r: received_at is taken in recv().
Fresh(r, b) == [id |-> r, base |-> b, received_at |-> now, score |-> 0, counter |-> 0]

-----------------------------------------------------------------------------
(* Operations.                                                               *)

SubmitRoom(x) ==
  /\ total < MaxQueue
  /\ Push(held, inserted, x)
  /\ total' = total + 1

\* total is decremented by the drop and incremented by the push.
SubmitDropping(x) ==
  /\ total >= MaxQueue /\ OverflowPolicy = "drop_oldest"
  /\ \E d \in Victims : Push(held \ {d}, KeysOf(held \ {d}), x)
  /\ total' = total

\* The loop does not yield between recv() and submit(), but decoding takes time:
\* the score is computed at any later moment.  Under reject_newest a full queue
\* raises QueueFullError and changes nothing, so there is no third case.
Submit(r) ==
  /\ r \notin Ids(held) \union Ids(out)
  /\ now' \in now .. MaxTime
  /\ \E b \in Urgency : SubmitRoom(Fresh(r, b)) \/ SubmitDropping(Fresh(r, b))
  /\ passed' = {p \in passed : r \notin {p[1], p[2]}}
  /\ UNCHANGED out

Resubmit_uncounted(x) ==
  /\ UNCHANGED <<total, now, passed>>
  /\ Push(held, inserted, x)
  /\ out' = out \ {x}

Resubmit_asNew(x) ==
  /\ UNCHANGED <<now, passed>>
  /\ Push(held, inserted, [x EXCEPT !.received_at = now])
  /\ total' = total + 1
  /\ out' = out \ {x}

Resubmit(x) ==
  /\ UNCHANGED <<now, passed>>
  /\ Push(held, inserted, x)
  /\ total' = total + 1
  /\ out' = out \ {x}

NextBatchForModel_peeks(m) ==
  /\ Cardinality(out) < MaxOut
  /\ \E x \in Top(Heap(held, m)) : out' = out \union {x}
  /\ total' = total - 1
  /\ UNCHANGED <<held, inserted, counter, now, passed>>

NextBatchForModel(m) ==
  /\ Cardinality(out) < MaxOut
  /\ \E x \in Top(Heap(held, m)) :
       /\ held' = held \ {x}
       /\ inserted' = KeysOf(held \ {x})
       /\ out' = out \union {x}
       /\ passed' = {p \in passed : p[2] # x.id}
                      \union {<<x.id, y>> : y \in Ids(Heap(held, m) \ {x})}
  /\ total' = total - 1
  /\ UNCHANGED <<counter, now>>

\* ModelAwareScheduler.next_batch, used by the legacy loop: models() lists the
\* keys in dict order and the first with a request is drained.
NextBatch ==
  LET models == {m \in DOMAIN inserted : Heap(held, m) # {}} IN
  models # {} /\ NextBatchForModel(First(models))

Tick ==
  /\ Remove({x \in held : IsExpired(x)})
  /\ UNCHANGED <<counter, out, now, passed>>

OnClientDisconnected(c) ==
  /\ Remove({x \in held : ClientOf[x.id] = c})
  /\ UNCHANGED <<counter, out, now, passed>>

\* The server is done with x: answered, failed for good or lost.
Settle(x) ==
  /\ out' = out \ {x}
  /\ UNCHANGED <<held, inserted, total, counter, now, passed>>

Advance ==
  /\ now < MaxTime
  /\ now' = now + 1
  /\ UNCHANGED <<held, inserted, total, counter, out, passed>>

Common ==
  \/ \E r \in Request : Submit(r)
  \/ \E x \in out : Resubmit(x) \/ Settle(x)
  \/ Tick
  \/ \E c \in Client : OnClientDisconnected(c)
  \/ Advance

\* Per-model loops call next_batch_for_model, the legacy loop next_batch.
Next ==
  \/ Common
  \/ \E m \in Model : NextBatchForModel(m)
  \/ NextBatch

Spec == Init /\ [][Next]_vars

\* The scheduler under the legacy loop alone, the default configuration's.
LegacySpec == Init /\ [][Common \/ NextBatch]_vars

-----------------------------------------------------------------------------
(* Properties.                                                               *)

(* _total is adjusted by hand in submit, _drop_oldest, resubmit,             *)
(* next_batch_for_model, tick and on_client_disconnected, and submit decides *)
(* overflow by it alone: it must never drift from what the heaps hold.       *)
TotalMatches == IsFiniteSet(held) /\ total = Cardinality(held)

(* models() and next_batch read the dict: its keys are exactly the models    *)
(* with a queued request, each at a place of its own, whatever emptied or    *)
(* refilled a heap.                                                          *)
KeysMatch ==
  /\ DOMAIN inserted = ModelsOf(held)
  /\ \A m, k \in DOMAIN inserted : inserted[m] = inserted[k] => m = k

(* No two live objects stand for one request, none is both queued and handed *)
(* out, and no two queued ones share a counter, so __lt__ never compares     *)
(* equal and heappop has one least element to return.                        *)
Distinct ==
  /\ held \intersect out = {}
  /\ \A x, y \in held \union out : x.id = y.id => x = y
  /\ \A x, y \in held : x.counter = y.counter => x = y

(* The dict, its keys, _total and the counter are written apart, in six      *)
(* operations: they agree after each.                                        *)
Bookkeeping == TotalMatches /\ KeysMatch /\ Distinct

(* Retries bypass the overflow check: the queue is bounded only together     *)
(* with what is in dispatch (see Scheduler!QueueBound).                      *)
QueueBound == Cardinality(held) + Cardinality(out) <= MaxQueue + MaxOut

(* A retry does not lose its rank.  A request that was handed out, failed and *)
(* came back gets a new counter and a score recomputed from its old           *)
(* received_at: a request that had waited behind it in the heap comes out     *)
(* before it only when the two scores tie, whatever their ages and budgets.   *)
RetryKeepsRank ==
  [][\A x \in out' \ out, y \in held \intersect held' :
       <<y.id, x.id>> \in passed => x.score = y.score]_vars

(* An overflow never drops a request while an older one is held, even when   *)
(* the older one is a retry that was handed back after the younger arrived.  *)
DropsOldest ==
  [][\A d \in held \ held' : counter' > counter
       => \A y \in held : d.received_at <= y.received_at]_vars

S == INSTANCE Scheduler WITH queue <- Ids(held), out <- Ids(out)

(* The strategy keeps the promise of the Scheduler ABC: heaps, keys, total   *)
(* and counter implement a bounded queue that only loses a request to the    *)
(* overflow policy, the TTL or its client's disconnect.                      *)
Refines == S!Spec

(* base.py:73, next_batch: "Default: drain from model with highest-scored    *)
(* request."                                                                 *)
DrainsHighestScored ==
  [][\A x \in out' \ out, y \in held : x.score >= y.score]_vars

=============================================================================
