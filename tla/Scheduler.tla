------------------------------ MODULE Scheduler ------------------------------
(* What the Scheduler ABC (scheduler/base.py) promises its caller, whatever  *)
(* the strategy: a request submitted is held until it is handed out, dropped *)
(* by the overflow policy, expired by tick() or purged with its client, and  *)
(* a request handed out may come back through resubmit(), which skips the    *)
(* overflow check.  Order, scores and ticks are left to the strategies.      *)
EXTENDS StrategyBase

VARIABLES
  queue,  \* requests the scheduler holds
  out     \* requests handed to the caller and neither settled nor resubmitted

vars == <<queue, out>>

TypeOK ==
  /\ queue \subseteq Request
  /\ out \subseteq Request

Init == queue = {} /\ out = {}

-----------------------------------------------------------------------------

Submit(r) ==
  /\ r \notin queue \union out
  /\ queue' \in AfterSubmit(queue, r)
  /\ UNCHANGED out

NextBatch(B) ==
  /\ B # {}
  /\ IsFiniteSet(out \union B) /\ Cardinality(out \union B) <= MaxOut
  /\ queue' = queue \ B
  /\ out' = out \union B

Resubmit(r) ==
  /\ queue' = queue \union {r}
  /\ out' = out \ {r}

\* The caller is done with R: answered, failed for good, or lost together when
\* the dispatch of a batch raises.
Settle(R) ==
  /\ out' = out \ R
  /\ UNCHANGED queue

Tick(expired) ==
  /\ queue' = queue \ expired
  /\ UNCHANGED out

OnClientDisconnected(c) ==
  /\ queue' = queue \ OfClient(queue, c)
  /\ UNCHANGED out

Next ==
  \/ \E r \in Request : Submit(r)
  \/ \E B \in SUBSET queue : NextBatch(B)
  \/ \E r \in out : Resubmit(r)
  \/ \E R \in SUBSET out : Settle(R)
  \/ \E expired \in SUBSET queue : Tick(expired)
  \/ \E c \in Client : OnClientDisconnected(c)

Spec == Init /\ [][Next]_vars

-----------------------------------------------------------------------------

(* resubmit() bypasses the overflow check (base.py, "Bypasses overflow       *)
(* checks"), so max_queue_size does not bound the queue.  What bounds it is  *)
(* the queue together with what is in dispatch: retries can push the queue   *)
(* past max_queue_size only by as many requests as were handed out.          *)
QueueBound == Cardinality(queue) + Cardinality(out) <= MaxQueue + MaxOut

(* A request is never held and in dispatch at the same time: it would be     *)
(* dispatched twice.                                                         *)
NeverTwice == queue \intersect out = {}

(* Once past max_queue_size (only retries get it there) submissions cannot   *)
(* make the queue longer: it grows only by a request that was handed out.    *)
OverfullGrowsByRetryOnly ==
  [][Cardinality(queue) >= MaxQueue /\ Cardinality(queue') > Cardinality(queue)
       => queue' \ queue \subseteq out]_vars

=============================================================================
