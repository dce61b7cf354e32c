-------------------------------- MODULE Tiers --------------------------------
(* The strategies that queue by tier: scheduler/priority_tiered.py (a deque   *)
(* per tier), scheduler/tiered_deadline.py (a heap per tier) and              *)
(* scheduler/deadline_aware.py (one heap, hence one tier).                    *)
(*                                                                            *)
(* A deque and a heap are both the sequence of requests in the order they     *)
(* entered: popleft takes the first, heappop (external) the best score and,   *)
(* of equal scores, the least counter, which is the first to have entered.    *)
EXTENDS StrategyBase, Filter

CONSTANTS
  Strategies,     \* which of the three are looked at
  NumTiers,       \* priority_tiered.num_tiers, ge=1
  Priority,       \* values of request.priority, 0 the most urgent
  Urgency,        \* values of a score without its age term, priority included
  AgeWeight,      \* age_weight, in units of score
  LatencyBudget,  \* latency_budget_ms of each client, in units of time
  TTL,            \* request_ttl_ms, in units of time
  MaxTime         \* bound: the clock stops here

ASSUME TiersAssumption ==
  /\ Strategies \subseteq {"priority_tiered", "tiered_deadline", "deadline_aware"}
  /\ NumTiers \in Nat \ {0}
  /\ Priority \subseteq Nat /\ Urgency \subseteq Nat
  /\ {AgeWeight, TTL, MaxTime} \subseteq Nat
  /\ LatencyBudget \in [Client -> Nat \ {0}]
  \* a unit of score small enough for a score to be whole
  /\ \A c \in Client : AgeWeight % LatencyBudget[c] = 0

VARIABLES
  strategy,  \* which scheduler this is; never changes
  tiers,     \* the requests of each tier, in the order they entered
  total,     \* _total; deadline_aware keeps none
  out,       \* InferenceRequests handed to the server
  now,       \* time.monotonic()
  passed     \* history: <<y, x>> when y was handed out while x waited in its tier

vars == <<strategy, tiers, total, out, now, passed>>

InferenceRequest ==
  [id: Request, priority: Priority, base: Urgency, received_at: 0 .. MaxTime,
   score: Nat, retried: BOOLEAN]

Tier == 0 .. NumTiers - 1

TypeOK ==
  /\ strategy \in Strategies
  /\ tiers \in [Tier -> Seq(InferenceRequest)]
  /\ total \in Int
  /\ out \subseteq InferenceRequest
  /\ now \in 0 .. MaxTime
  /\ passed \subseteq Request \X Request

Init ==
  /\ strategy \in Strategies
  /\ tiers = [t \in Tier |-> <<>>]
  /\ total = 0 /\ out = {} /\ now = 0 /\ passed = {}

-----------------------------------------------------------------------------
(* Helpers.                                                                  *)

Held == UNION {ToSet(tiers[t]) : t \in Tier}

Scored == strategy # "priority_tiered"

TierFor_unclamped(p) == IF strategy = "deadline_aware" THEN 0 ELSE p

\* _tier_for: a priority beyond the last tier belongs to the last.
TierFor(p) ==
  IF strategy = "deadline_aware" THEN 0
  ELSE IF p < NumTiers THEN p ELSE NumTiers - 1

AgeTerm(age, budget) == (AgeWeight \div budget) * (IF age < budget THEN age ELSE budget)

ComputeScore_budgetLeft(x, t) ==
  LET budget == LatencyBudget[ClientOf[x.id]]
  IN IF Scored THEN x.base + (AgeWeight \div budget) * (budget - (t - x.received_at))
     ELSE 0

\* _compute_score of x at time t: its age counts against its client's budget.
ComputeScore(x, t) ==
  IF Scored THEN x.base + AgeTerm(t - x.received_at, LatencyBudget[ClientOf[x.id]])
  ELSE 0

IsExpired(x) == now - x.received_at > TTL

Nonempty == {t \in Tier : tiers[t] # <<>>}

Highest == CHOOSE t \in Nonempty : \A u \in Nonempty : t <= u

Lowest == CHOOSE t \in Nonempty : \A u \in Nonempty : u <= t

\* The place in tier t of what comes out next: popleft, or heappop with __lt__.
NextIn(t) ==
  LET q == tiers[t]
      Before(i, j) == \/ q[i].score > q[j].score
                      \/ q[i].score = q[j].score /\ i <= j
  IN  IF Scored THEN CHOOSE i \in DOMAIN q : \A j \in DOMAIN q : Before(i, j) ELSE 1

VictimsIn_newest(t) == {Len(tiers[t])}

\* The places in tier t that an overflow may drop: popleft, or the earliest
\* received_at, of several the first in the heap's array.
VictimsIn(t) ==
  LET q == tiers[t]
  IN  IF Scored THEN {i \in DOMAIN q : \A j \in DOMAIN q :
                        q[i].received_at <= q[j].received_at}
      ELSE {1}

\* What the overflow test compares with the bound.
Size == IF strategy = "deadline_aware" THEN Len(tiers[0]) ELSE total

\* _total += n, in the strategies that keep it.
Count(n) == total' = IF strategy = "deadline_aware" THEN total ELSE total + n

\* x, with a score computed in the call, enters its tier when the tiers are as in ts.
Push(ts, x) ==
  tiers' = [ts EXCEPT ![TierFor(x.priority)] =
              Append(@, [x EXCEPT !.score = ComputeScore(x, now')])]

\* Rebuilding every tier without the requests of R: tick, disconnect.
Purge(R) ==
  /\ tiers' = [t \in Tier |-> Without(tiers[t], R)]
  /\ Count(- Cardinality(R))

\* The request the server builds for slot r: received_at is taken in recv().
Fresh(r, p, b) ==
  [id |-> r, priority |-> p, base |-> b, received_at |-> now, score |-> 0,
   retried |-> FALSE]

-----------------------------------------------------------------------------
(* Operations.                                                               *)

SubmitRoom(x) ==
  /\ Size < MaxQueue
  /\ Push(tiers, x)
  /\ Count(1)

\* _total is decremented by the drop and incremented by the push.
SubmitDropping(x) ==
  /\ Size >= MaxQueue /\ OverflowPolicy = "drop_oldest"
  /\ \E i \in VictimsIn(Lowest) : Push([tiers EXCEPT ![Lowest] = RemoveAt(@, i)], x)
  /\ UNCHANGED total

\* The loop does not yield between recv() and submit(), but decoding takes time:
\* the score is computed at any later moment.  Under reject_newest a full queue
\* raises QueueFullError and changes nothing.
Submit(r) ==
  /\ r \notin Ids(Held) \union Ids(out)
  /\ now' \in now .. MaxTime
  /\ \E p \in Priority, b \in Urgency :
       SubmitRoom(Fresh(r, p, b)) \/ SubmitDropping(Fresh(r, p, b))
  /\ passed' = {p \in passed : r \notin {p[1], p[2]}}
  /\ UNCHANGED <<strategy, out>>

Resubmit_uncounted(x) ==
  /\ UNCHANGED <<strategy, total, now, passed>>
  /\ Push(tiers, [x EXCEPT !.retried = TRUE])
  /\ out' = out \ {x}

Resubmit_asNew(x) ==
  /\ UNCHANGED <<strategy, now, passed>>
  /\ Push(tiers, [x EXCEPT !.retried = TRUE, !.received_at = now])
  /\ Count(1)
  /\ out' = out \ {x}

Resubmit(x) ==
  /\ UNCHANGED <<strategy, now, passed>>
  /\ Push(tiers, [x EXCEPT !.retried = TRUE])
  /\ Count(1)
  /\ out' = out \ {x}

NextBatch_peeks ==
  /\ Nonempty # {} /\ Cardinality(out) < MaxOut
  /\ out' = out \union {tiers[Highest][NextIn(Highest)]}
  /\ Count(-1)
  /\ UNCHANGED <<strategy, tiers, now, passed>>

NextBatch ==
  /\ Nonempty # {} /\ Cardinality(out) < MaxOut
  /\ LET x == tiers[Highest][NextIn(Highest)]
         rest == RemoveAt(tiers[Highest], NextIn(Highest))
     IN  /\ out' = out \union {x}
         /\ tiers' = [tiers EXCEPT ![Highest] = rest]
         /\ passed' = {p \in passed : p[2] # x.id}
                        \union {<<x.id, y>> : y \in Ids(ToSet(rest))}
  /\ Count(-1)
  /\ UNCHANGED <<strategy, now>>

Tick ==
  /\ Purge({x \in Held : IsExpired(x)})
  /\ UNCHANGED <<strategy, out, now, passed>>

\* deadline_aware inherits the empty method of the ABC: it keeps the requests.
OnClientDisconnected(c) ==
  /\ strategy # "deadline_aware"
  /\ Purge({x \in Held : ClientOf[x.id] = c})
  /\ UNCHANGED <<strategy, out, now, passed>>

\* The server is done with x: answered, failed for good or lost.
Settle(x) ==
  /\ out' = out \ {x}
  /\ UNCHANGED <<strategy, tiers, total, now, passed>>

Advance ==
  /\ now < MaxTime
  /\ now' = now + 1
  /\ UNCHANGED <<strategy, tiers, total, out, passed>>

Next ==
  \/ \E r \in Request : Submit(r)
  \/ \E x \in out : Resubmit(x) \/ Settle(x)
  \/ NextBatch
  \/ Tick
  \/ \E c \in Client : OnClientDisconnected(c)
  \/ Advance

Spec == Init /\ [][Next]_vars

-----------------------------------------------------------------------------
(* Properties.                                                               *)

(* _total is adjusted by hand in six methods of each tiered scheduler, and   *)
(* overflow goes by it: it is the number of requests the tiers hold, no two  *)
(* of which are one request, nor is one of them in dispatch.                 *)
TotalMatches ==
  /\ Size = Cardinality(Ids(Held))
  /\ Ids(Held) \intersect Ids(out) = {}

(* Retries join at the tail of their tier and the overflow policy removes    *)
(* from its middle.  In a deque a request that never failed still overtakes  *)
(* no earlier one of its tier that never failed either.  In the heaps a      *)
(* retry does not lose its rank: with a new counter and a recomputed score,  *)
(* it lets a request that had waited behind it out first only on a tie.      *)
HandOutOrder ==
  [][\A x \in out' \ out, y \in Held \intersect Held' :
       IF Scored
       THEN <<y.id, x.id>> \in passed => x.score = y.score
       ELSE /\ TierFor(x.priority) = TierFor(y.priority)
            /\ ~ x.retried /\ ~ y.retried
            => y.received_at >= x.received_at]_vars

(* An overflow spares every request of a higher tier than the one it drops,  *)
(* and in that tier drops the oldest, save (in a deque) retries that were    *)
(* put behind younger requests.                                              *)
DropsFromTheBottom ==
  [][\A d \in Held \ Held' : out' = out /\ ~ (Held' \subseteq Held)
       => \A y \in Held :
            \/ TierFor(y.priority) < TierFor(d.priority)
            \/ /\ TierFor(y.priority) = TierFor(d.priority)
               /\ d.received_at <= y.received_at \/ (~ Scored /\ y.retried)]_vars

S == INSTANCE Scheduler WITH queue <- Ids(Held), out <- Ids(out)

(* Each of the three strategies keeps the promise of the Scheduler ABC.      *)
Refines == S!Spec

=============================================================================
