# Verification of inferential

Inferential is a server that takes observations from robots and other clients over ZeroMQ, queues
them as inference requests, dispatches them to models (in process, or on Ray Serve) and sends the
answers back; SDKs for Python, Rust and C++ talk to it. This directory holds TLA+ models of it, TLC
configurations that check them on small instances, and theorems, proved with TLAPS, that hold for
every instance.

## 1. Inventory

Python package `python/inferential/`; paths below are relative to it unless they start elsewhere.

| Component | State it keeps | Operations | Talks to | What makes it correct | Here |
|---|---|---|---|---|---|
| Scheduler ABC (`scheduler/base.py`, `request.py`) | none; `InferenceRequest` carries score, `_counter`, `retry_count` | `submit`, `resubmit`, `next_batch`, `tick`, `on_client_*` | called by the server | a request is held until handed out, dropped, expired or purged; never held twice | `Scheduler` |
| `model_deadline` (default) | dict of heaps, `_total`, `_counter` | the same, per model | server, both kinds of loop | `_total` and keys agree with the heaps; the oldest is dropped; a retry keeps its rank | `ModelDeadline` |
| `deadline_aware`, `tiered_deadline`, `priority_tiered` | one heap / a heap per tier / a deque per tier, `_total` | as the ABC | server (legacy loop) | as the ABC; deques serve in order of arrival, in heaps a retry keeps its rank; the lowest tier pays for an overflow | `Tiers` |
| `round_robin`, `batch_optimized` | deques per client / per model with `_first_arrival`, `_total` | as the ABC, `on_client_connected`, batches | server (legacy loop) | as the ABC; a waiting client keeps its turn and is served; nothing but a full batch sets a flush timer back | `Deques` |
| Server (`server.py`) | scheduler; per model: event, semaphore, task; coroutines | receive, dispatch loops, tick, predictive wake, `use_scheduler` | transport, assembler, scheduler, dispatcher, trackers, metrics | permits conserved; one home per request; no lost wake-up; limits; settlement | `Server`, `Lifecycle` |
| Dispatchers (`dispatch/`) | handles; per model a count of requests, the last error and averages | `dispatch` | server, models, Ray | one result per request, also of overlapping calls; no call is missing from the count, no failure from the errors | `Dispatch`, bytes in `Wire` |
| Observation decoding (`observation/`), wire format (`proto/`) | none | `decode`, `validate_slots` | server | what is written is what is read | `Wire` |
| Clients (`client.py`, `rust/`, `cpp/`) | socket, response buffers | `observe`, `get_result` | server | no answer lost or returned twice, by any timeout | `Session`, bytes in `Wire` |
| Transport (`transport/`) | ROUTER socket | `recv`, `send` | clients | answers reach the sender while it is connected | `Session` |
| Tracking (`tracking/`) | cadence averages, response records, registry | `on_request`, `on_response_sent`, ... | server | CONSUMED means returned; silence is detected | records in `Session`, silence in `Server` |
| Configuration (`config/`) | limits; watcher: mtime, SIGHUP flag | load, watch | all | a change is seen | limits are the constants |
| Metrics (`metrics/`) | ring buffers, callbacks | `record`, `get_stats` | server | counts what the docs say | not modelled |

What is hard in this code: coroutines that interleave at every `await` and share one scheduler
object, which `use_scheduler` may replace under them; a semaphore permit taken in one coroutine and
released in another; an event that is cleared after the fact; retries that come back to another
scheduler than they left, past the overflow check; bookkeeping (`_total`, dict keys, `_counter`,
`_first_arrival`) kept by hand in many places; a TTL that is the only thing that ends a request
nobody will take; dispatches that overlap and raise half-way; `get_result()` calls that give up
before a late answer; offsets kept by hand in three languages and sliced by in three others.
`PROJECT.json` lists each hazard with its line and the properties that cover it.

## 2. Modules

    SchedulerBase ─┬─ StrategyBase ─┬─ Scheduler
                   │                ├─ ModelDeadline ─ ModelDeadlineProofs
                   │                ├─ Deques ─ DequesProofs
                   │                └─ Tiers ─ TiersProofs
                   └─ Server ─ ServerProofs
    Filter ─ FilterProofs     Dispatch ─ DispatchProofs
    Lifecycle                 Session ─ SessionProofs
                              Wire ─ WireProofs

    ModelDeadline, Deques, Tiers, Server implement Scheduler   (Refines, UsesScheduler)
    Server implements Lifecycle                                (KeepsLifecycle)

`Deques`, `Tiers`, `Session` and `Dispatch` extend `Filter` as well, and their proof modules, with
`WireProofs`, extend `FilterProofs`. An `MC_` module per detailed module gives the constants of its
instances.

**`SchedulerBase`, `StrategyBase`**: what the server and all strategies share. Requests (objects; a
settled one is a free slot that may be received again), their client and model, `max_queue_size`,
`overflow_policy`, `AfterSubmit` (the queues `submit` may leave behind), and how much the caller
takes.

**`Filter`**: `Without`, what a list comprehension leaves of a deque, heap or list, written as a
sequence and not with a recursive operator, so that it can be reasoned about.

**`Scheduler`**: the abstract specification, the contract of the ABC. `queue` is what the scheduler
holds, `out` what its caller took and has neither settled nor handed back. Which request is dropped,
handed out or expired is left open.

**`ModelDeadline`**: the default strategy. `held` is the union of the heaps, each request a record
with its base score (cadence, urgency, steps, priority), `received_at`, `score` and `counter`;
`inserted` is the dict, keys with the counter at insertion, which is dict order; `total`, `counter`
as in the code. A heap is a set: `heappop` returns its least element under `__lt__` (`Top`). When
several requests of a heap share the earliest `received_at`, the array position decides which is
dropped, so `Victims` leaves that open. `received_at` is taken in `recv()` and the score computed in
`submit`, after decoding: `Submit` takes any time, so the age term of a request that was never
retried is small but not nil, and it is divided by the budget of the request's own client
(`LatencyBudget`). Two such requests of equal urgency therefore come out in either order, and no
property says otherwise. `passed` is a history variable: `<<y, x>>` is in it from the step that hands
out y while x waits in its heap, until x is handed out or either is a new request. No guard reads it.

**`Deques`**: the two strategies that keep a dict of deques, chosen by `strategy` in the initial
state. `order` is the key order of the dict, `waiting` the deques, `timer` the time since
`_first_arrival` (which `Flush` starts anew for what a batch leaves behind; ages run on). `ServeTurn`
is `round_robin.next_batch` (idle clients before the one served go to
the end with it), `Flush` that of `batch_optimized` (the first model in dict order that is full or
late); both compare only the heads when they overflow (`OldestHead`). Ages are relative, so that
behaviours are infinite.

**`Tiers`**: the three strategies that queue by tier, chosen by `strategy`. A tier is the sequence
of its requests in the order they entered, which is the order of a deque and breaks the ties of a
heap, since the counter rises with each push (`NextIn`). `VictimsIn` is what an overflow may drop
there. `deadline_aware` has no `_total` and ignores disconnects. Receipt and scoring, budgets and
`passed` are as in `ModelDeadline`; `passed` is kept for the two strategies with heaps.

**`Server`**: the coroutines of `Server.run` over one scheduler. An action is what a coroutine does
between two awaits. `loop[m]` is where `_model_dispatch_loop(m)` is suspended, `task[r]` where
`_dispatch_single` is, `batch[r]` what the legacy loop still has to do with `r`; `permits` and
`event` are the semaphore and the event of a model. Where the code runs several iterations of a
loop without suspending, each iteration is an action, which only adds interleavings. The scheduler
under it is a set of requests, "aware" (`model_deadline`) or "plain" (the others that hand out one
request at a time). Time is two facts: a request may be `aged`, a client `silent`.

| Code | Action |
|---|---|
| `_receive_loop`, one observation | `Receive` (with `EnsureAndWake`: `_ensure_model_dispatch`, `event.set()`) |
| `_model_dispatch_loop` | `LoopTakes`, `LoopFindsNone`, `LoopYields`, `LoopResumes` |
| `_dispatch_single` | `TaskSucceeds`, `TaskFails`, `TaskRaises`, `TaskSends` |
| `_dispatch_loop` | `LegacyTakes`, `LegacyReturns`, `LegacyFails`, `LegacySends`, `LegacySent`, `LegacyRaises` |
| `_tick_loop` | `Tick` (expiry, then purge of silent clients) |
| `_predictive_wake_loop` | `PredictiveWake` |
| `use_scheduler` | `UseScheduler` |
| the environment | `Age`, `Silence` |

**`Lifecycle`**: the abstract life of a request: queued, dispatched, handed back at most
`max_retries` times, settled.

**`Dispatch`**: calls of `dispatch()` that overlap. `todo` are the requests of a call's batch that
the loop has not come to, `group` those whose model calls are awaited. The order of `by_model`
(models as they first appear, under each its requests) is the relation `Before` on the batch, and
`NextRequest` is the first of it in `todo`. `LocalCalls` awaits one model call at a time, `RayCalls`
all those of a model; `ModelReturns`, `ModelRaises` and `ResultUnbuilt` are the three ways one ends,
`Raise` is the call of `dispatch()` that raises because a tensor cannot be rebuilt or an app is not
there. `health` has the fields `total_requests` and `last_error` of `EndpointHealth`, with the number
of the request that `last_error` names, 0 for None; the averages are left out.

| Code | Action of `Dispatch` |
|---|---|
| `dispatch()` up to the first await | `StartDispatch` |
| `LocalDispatcher`: no model / a request | `LocalFindsNone` / `LocalCalls` |
| `RayDispatcher`: a model's requests, `gather` | `RayCalls` |
| a model call ends | `ModelReturns`, `ModelRaises`, `ResultUnbuilt` |
| `return results` | `ReturnResults` |

**`Wire`**: one exchange as bytes. Two kinds of SDK (`python`: numpy arrays under distinct names;
`native`: raw bytes with any type and shape) write an observation tensor by tensor
(`ObserveTensor`); `Decode` refuses or accepts it as the assembler and `validate_slots` do;
`Reconstruct` rebuilds arrays, or raises out of the dispatcher; `EncodeTensor` writes the result;
`ParseResponse` is `get_result`. A frame is its descriptors, metadata keys and payload; a text is
represented by its key. An array has a data type, a number of elements, its bytes and whether they
are in the other byte order (`swapped`), which no descriptor can say.

**`Session`**: one client and the server. `up` and `down` are the messages under way, `todo` the
observations the server has accepted, `sending` the answers whose `send()` is awaited, `active` the
record of `ResponseTracker`; `buffers` are those of `Connection` and the queues of
`AsyncConnection`, `waiting` the `get_result()` calls in progress. `sdk` tells apart the
synchronous and the asynchronous Python client, the blocking Rust and C++ clients (which
take the next answer, of any model) and the asynchronous Rust client, which sets no identity and so
is a stranger to the server after each reconnect. What becomes of an observation between receipt
and answer is `Server`'s business; here it is answered or discarded at any time.

| Code | Action of `Session` |
|---|---|
| `observe()` | `Observe` |
| `get_result()`: call, one pass, timeout | `GetResult`; `SyncPass`, `AsyncTakes`, `NativeTakes`; `TimesOut` |
| `AsyncConnection._reader_loop` | `ReaderRoutes` |
| `ZmqTransport.recv`, `ResponseTracker.on_request` | `Receive` |
| `ResponseTracker.on_response_sent`, then `send` | `DispatchSucceeds`, then `Send` |
| a connection breaks, comes back | `Breaks`, `Reconnects` |

Definitions named `X_bug` are forms of `X` with a plausible bug; no specification uses them. Put in
the place of `X` they break the property they are listed with in `PROJECT.json`.

## 3. Runs

| Run | Question | Instance |
|---|---|---|
| `model_deadline` | Do heaps, keys, total and counter stay consistent; does a retry keep its rank; does overflow drop the oldest; does it implement `Scheduler`? | 3 requests, 2 models sharing a client, queue 2, 2 out |
| `next_batch_order` | (violated) does `next_batch` drain the highest score? | the same, legacy loop only |
| `deques` | Are `_total`, rotation and flush timers right under every operation; is a waiting client, or the first model in dict order, served; what does an overflow drop; do both implement `Scheduler`? | 4 requests, 3 clients, 2 models, queue 2, batches of 2 |
| `tiers` | Do the three tiered strategies keep count, rank or order in a tier, and drop policy; do they implement `Scheduler`? | 3 requests, 2 tiers, priorities 0 and 2 (clamped), queue 2, 1 out |
| `server_pipeline` | Permits, one home, wake-ups, lifecycle with both loops and swaps | 3 requests, 2 models, 2 + 1 permits |
| `server_bound` | Bound on accepted requests; does the server use its scheduler as the ABC expects? | 4 requests, queue 1, 1 permit, `reject_newest` |
| `server_live` | Is every accepted request settled; does a hung model leave the others alone? | 3 requests, 2 models, queue 1, fair, m1 hung or not, raising dispatches, swaps |
| `pipeline_off` | (violated) is `max_concurrent_dispatch` the limit when pipeline dispatch is off? | 3 requests, aware |
| `swap_retry` | (violated) do per-model loops own what is queued when they should? | 3 requests, swaps |
| `dispatch` | Does each request of overlapping calls get one result; what makes `dispatch()` raise; does health miss a call or a failure? | 5 requests (one unreadable), 3 models (one not deployed), 2 calls of up to 3 requests |
| `wire` | Is what an SDK wrote what the model sees, and the result what the SDK shows? | frames of up to 3 tensors out of 8, two names |
| `session` | Does any SDK lose or repeat an answer; is a timeout honest; is a waiting call answered; is CONSUMED true? | 2 observations, 2 models, 2 tasks, 1 break |

### Bounds

* `MaxTime`, `MaxCounter` (`ModelDeadline`): the clock stops at 3, five pushes. TTL is 1 and the
  latency budgets are 1 and 2, so requests of every age class (fresh, saturated age term, expired)
  coexist, and equal ages weigh differently;
  five pushes allow a full queue of two, an overflow and two retries in one behaviour. `Tiers` stops
  the clock at 2.
* `MaxAge` (`Deques`): an age beyond it is not told apart. It is the TTL plus one: no property
  depends on how long ago a request expired. `MaxWait` caps the timer in the same way, where the
  code only compares with it.
* `MaxQueue` is 1 or 2, so that a full queue, an overflow and, through retries, an overfull queue
  all occur with 3 to 5 requests.
* `MaxRetries = 1`: first failure retried, second final. `MaxConcurrent` and the permits are 1 or 2:
  less than the requests in play, so that loops do block on them.
* `CanAge`, `CanFallSilent` name the requests and clients for which time passes. Where no property
  depends on expiry they are small or empty to keep the state space small.
* `MaxTensors = 3`: two tensors of one name with one between them. The arrays have one and two
  bytes, none, no data type, one without a proto type, a shape that does not fit, and the other byte
  order.
* `MaxObs = 2`, `MaxBreaks = 1` (`Session`): a late answer and the one after it, across a reconnect.
  With `MaxObs = 3` the same properties hold (1.5 million states), which takes too long for a
  regular run.
* `Call`, `MaxBatch` (`Dispatch`): two overlapping calls, groups of more than one request and a
  group behind another.

Slots are reused in the schedulers and the server, so behaviours are infinite although requests are
few. `CHECK_DEADLOCK FALSE` stands only where the system really may stop: a raising dispatch of the
legacy loop ends `run()` (`server_*`), an exchange ends (`wire`), all calls have returned
(`dispatch`), a client waits for ever for an answer that was lost (`session`).

`server_pipeline` and `server_bound` use symmetry over the requests of model m1, `dispatch` over two
requests and the calls; none of them checks liveness.

### Fairness

`Server`: asyncio resumes every ready coroutine and fires every timer, so each model loop and the
tick loop are weakly fair; a task step and a legacy step are fair only where no model is `Hung`
(nothing in the code bounds a dispatch). `Settles` has the premise that dispatches return,
`DispatchReturns`, and `OthersServed` does without for the hung model: one run, in which m1 may hang,
checks both. Time passes, so `Age` is fair. Nothing is assumed of observations, swaps, silence and
predictive wake-ups. `Settles` lets the server stop (`running`), as it does when a legacy dispatch
raises: what was pending then stays so.

`Deques`: the legacy loop polls `next_batch` every millisecond, dispatches end, time passes. Ticks
are not assumed, so `NoStarvation` does not rest on expiry.

`Session`: a call of `get_result()` in progress goes on, and the reader task of the asynchronous
Python connection runs. Nothing is assumed of the server, the network or of timeouts.

## 4. Proofs

Every safety invariant, action property and refinement that a passing run checks is also a theorem,
for every value of the constants that satisfies the named assumptions. These are:

| Assumption | Says | From |
|---|---|---|
| `OwnerAssumption` | every request has a client and a model | `scheduler/request.py` |
| `ConfigAssumption` | queue size positive, one of the two policies | `config/schema.py` |
| `MaxOutAssumption` | the caller takes at least one request | `Server`'s limits |
| `ScoreAssumption`, `DequesAssumption`, `TiersAssumption` | weights, TTL, budgets, batch sizes and bounds are numbers of the ranges pydantic allows, tiers are listed; the unit of score is so small that the age weight is a multiple of each budget. The age weight, any float there, is not negative, and a known client's own budget, unchecked there (`:74`), is positive like the default | `config/schema.py` |
| `ServerAssumption`, `ModelsAssumption` | permits and limits are positive, retries a number; the models are finitely many | `config/schema.py` |
| `SessionAssumption`, `WireAssumption`, `DispatchAssumption` | types of the constants and bounds; a task exists | |

**Helpers (`FilterProofs`).** `Without` thins a sequence: what is left is, in its order, exactly
what was not taken out (`WithoutFacts`). It is built from ranks, the number of kept indices up to
an index, so its lemma follows from the cardinality of intervals (`RankFacts`) and not from an
induction. The library's induction theorems take an operator as a parameter, which no installed
prover can instantiate; where a least or first element is needed, `LeastExists` and `FirstExists`
get it from well-foundedness in the form that speaks of sets. The rest says how appending,
dropping a prefix and removing at an index change a sequence as a set and as an order.

**Strategies.** Each implements `Scheduler` (`Refinement`), and `ModelDeadlineProofs` ends with the
theorems about `Scheduler` itself, which every strategy inherits through its refinement:
`SchedulerTypeCorrect`, `SchedulerNeverTwice`, `SchedulerQueueBound`, `SchedulerOverfullGrowth`. They
are stated of an instance `A` with variables of its own. `QueueBound` bounds queue and out together;
it is inductive only with the finiteness of both, the bound on `out`, and `NeverTwice`, since moving
a request between the two must not change their sum.

* `ModelDeadlineProofs`: `TypeCorrect`, `AlwaysBooked`, `QueueAlwaysBounded`, `Refinement`,
  `AlwaysDropsOldest`, `RetriesKeepRank`. The inductive invariant adds to the properties:
  `received_at <= now`, which makes ages and so scores natural numbers; counters in the heaps and
  dict places lie below `counter`, which keeps the next one fresh; `out` is finite and respects its
  bound. `Refinement` needs the total because `Submit` decides overflow by `_total` where
  `Scheduler` counts the queue, and distinctness because the refinement mapping forgets all of a
  request but its identity. `RetriesKeepRank` rests on `Ranked`: whoever was handed out over a request
  that still waits scores at least as much, in dispatch and after a retry. It is inductive because a
  score recomputed later from the same `received_at` is never lower (`ScoreMonotone`).
* `DequesProofs`: `TypeCorrect`, `TotalAlwaysMatches`, `TimersAlwaysKept`, `Refinement`,
  `OverflowDropsTheOldest`, `TurnsAlwaysKept`. The invariant (`Sound`, `OutGood`, `CountGood`) says
  of every deque that its requests belong to its key, each once, none that was never retried behind
  a younger one; of the dict that no key with requests or with a timer is missing and none is there
  twice; of a timer that it runs where requests wait. `TimerKept` is proved by operation: a flush that
  leaves a request behind takes a full batch from before it (`FlushKeepsTimers`), the others touch
  the timer of no deque that keeps a request.
  `TurnKept` is proved by operation, for each key k (`KeepsTurn`): what comes before k in the new
  order came before it in the old one.
* `TiersProofs`: `TypeCorrect`, `TotalAlwaysMatches`, `HandsOutInOrder`, `OverflowDropsFromTheBottom`,
  `Refinement`. The invariant says of a tier that its requests belong there, each once, and that in
  the order of entry none that never failed is behind one that was received later; and that a request
  is in one tier. For the heaps `Ranked` is added as in `ModelDeadlineProofs`.

**Server (`ServerProofs`).** `TypeCorrect`, `PermitsAlwaysConserved`, `OneHomeAlways`, `NoWakeupLost`,
`ImplementsLifecycle`, `AlwaysUsesScheduler`, `QueueAlwaysBounded`, with `use_scheduler` at any time
and any number of requests. Permits are only accounted for if a task starts for a request that has
none, which is `OneHome`, and if the tasks of a model are finitely many although requests need not
be (`IInv`). A wake-up is not lost because a fresh request enters the queue through `Receive` only,
which sets the event of its model in the same step, and a loop goes to wait only when nothing of its
model is queued. `Lifecycle` is implemented because the stage of a request is where it is, and it is
in one place. For the bound, `LInv` adds that the queue is finite and the legacy batch within
`max_concurrent_dispatch`; the tasks in flight are as many as permits taken, which are counted
as a set of pairs (`Permit`), not summed with a fold.

**Dispatchers (`DispatchProofs`).** `OneResultAlways`, `RaiseAlwaysCaused`, `TypeCorrect` rest on
`IInv`: of a running call, the results so far, the group awaited and what is left are, in this
order, the batch in the order of `by_model` (`Stage`, `Precede`), and the group is of one deployed
model and can be rebuilt. `Before` is shown to be a strict total order on a batch (`BeforeOrders`),
so there is a next request (`NextFacts`), and a model's requests are consecutive (`ModelFirst`).
`HealthAlwaysCounts` rests on `HInv`, which adds that the calls ended are finitely many although
calls need not be: every step either keeps the outcomes of all calls (`LoopsKeepOutcomes`:
collecting, returning and raising move results, and lose none) or adds the one that `health` counts
in the same step (`EndAdds`, `HealthAdds`), once or, for a failure, twice (`Moved`).

**Session (`SessionProofs`).** `TypeCorrect`, `EachOnceAlways`, `ConsumedIsReturned`,
`TimeoutAlwaysHonest`, for every SDK and any number of observations, breaks and tasks.
The invariant has an ordered part, `Flow`: each answer that was sent is in one place (socket,
buffer, returned, lost), and in the order of sending the socket is behind the buffers, which are
behind what was returned for their model; `Upstream`: ids not yet answered are in one place, and
were never answered before; `Tracked`: in lockstep only the last observation can be without a
returned answer, and the tracker's record is of a request that was dispatched. `Flow` is not inductive
without `Upstream`: an answer stays in one place only if what is still to be answered was not
answered before.

**Wire (`WireProofs`).** `SlicesAlwaysMatch`, `TypeCorrect`, `PythonAlwaysUnderstood`, `ModelAlwaysSees`,
`ClientAlwaysSees`, for any set of arrays and any number of tensors. The lemmas about slices:
appending to a payload changes none (`AtStays`), and what was appended is the last (`AtEnd`). The
invariant `JInv` adds that each descriptor says of its tensor what the array was (`Described`), and
that the input of the model is the dict of the frame it was read from until the answer is encoded.

Only model-checked: liveness (`Settles`, `OthersServed`, `NoStarvation`, `Answered`), which needs
`ENABLED` and fairness, out of the prover's reach; and the three properties that are violated.

## 5. Disagreements found

1. `next_batch_order`: `ModelAwareScheduler.next_batch` says it drains "from model with
   highest-scored request" (`scheduler/base.py:73`); it drains the first model in dict order.
2. `pipeline_off`: with pipeline dispatch disabled (the default) and a model-aware scheduler (the
   default), the receive loop starts per-model loops anyway (`server.py:191`). They dispatch next to
   the legacy loop, so `max_concurrent_dispatch` (`docs/architecture.md:237`) is not the limit.
3. `swap_retry`: a request in dispatch when `use_scheduler` installs a model-aware scheduler may
   fail and be resubmitted there while its model has no loop (`server.py:447`); the legacy loop
   yields, so it waits for the next observation for that model or for its TTL.

Seen while modelling, and without a run of its own:

* The age term, "anti-starvation" (`scheduler/deadline_aware.py:80`, `model_deadline.py:27`), is
  computed when a request enters and never again while it waits. For a request that never failed it
  is the time from `recv()` to `submit` over the budget of its client: requests of equal urgency come
  out in an order that decoding times and budgets decide, not in that of their arrival. What it does
  for retries is `RetryKeepsRank`. The cadence urgency of a fresh request is never positive, because its clock was
  reset a moment before (`server.py:153`, `:178`).
* A purge that empties a deque of `batch_optimized` leaves its `_first_arrival`
  (`batch_optimized.py:105`), so the next batch may be flushed early. It may also be late:
  what a full batch leaves behind gets a fresh timer, overdue or not (`batch_optimized.py:83-84`), so
  a request may wait `max_wait_ms` anew for each full batch taken from before it. Nothing else sets
  a timer back (`TimerKept`). A model that is not first in dict order waits for a poll that finds no
  earlier one due, which may never come (`NoStarvation` promises nothing to it). The legacy loop exceeds `max_concurrent_dispatch` by up to `max_batch_size - 1`
  (`Refines` of `Deques` has that limit).
* `_drop_oldest` of `round_robin` and `batch_optimized` looks at the heads of the deques, where a
  retry behind younger requests is not seen: `DropsOldestButRetries` is what holds.
* A result that cannot be built is counted as a success and then as a failure, so `total_requests`
  of `EndpointHealth` has one request too many (`dispatch/local.py:60`, `:64`); `HealthCounts` allows
  for that and for no more.
* `docs/architecture.md:99` gives `BFLOAT16` as NumPy `float16`; the model is called with a `uint16`
  array of the raw bytes (`proto/__init__.py:70`), which is what `ModelSeesObservation` says.
* `dtype_from_numpy` goes by the name of the type (`proto/__init__.py:97`), which is the same for both
  byte orders: an array in the other order (`>f4`) is accepted as `FLOAT32`, its bytes travel as they
  are and are read in the machine's order, as other numbers. `ModelSeesObservation` and
  `ClientSeesResult` are about bytes.
* A tensor that does not lie in the payload is cut short by Python (`dispatch/base.py:64`), has no
  bytes in Rust and C++ (`rust/src/async_client.rs:146`). What the server writes always lies in it
  (`SlicesMatch`).
* One request whose tensors do not fit makes `dispatch()` raise and discards the results of the
  models called before it (`RaiseIsCaused`); in the legacy loop that ends `run()`.
* `get_result` of the Rust and C++ SDKs returns the next answer of any model on the connection. A
  timeout of 0 or less returns at once in the synchronous Python client, waits for ever in the
  asynchronous one; a negative one waits for ever in Rust and C++.
* `tracking/response.py:35`, "Previous response is now consumed", holds for clients that await each
  answer before they observe again (`ConsumedWasReturned`), and not for those that do not. A response
  is recorded before its send is awaited (`server.py:282`): if that fails, a client that goes on all
  the same makes it consumed too.
* A tensor named `response_id` or `model_id` would replace these keys of a result; an empty array
  in a result is not shown to the client.
* A drop by `drop_oldest` is counted nowhere although `queue_full_drops` is "Requests dropped due to
  full queue" (`docs/architecture.md:267`); a dispatch that raises is not in `dispatch_errors`
  (`:268`); a retry does not set its model's event, so it is found by the 1 ms poll in spite of "no
  polling delay" (`:249`).
* A retry gets a new counter, so it loses its rank on a tie (`RetryKeepsRank`): with `age_weight` nil
  (`config/schema.py:20`), for instance, to every queued request of its own urgency.

## 6. Not modelled

* Metrics: nothing in the program reads them back.
* `ConfigWatcher`: nothing in the package starts one.
* The cadence average, percentiles and latency averages: real numbers that only enter a score or a
  report. A score is any member of a small set in the strategies and left out in `Server`.
* The client registry, which only grows; the registries of strategies and policies, filled on
  import; `use_policy`, whose score is a base without an age term.
* The generated protobuf code, socket options, `close()` and process shutdown. Nothing is persisted:
  a restart is a new server.
* Sends that block for ever at the high-water mark, and garbage collection of a dispatch task.

## 7. Plan

The model covers what the program decides by, and its safety is proved. What would extend it: a
server whose legacy sends may block for ever (the hazard at `server.py:425`), with an abstract
client under it that joins `Server` and `Session`; and the close-down of `run()` with what is then
pending.
