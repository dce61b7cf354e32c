-------------------------------- MODULE Server --------------------------------
(* server.py: the coroutines of Server.run over one scheduler - the receive   *)
(* loop, a dispatch loop per model with its semaphore and event, the dispatch *)
(* tasks they start, the single ("legacy") dispatch loop, the tick loop, the  *)
(* predictive wake loop - and use_scheduler, which replaces the scheduler     *)
(* under them.                                                                *)
(*                                                                            *)
(* An action is what a coroutine does between two awaits at which it may be   *)
(* suspended (one event loop, so nothing interleaves inside); where the code  *)
(* runs several iterations without suspending, each is an action.  Which      *)
(* request a scheduler drops or hands out is left open here: ModelDeadline    *)
(* is about that.  Time is two facts: a request may outlive its TTL (aged), a *)
(* client may be silent longer than disconnect_timeout_s.                     *)
EXTENDS SchedulerBase, FiniteSetsExt

CONSTANTS
  MaxInflight,       \* get_model_max_inflight(m)
  MaxRetries,        \* scheduling.max_retries, ge=0
  MaxConcurrent,     \* scheduling.max_concurrent_dispatch, ge=1
  Pipeline,          \* scheduling.pipeline_dispatch.enabled
  Predictive,        \* scheduling.predictive_pre_dispatch.enabled
  Strategies,        \* kinds of scheduler configured, or installed while running
  DispatchMayRaise,  \* dispatcher.dispatch may raise, and not only return errors
  CanAge,            \* requests that may outlive request_ttl_ms
  CanFallSilent,     \* clients that may stop sending for disconnect_timeout_s
  Hung               \* models whose dispatch may never return

\* "aware": a ModelAwareScheduler (model_deadline); "plain": any other that
\* hands out one request per next_batch (batch_optimized does not).
ASSUME ServerAssumption ==
  /\ MaxInflight \in [Model -> Nat \ {0}]
  /\ MaxRetries \in Nat
  /\ MaxConcurrent \in Nat \ {0}
  /\ {Pipeline, Predictive, DispatchMayRaise} \subseteq BOOLEAN
  /\ Strategies \subseteq {"aware", "plain"}
  /\ CanAge \subseteq Request /\ CanFallSilent \subseteq Client
  /\ Hung \subseteq Model

\* Each has a semaphore, an event and a task in memory.
ASSUME ModelsAssumption == IsFiniteSet(Model)

VARIABLES
  running,  \* Server.run has not been ended by an exception
  sched,    \* kind of self._scheduler
  queue,    \* requests it holds
  loop,     \* where _model_dispatch_loop(m) is suspended; "none": not created
  permits,  \* _model_sems[m]._value
  event,    \* _model_events[m].is_set()
  task,     \* where _dispatch_single(r) is suspended; "none": no such task
  batch,    \* what the legacy loop has to do with r of its current batch
  retry,    \* request.retry_count
  aged,     \* requests older than request_ttl_ms
  silent,   \* clients not heard of for disconnect_timeout_s
  pending   \* requests accepted by submit() and not settled

vars == <<running, sched, queue, loop, permits, event, task, batch, retry,
          aged, silent, pending>>
loopVars == <<loop, permits, event>>

TypeOK ==
  /\ running \in BOOLEAN
  /\ sched \in {"aware", "plain"}
  /\ queue \subseteq Request
  /\ loop \in [Model -> {"none", "acquire", "yield", "wait"}]
  /\ permits \in [Model -> Nat]
  /\ event \in [Model -> BOOLEAN]
  /\ task \in [Request -> {"none", "dispatch", "send"}]
  /\ batch \in [Request -> {"none", "dispatch", "ok", "error", "send"}]
  /\ retry \in [Request -> 0 .. MaxRetries]
  /\ aged \subseteq Request
  /\ silent \subseteq Client
  /\ pending \subseteq Request

Init ==
  /\ running = TRUE
  /\ sched \in Strategies
  /\ queue = {}
  /\ loop = [m \in Model |-> "none"]
  /\ permits = [m \in Model |-> 0]
  /\ event = [m \in Model |-> FALSE]
  /\ task = [r \in Request |-> "none"]
  /\ batch = [r \in Request |-> "none"]
  /\ retry = [r \in Request |-> 0]
  /\ aged = {} /\ silent = {} /\ pending = {}

-----------------------------------------------------------------------------
(* Helpers.                                                                  *)

TasksOf(m) == {r \in Request : ModelOf[r] = m /\ task[r] # "none"}

Batch == {r \in Request : batch[r] # "none"}

InDispatch == {r \in Request : task[r] # "none" \/ batch[r] # "none"}

\* The requests of R are settled: answered, failed, rejected, dropped or
\* expired.  Their objects are gone.
End(R) ==
  /\ pending' = pending \ R
  /\ retry' = [r \in Request |-> IF r \in R THEN 0 ELSE retry[r]]
  /\ aged' = aged \ R

Fail_oneTooMany(r) ==
  \/ /\ retry[r] <= MaxRetries
     /\ retry' = [retry EXCEPT ![r] = @ + 1]
     /\ queue' = queue \union {r}
     /\ UNCHANGED <<aged, pending>>
  \/ /\ retry[r] > MaxRetries
     /\ End({r})
     /\ UNCHANGED queue

\* A failed result of r: back to the scheduler, past the overflow check, while
\* retries remain; dispatch_errors otherwise.
Fail(r) ==
  \/ /\ retry[r] < MaxRetries
     /\ retry' = [retry EXCEPT ![r] = @ + 1]
     /\ queue' = queue \union {r}
     /\ UNCHANGED <<aged, pending>>
  \/ /\ retry[r] >= MaxRetries
     /\ End({r})
     /\ UNCHANGED queue

\* finally: sem.release()
Release(m) == permits' = [permits EXCEPT ![m] = @ + 1]

-----------------------------------------------------------------------------
(* The receive loop.                                                         *)

EnsureAndWake_firstOnly(m) ==
  IF sched = "aware" /\ loop[m] = "none"
    THEN /\ event' = [event EXCEPT ![m] = TRUE]
         /\ loop' = [loop EXCEPT ![m] = "acquire"]
         /\ permits' = [permits EXCEPT ![m] = MaxInflight[m]]
    ELSE UNCHANGED loopVars

\* _ensure_model_dispatch and the wake-up that follows it: whenever the
\* scheduler is model-aware, whether pipeline dispatch is enabled or not.
EnsureAndWake(m) ==
  IF sched = "aware"
    THEN /\ event' = [event EXCEPT ![m] = TRUE]
         /\ IF loop[m] = "none"
              THEN /\ loop' = [loop EXCEPT ![m] = "acquire"]
                   /\ permits' = [permits EXCEPT ![m] = MaxInflight[m]]
              ELSE UNCHANGED <<loop, permits>>
    ELSE UNCHANGED loopVars

\* An observation from the client of r: cadence and registry note the client,
\* then the request is submitted.
Receive(r) ==
  /\ running /\ r \notin pending
  /\ silent' = silent \ {ClientOf[r]}
  /\ \/ /\ queue' \in AfterSubmit(queue, r)
        /\ LET lost == queue \ queue' IN
             /\ pending' = (pending \ lost) \union {r}
             /\ retry' = [x \in Request |-> IF x \in lost \union {r} THEN 0 ELSE retry[x]]
             /\ aged' = aged \ (lost \union {r})
        /\ EnsureAndWake(ModelOf[r])
     \/ /\ AfterSubmit(queue, r) = {}
        /\ UNCHANGED <<queue, loopVars, retry, aged, pending>>
  /\ UNCHANGED <<running, sched, task, batch>>

-----------------------------------------------------------------------------
(* The dispatch loop of model m.                                             *)

AtAcquire(m) == running /\ loop[m] = "acquire" /\ permits[m] > 0

LoopTakes_peeks(m) ==
  /\ AtAcquire(m) /\ sched = "aware"
  /\ \E r \in OfModel(queue, m) : task' = [task EXCEPT ![r] = "dispatch"]
  /\ permits' = [permits EXCEPT ![m] = @ - 1]
  /\ UNCHANGED <<running, sched, queue, loop, event, batch, retry, aged, silent,
                 pending>>

\* The permit stays taken: the task started here releases it.
LoopTakes(m) ==
  /\ AtAcquire(m) /\ sched = "aware"
  /\ \E r \in OfModel(queue, m) :
       /\ queue' = queue \ {r}
       /\ task' = [task EXCEPT ![r] = "dispatch"]
  /\ permits' = [permits EXCEPT ![m] = @ - 1]
  /\ UNCHANGED <<running, sched, loop, event, batch, retry, aged, silent, pending>>

\* acquire, nothing queued, release, then wait for the event for 1 ms.
LoopFindsNone(m) ==
  /\ AtAcquire(m) /\ sched = "aware"
  /\ OfModel(queue, m) = {}
  /\ loop' = [loop EXCEPT ![m] = "wait"]
  /\ UNCHANGED <<running, sched, queue, permits, event, task, batch, retry,
                 aged, silent, pending>>

\* acquire, the scheduler is not model-aware, release, then sleep for 1 ms.
LoopYields(m) ==
  /\ AtAcquire(m) /\ sched = "plain"
  /\ loop' = [loop EXCEPT ![m] = "yield"]
  /\ UNCHANGED <<running, sched, queue, permits, event, task, batch, retry,
                 aged, silent, pending>>

\* Woken by the event, which is cleared; timed out, which leaves the event as
\* it is; or done sleeping.
LoopResumes(m) ==
  /\ running
  /\ \/ loop[m] = "wait" /\ event[m] /\ event' = [event EXCEPT ![m] = FALSE]
     \/ loop[m] \in {"wait", "yield"} /\ UNCHANGED event
  /\ loop' = [loop EXCEPT ![m] = "acquire"]
  /\ UNCHANGED <<running, sched, queue, permits, task, batch, retry, aged,
                 silent, pending>>

-----------------------------------------------------------------------------
(* _dispatch_single(r): dispatch, then one await to send; finally, release.  *)

TaskSucceeds(r) ==
  /\ running /\ task[r] = "dispatch"
  /\ task' = [task EXCEPT ![r] = "send"]
  /\ UNCHANGED <<running, sched, queue, loopVars, batch, retry, aged, silent,
                 pending>>

TaskFails_keepsPermit(r) ==
  /\ running /\ task[r] = "dispatch"
  /\ Fail(r)
  /\ task' = [task EXCEPT ![r] = "none"]
  /\ UNCHANGED <<running, sched, loopVars, batch, silent>>

TaskFails(r) ==
  /\ running /\ task[r] = "dispatch"
  /\ Fail(r)
  /\ task' = [task EXCEPT ![r] = "none"]
  /\ Release(ModelOf[r])
  /\ UNCHANGED <<running, sched, loop, event, batch, silent>>

TaskEnds_keepsPermit(r) ==
  /\ End({r})
  /\ task' = [task EXCEPT ![r] = "none"]
  /\ UNCHANGED <<running, sched, queue, loopVars, batch, silent>>

\* The last step of a task that settles its request.
TaskEnds(r) ==
  /\ End({r})
  /\ task' = [task EXCEPT ![r] = "none"]
  /\ Release(ModelOf[r])
  /\ UNCHANGED <<running, sched, queue, loop, event, batch, silent>>

\* except Exception: logged, and that is all.
TaskRaises(r) ==
  /\ running /\ task[r] = "dispatch" /\ DispatchMayRaise
  /\ TaskEnds(r)

\* Sent, or a ZMQError that is counted: the request is settled either way.
TaskSends(r) ==
  /\ running /\ task[r] = "send"
  /\ TaskEnds(r)

-----------------------------------------------------------------------------
(* The legacy dispatch loop.                                                 *)

\* Requests are collected until max_concurrent_dispatch are or none is left.
LegacyTakes ==
  /\ running /\ Batch = {}
  /\ ~(Pipeline /\ sched = "aware")
  /\ queue # {}
  /\ \E B \in SUBSET queue :
       /\ Cardinality(B) = Min({MaxConcurrent, Cardinality(queue)})
       /\ queue' = queue \ B
       /\ batch' = [r \in Request |-> IF r \in B THEN "dispatch" ELSE batch[r]]
  /\ UNCHANGED <<running, sched, loopVars, task, retry, aged, silent, pending>>

\* All results of a batch arrive together.
LegacyReturns ==
  /\ running
  /\ \E r \in Request : batch[r] = "dispatch"
  /\ \E good \in SUBSET Batch :
       batch' = [r \in Request |-> IF r \notin Batch THEN "none"
                                   ELSE IF r \in good THEN "ok" ELSE "error"]
  /\ UNCHANGED <<running, sched, queue, loopVars, task, retry, aged, silent,
                 pending>>

\* Results are handled one by one; the only suspension is at send.
NoSendAwaited == \A r \in Request : batch[r] # "send"

LegacyFails_twice(r) ==
  /\ running /\ batch[r] = "error" /\ NoSendAwaited
  /\ Fail(r)
  /\ UNCHANGED <<running, sched, loopVars, task, batch, silent>>

LegacyFails(r) ==
  /\ running /\ batch[r] = "error" /\ NoSendAwaited
  /\ Fail(r)
  /\ batch' = [batch EXCEPT ![r] = "none"]
  /\ UNCHANGED <<running, sched, loopVars, task, silent>>

LegacySends(r) ==
  /\ running /\ batch[r] = "ok" /\ NoSendAwaited
  /\ batch' = [batch EXCEPT ![r] = "send"]
  /\ UNCHANGED <<running, sched, queue, loopVars, task, retry, aged, silent,
                 pending>>

LegacySent(r) ==
  /\ running /\ batch[r] = "send"
  /\ End({r})
  /\ batch' = [batch EXCEPT ![r] = "none"]
  /\ UNCHANGED <<running, sched, queue, loopVars, task, silent>>

\* Nothing catches it: asyncio.gather in run() passes it on and run() ends.
LegacyRaises ==
  /\ running /\ DispatchMayRaise
  /\ \E r \in Request : batch[r] = "dispatch"
  /\ running' = FALSE
  /\ End(Batch)
  /\ batch' = [r \in Request |-> "none"]
  /\ UNCHANGED <<sched, queue, loopVars, task, silent>>

LegacyStep ==
  \/ LegacyTakes \/ LegacyReturns \/ LegacyRaises
  \/ \E r \in Request : LegacyFails(r) \/ LegacySends(r) \/ LegacySent(r)

-----------------------------------------------------------------------------
(* Ticks, time, swaps and predictive wake-ups.                               *)

Tick_purgesOnly ==
  /\ running
  /\ LET purged == {r \in queue : ClientOf[r] \in silent} IN
       /\ queue' = queue \ purged
       /\ End(purged)
  /\ UNCHANGED <<running, sched, loopVars, task, batch, silent>>

\* One pass of the tick loop: expire, then purge the silent clients.  Of the
\* plain schedulers, deadline_aware does not purge.
Tick ==
  /\ running
  /\ \E purging \in IF sched = "aware" THEN {TRUE} ELSE BOOLEAN :
       LET expired == queue \intersect aged
           purged == IF purging
                       THEN {r \in queue \ expired : ClientOf[r] \in silent} ELSE {}
           gone == expired \union purged
       IN  queue' = queue \ gone /\ End(gone)
  /\ UNCHANGED <<running, sched, loopVars, task, batch, silent>>

Age(r) ==
  /\ r \in CanAge \intersect pending
  /\ aged' = aged \union {r}
  /\ UNCHANGED <<running, sched, queue, loopVars, task, batch, retry, silent,
                 pending>>

Silence(c) ==
  /\ c \in CanFallSilent
  /\ silent' = silent \union {c}
  /\ UNCHANGED <<running, sched, queue, loopVars, task, batch, retry, aged,
                 pending>>

\* The new scheduler is empty: what the old one held goes with it.
UseScheduler ==
  /\ running
  /\ sched' \in Strategies
  /\ End(queue)
  /\ queue' = {}
  /\ UNCHANGED <<running, loopVars, task, batch, silent>>

\* Wakes loops that exist; runs only where pipeline dispatch is enabled.
PredictiveWake(c) ==
  /\ running /\ Pipeline /\ Predictive
  /\ \E M \in SUBSET {m \in Model : loop[m] # "none"} :
       /\ \A m \in M : \E r \in Request : ClientOf[r] = c /\ ModelOf[r] = m
       /\ event' = [m \in Model |-> m \in M \/ event[m]]
  /\ UNCHANGED <<running, sched, queue, loop, permits, task, batch, retry,
                 aged, silent, pending>>

-----------------------------------------------------------------------------

LoopStep(m) ==
  LoopTakes(m) \/ LoopFindsNone(m) \/ LoopYields(m) \/ LoopResumes(m)

TaskStep(r) ==
  TaskSucceeds(r) \/ TaskFails(r) \/ TaskRaises(r) \/ TaskSends(r)

Steady ==
  \/ \E r \in Request : Receive(r) \/ TaskStep(r) \/ Age(r)
  \/ \E m \in Model : LoopStep(m)
  \/ \E c \in Client : Silence(c) \/ PredictiveWake(c)
  \/ LegacyStep
  \/ Tick

Next == Steady \/ UseScheduler

Spec == Init /\ [][Next]_vars

\* The configured scheduler is never replaced.
SteadySpec == Init /\ [][Steady]_vars

\* asyncio resumes every coroutine that is ready, timers fire, time passes, and
\* a dispatch or a send returns unless its model is hung.
Fairness ==
  /\ \A m \in Model : WF_vars(LoopStep(m))
  /\ \A r \in Request : ModelOf[r] \notin Hung => WF_vars(TaskStep(r))
  /\ Hung = {} => WF_vars(LegacyStep)
  /\ WF_vars(Tick)
  /\ \A r \in Request : WF_vars(Age(r))

FairSpec == Spec /\ Fairness

-----------------------------------------------------------------------------
(* Properties.                                                               *)

(* A model's semaphore loses no permit and gains none: what is not available *)
(* is held by exactly one dispatch task of the model each, through success,  *)
(* retry, send error and exception, and across use_scheduler.  A lost permit *)
(* would shrink max_inflight for good, a spare one would overrun it.         *)
PermitsConserved ==
  \A m \in Model :
    /\ loop[m] # "none" => permits[m] + Cardinality(TasksOf(m)) = MaxInflight[m]
    /\ loop[m] = "none" => permits[m] = 0 /\ TasksOf(m) = {}

(* A request accepted and not settled is in exactly one place - the queue, a *)
(* dispatch task or the legacy batch - and a settled one is in none: both    *)
(* kinds of loop draw from one scheduler without dispatching it twice, and a *)
(* retry handed to another scheduler than it came from is not lost.          *)
OneHome ==
  \A r \in Request :
    /\ r \in pending
         <=> r \in queue \/ task[r] # "none" \/ batch[r] # "none"
    /\ r \in queue => task[r] = "none" /\ batch[r] = "none"
    /\ task[r] # "none" => batch[r] = "none"

(* A model loop never goes to sleep on an event that is clear while a fresh  *)
(* request of its model is queued: the event.clear() of one wake-up never    *)
(* erases the set() of the next request.                                     *)
NoLostWakeup ==
  \A m \in Model, r \in Request :
    loop[m] = "wait" /\ sched = "aware" /\ r \in OfModel(queue, m) /\ retry[r] = 0
      => event[m]

\* The permits of all semaphores together.
Permit == UNION {{m} \X (1 .. MaxInflight[m]) : m \in Model}

\* How many requests may be in dispatch at a time.
Capacity == MaxConcurrent + Cardinality(Permit)

(* max_queue_size and the dispatch limits bound, together, the requests the  *)
(* server has accepted: retries overshoot the queue only by what they free.  *)
QueueBound ==
  Cardinality(queue) + Cardinality(InDispatch) <= MaxQueue + Capacity

L == INSTANCE Lifecycle WITH
       stage <- [r \in Request |-> IF r \in queue THEN "queued"
                                   ELSE IF r \in InDispatch THEN "dispatched"
                                   ELSE "idle"],
       tries <- retry

(* Every interleaving of receipts, both dispatch modes, ticks and swaps      *)
(* takes each request through the same life: queued, dispatched, handed back *)
(* at most max_retries times, settled once.                                  *)
KeepsLifecycle == L!Spec

S == INSTANCE Scheduler WITH out <- InDispatch, MaxOut <- Capacity

(* Seen from the scheduler, the server is the caller the Scheduler ABC       *)
(* expects: it resubmits and settles only what it was handed, once, and the  *)
(* concurrency limits bound what it holds.                                   *)
UsesScheduler == S!Spec

DispatchReturns == (\A r \in Request : WF_vars(TaskStep(r))) /\ WF_vars(LegacyStep)

(* Every accepted request is settled, if only by its TTL, as long as the     *)
(* server runs and dispatches return - also when it is handed back to a      *)
(* scheduler whose model has no dispatch loop.                               *)
Settles ==
  DispatchReturns =>
    \A r \in CanAge : r \in pending ~> r \notin pending \/ ~running

(* With pipeline dispatch a model whose dispatch hangs does not keep the     *)
(* requests of other models from being served, without the help of the TTL:  *)
(* nothing but its own permits waits for it.                                 *)
OthersServed ==
  [](sched = "aware" /\ \A r \in Request : batch[r] = "none") =>
    \A r \in Request : ModelOf[r] \notin Hung => (r \in pending ~> r \notin pending)

(* architecture.md:237, max_concurrent_dispatch: "Max requests dispatched    *)
(* concurrently (legacy loop)"; :245, pipeline_dispatch.enabled: "Enable     *)
(* per-model dispatch loops".  While it is disabled that limit holds.        *)
LegacyLimit ==
  ~Pipeline => Cardinality({r \in InDispatch : task[r] = "dispatch" \/ batch[r] = "dispatch"})
                 <= MaxConcurrent

(* server.py:370: "When pipeline dispatch is enabled and a                   *)
(* ModelAwareScheduler is active, per-model loops own dispatch": then every  *)
(* queued request has the loop of its model.                                 *)
QueuedIsOwned ==
  Pipeline /\ sched = "aware" => \A r \in queue : loop[ModelOf[r]] # "none"

=============================================================================
