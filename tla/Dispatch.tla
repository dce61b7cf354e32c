------------------------------ MODULE Dispatch ------------------------------
(* The dispatchers (dispatch/local.py, dispatcher.py, base.py, health.py):   *)
(* calls of dispatch() that overlap, each with a batch that it groups by     *)
(* model and hands to the models, one request at a time (local) or a model's *)
(* requests at once (Ray Serve).  The bytes are those of Wire.               *)
EXTENDS Filter

CONSTANTS
  Request, Model,
  ModelOf,     \* the model of each request
  Deployed,    \* models registered with LocalDispatcher, apps of Ray Serve
  Unreadable,  \* requests with a tensor _reconstruct_numpy cannot rebuild
  Call,        \* bound: calls of dispatch()
  MaxBatch     \* bound: requests per call

ASSUME DispatchAssumption ==
  /\ ModelOf \in [Request -> Model]
  /\ Deployed \subseteq Model /\ Unreadable \subseteq Request /\ MaxBatch \in Nat

VARIABLES
  dispatcher,  \* "local" or "ray"
  call,        \* per call: how far it is
  health       \* per model: its EndpointHealth

vars == <<dispatcher, call, health>>

\* last_error: the number of the request it names, 0 for None.  error_rate is
\* an average of the same outcomes, above 0 once there is a last_error.
EndpointHealth == [total_requests: Nat, last_error: Nat]

DispatchResult == [req: Request, success: BOOLEAN, called: BOOLEAN]

\* batch: the argument; todo: the requests of it the loop has not come to;
\* group: those whose model calls are awaited; ended: those of them that have,
\* and whether they succeeded; thrown: results discarded by a raise.
NoCall == [state |-> "none", batch |-> <<>>, todo |-> {}, group |-> {},
           ended |-> <<>>, results |-> <<>>, thrown |-> <<>>]

TypeOK ==
  /\ dispatcher \in {"local", "ray"}
  /\ \A c \in Call :
       /\ call[c].state \in {"none", "running", "returned", "raised"}
       /\ call[c].batch \in Seq(Request)
       /\ call[c].todo \union call[c].group \subseteq Request
       /\ DOMAIN call[c].ended \subseteq call[c].group
       /\ {call[c].results, call[c].thrown} \subseteq Seq(DispatchResult)
       /\ dispatcher = "local" => Cardinality(call[c].group) <= 1
  /\ health \in [Model -> EndpointHealth]
  /\ \A m \in Model : health[m].last_error <= health[m].total_requests

Init ==
  /\ dispatcher \in {"local", "ray"}
  /\ call = [c \in Call |-> NoCall]
  /\ health = [m \in Model |-> [total_requests |-> 0, last_error |-> 0]]

-----------------------------------------------------------------------------

Place(b, r) == CHOOSE i \in DOMAIN b : b[i] = r

First(b, m) ==
  CHOOSE i \in DOMAIN b :
    ModelOf[b[i]] = m /\ \A j \in DOMAIN b : ModelOf[b[j]] = m => i <= j

\* by_model: the models in the order in which they first appear in the batch,
\* under each its requests in theirs.
Before(b, q, r) ==
  \/ First(b, ModelOf[q]) < First(b, ModelOf[r])
  \/ ModelOf[q] = ModelOf[r] /\ Place(b, q) < Place(b, r)

\* Requests of one model, in order.
InOrder(b, G) == Without(b, ToSet(b) \ G)

\* The request and the model the loops come to next.
NextRequest(c) ==
  CHOOSE r \in call[c].todo : \A q \in call[c].todo \ {r} : Before(call[c].batch, r, q)

NextOfModel(c) == {r \in call[c].todo : ModelOf[r] = ModelOf[NextRequest(c)]}

\* The pipeline's calls have one request; a request is in one call at a time.
StartDispatch(c) ==
  /\ call[c] = NoCall
  /\ \E b \in SeqOf(Request, MaxBatch) :
       /\ b # <<>> /\ IsInjective(b)
       /\ \A d \in Call : call[d].state = "running" => ToSet(call[d].batch) \cap ToSet(b) = {}
       /\ call' = [call EXCEPT ![c].state = "running", ![c].batch = b, ![c].todo = ToSet(b)]
  /\ UNCHANGED <<dispatcher, health>>

AwaitsNone(c) ==
  call[c].state = "running" /\ DOMAIN call[c].ended = call[c].group

Result(r, success, called) == [req |-> r, success |-> success, called |-> called]

Collected_asEnded(c) ==
  LET g == SetToSeq(DOMAIN call[c].ended)
  IN  call[c].results \o [i \in DOMAIN g |-> Result(g[i], call[c].ended[g[i]], TRUE)]

\* The results so far; gather() returns those of a group in its order.
Collected(c) ==
  LET g == InOrder(call[c].batch, call[c].group)
  IN  call[c].results \o [i \in DOMAIN g |-> Result(g[i], call[c].ended[g[i]], TRUE)]

Proceed(c, group, todo, results) ==
  call' = [call EXCEPT ![c].group = group, ![c].ended = <<>>,
                       ![c].todo = todo, ![c].results = results]

Raise(c) ==
  call' = [call EXCEPT ![c].state = "raised", ![c].thrown = Collected(c),
                       ![c].results = <<>>, ![c].group = {}, ![c].ended = <<>>]

\* "No model registered": an error result for each of its requests.
LocalFindsNone(c) ==
  /\ dispatcher = "local" /\ AwaitsNone(c) /\ call[c].todo # {}
  /\ ModelOf[NextRequest(c)] \notin Deployed
  /\ LET g == InOrder(call[c].batch, NextOfModel(c))
     IN  Proceed(c, {}, call[c].todo \ NextOfModel(c),
                 Collected(c) \o [i \in DOMAIN g |-> Result(g[i], FALSE, FALSE)])
  /\ UNCHANGED <<dispatcher, health>>

LocalCalls_atOnce(c) ==
  /\ dispatcher = "local" /\ AwaitsNone(c) /\ call[c].todo # {}
  /\ ModelOf[NextRequest(c)] \in Deployed
  /\ \/ NextOfModel(c) \cap Unreadable # {} /\ Raise(c)
     \/ /\ NextOfModel(c) \cap Unreadable = {}
        /\ Proceed(c, NextOfModel(c), call[c].todo \ NextOfModel(c), Collected(c))
  /\ UNCHANGED <<dispatcher, health>>

\* The next request; _reconstruct_numpy is not inside the try.
LocalCalls(c) ==
  /\ dispatcher = "local" /\ AwaitsNone(c) /\ call[c].todo # {}
  /\ LET r == NextRequest(c) IN
       /\ ModelOf[r] \in Deployed
       /\ \/ r \in Unreadable /\ Raise(c)
          \/ r \notin Unreadable /\ Proceed(c, {r}, call[c].todo \ {r}, Collected(c))
  /\ UNCHANGED <<dispatcher, health>>

\* The next model: its handle, all its arrays, then all its calls at once.
RayCalls(c) ==
  /\ dispatcher = "ray" /\ AwaitsNone(c) /\ call[c].todo # {}
  /\ LET callable == /\ ModelOf[NextRequest(c)] \in Deployed
                     /\ NextOfModel(c) \cap Unreadable = {}
     IN  \/ ~ callable /\ Raise(c)
         \/ /\ callable
            /\ Proceed(c, NextOfModel(c), call[c].todo \ NextOfModel(c), Collected(c))
  /\ UNCHANGED <<dispatcher, health>>

\* EndpointHealth.update
Updated(h, success) ==
  [total_requests |-> h.total_requests + 1,
   last_error |-> IF success THEN h.last_error ELSE h.total_requests + 1]

UpdateHealth(m, success) == health' = [health EXCEPT ![m] = Updated(@, success)]

Awaited(c) == call[c].group \ DOMAIN call[c].ended

End(c, r, success) ==
  call' = [call EXCEPT ![c].ended = [q \in DOMAIN @ \union {r} |->
                                       IF q = r THEN success ELSE @[q]]]

ModelReturns(c, r) ==
  /\ r \in Awaited(c) /\ End(c, r, TRUE)
  /\ UpdateHealth(ModelOf[r], TRUE)
  /\ UNCHANGED dispatcher

ModelRaises_uncaught(c, r) ==
  /\ r \in Awaited(c)
  /\ call' = [call EXCEPT ![c].state = "raised", ![c].thrown = @ \o call[c].results,
                          ![c].results = <<>>, ![c].group = {}, ![c].ended = <<>>]
  /\ UpdateHealth(ModelOf[r], FALSE)
  /\ UNCHANGED dispatcher

ModelRaises_unrecorded(c, r) ==
  /\ r \in Awaited(c) /\ End(c, r, FALSE)
  /\ UNCHANGED <<dispatcher, health>>

ModelRaises(c, r) ==
  /\ r \in Awaited(c) /\ End(c, r, FALSE)
  /\ UpdateHealth(ModelOf[r], FALSE)
  /\ UNCHANGED dispatcher

\* _build_result raises after the call was recorded as a success: the request
\* is recorded a second time.
ResultUnbuilt(c, r) ==
  /\ r \in Awaited(c) /\ End(c, r, FALSE)
  /\ health' = [health EXCEPT ![ModelOf[r]] = Updated(Updated(@, TRUE), FALSE)]
  /\ UNCHANGED dispatcher

ReturnResults(c) ==
  /\ AwaitsNone(c) /\ call[c].todo = {}
  /\ call' = [call EXCEPT ![c].state = "returned", ![c].results = Collected(c),
                          ![c].group = {}, ![c].ended = <<>>]
  /\ UNCHANGED <<dispatcher, health>>

Next ==
  \E c \in Call :
    \/ StartDispatch(c) \/ LocalFindsNone(c) \/ LocalCalls(c) \/ RayCalls(c) \/ ReturnResults(c)
    \/ \E r \in Request : ModelReturns(c, r) \/ ModelRaises(c, r) \/ ResultUnbuilt(c, r)

Spec == Init /\ [][Next]_vars

-----------------------------------------------------------------------------
(* Properties.                                                               *)

(* However calls overlap and models end, a dispatch that returns has one     *)
(* result for each request of its batch (Server pairs them by identity), in  *)
(* the order of the groups; only a request whose model was called can have   *)
(* succeeded.                                                                *)
OneResultEach ==
  \A c \in Call : call[c].state = "returned" =>
    LET results == call[c].results IN
    /\ {results[i].req : i \in DOMAIN results} = ToSet(call[c].batch)
    /\ \A i, j \in DOMAIN results :
         i < j => Before(call[c].batch, results[i].req, results[j].req)
    /\ \A s \in ToSet(results) :
         /\ s.called <=> ModelOf[s.req] \in Deployed
         /\ s.success => s.called /\ s.req \notin Unreadable

(* A model that fails never makes dispatch() raise.  What raises is a        *)
(* request of the batch that cannot be rebuilt, or a Ray app that is not     *)
(* there.  It was not called itself, but what was called before it loses its *)
(* results: the models before its own and, in the local loop, the requests   *)
(* of its own before it.  A batch of one request loses none.                 *)
RaiseIsCaused ==
  \A c \in Call : call[c].state = "raised" =>
    /\ \E r \in call[c].todo :
         r \in Unreadable \/ (dispatcher = "ray" /\ ModelOf[r] \notin Deployed)
    /\ Len(call[c].batch) = 1 => call[c].thrown = <<>>

\* What has become of requests of call c, returned, thrown away or collected.
Outcomes(c) ==
  ToSet(call[c].results) \union ToSet(call[c].thrown)
    \union {Result(r, call[c].ended[r], TRUE) : r \in DOMAIN call[c].ended}

Ended(m) ==
  UNION {{c} \X {s \in Outcomes(c) : s.called /\ ModelOf[s.req] = m} : c \in Call}

(* Results and health, which are written apart and in different orders,      *)
(* agree: no request whose model was called is missing from total_requests,  *)
(* which is too high by at most the requests that failed, and a model has a  *)
(* last_error if and only if one of its requests failed.                     *)
HealthCounts ==
  \A m \in Model :
    LET failed == {p \in Ended(m) : ~ p[2].success}
        h == health[m]
    IN  /\ Cardinality(Ended(m)) <= h.total_requests
        /\ h.total_requests <= Cardinality(Ended(m)) + Cardinality(failed)
        /\ h.last_error # 0 <=> failed # {}

=============================================================================
