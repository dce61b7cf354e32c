------------------------------ MODULE Session -------------------------------
(* The conversation of one client with the server, in each SDK: observations *)
(* up, answers down in any order and perhaps never, connections that break,  *)
(* get_result() calls that time out before a late answer (client.py,         *)
(* client.rs, async_client.rs, client.cpp, zmq_transport.py), and what the   *)
(* server believes of the client's answers (tracking/response.py).           *)
(*                                                                           *)
(* Queueing, scheduling and dispatch are those of Server; here an            *)
(* observation is answered or discarded at any time.                         *)
EXTENDS Filter

CONSTANTS
  Model,
  Task,      \* coroutines that share an asynchronous Python connection
  MaxObs,    \* bound: observations sent
  MaxBreaks  \* bound: broken connections

ASSUME SessionAssumption == Task # {} /\ MaxObs \in Nat /\ MaxBreaks \in Nat

VARIABLES
  sdk,        \* "sync" and "async" (Python), "native" (Rust, C++), "rust_async"
  connected,
  breaks,
  observed,   \* number of observations sent
  up,         \* observations on their way, from the socket to recv()
  todo,       \* observations accepted and not settled
  active,     \* ResponseTracker._active of this client
  sending,    \* answers whose send() is awaited
  down,       \* answers on their way, to the client's socket
  buffers,    \* per model: _buffers of Connection, _queues of AsyncConnection
  waiting,    \* per task: the get_result() it is in
  sent,       \* history: the observations answered, in the order of send()
  returned,   \* history: what get_result() returned, in order
  lost,       \* history: answers lost with a connection
  lockstep    \* history: each observation was sent after the one before was answered

server == <<todo, active, sending>>
history == <<sent, returned, lost, lockstep>>
vars == <<sdk, connected, breaks, observed, up, server, down, buffers, waiting, history>>

NoRecord == [id |-> 0, state |-> "NONE"]
Idle == [model |-> "none", limited |-> FALSE]
Ids == 1..MaxObs
\* identity: the connection an answer is routed to, see Identity.
Observation == [id: Ids, model: Model, identity: 0..MaxBreaks]
ToIds(s) == {s[i].id : i \in DOMAIN s}

TypeOK ==
  /\ sdk \in {"sync", "async", "native", "rust_async"}
  /\ connected \in BOOLEAN /\ breaks \in 0..MaxBreaks /\ observed \in 0..MaxObs
  /\ up \in Seq(Observation) /\ down \in Seq(Observation)
  /\ todo \subseteq Observation /\ sending \subseteq Observation
  /\ active = NoRecord \/ active \in [id: Ids, state: {"ISSUED", "CONSUMED"}]
  /\ buffers \in [Model -> Seq(Observation)]
  /\ waiting \in [Task -> {Idle} \union [model: Model, limited: BOOLEAN]]
  /\ sent \in Seq(Ids) /\ lost \subseteq Ids /\ lockstep \in BOOLEAN
  /\ returned \in Seq([id: Ids, model: Model, asked: Model])

Init ==
  /\ sdk \in {"sync", "async", "native", "rust_async"}
  /\ connected = TRUE /\ breaks = 0 /\ observed = 0
  /\ up = <<>> /\ down = <<>>
  /\ todo = {} /\ sending = {} /\ active = NoRecord
  /\ buffers = [m \in Model |-> <<>>]
  /\ waiting = [t \in Task |-> Idle]
  /\ sent = <<>> /\ returned = <<>> /\ lost = {} /\ lockstep = TRUE

-----------------------------------------------------------------------------
(* The connection.                                                           *)

\* The async Rust SDK sets no identity: the ROUTER names each connection anew.
Identity == IF sdk = "rust_async" THEN breaks ELSE 0

\* ZMQ drops any messages that were under way; the others are still delivered.
Breaks ==
  /\ connected /\ breaks < MaxBreaks
  /\ connected' = FALSE /\ breaks' = breaks + 1
  /\ \E U \in SUBSET ToSet(up), D \in SUBSET ToSet(down) :
       /\ up' = Without(up, U)
       /\ down' = Without(down, D)
       /\ lost' = lost \union {o.id : o \in D}
  /\ UNCHANGED <<sdk, observed, server, buffers, waiting, sent, returned, lockstep>>

Reconnects ==
  /\ ~ connected /\ connected' = TRUE
  /\ UNCHANGED <<sdk, breaks, observed, up, server, down, buffers, waiting, history>>

-----------------------------------------------------------------------------
(* The server.                                                               *)

OnRequest_anyRecord == active' = [active EXCEPT !.state = "CONSUMED"]

\* ResponseTracker.on_request
OnRequest ==
  active' = IF active.state = "ISSUED" THEN [active EXCEPT !.state = "CONSUMED"] ELSE active

\* What was sent before the connection broke may arrive through the next one.
Receive ==
  /\ up # <<>> /\ up' = Tail(up)
  /\ \/ /\ OnRequest
        /\ \E n \in Head(up).identity..Identity :
             todo' = todo \union {[Head(up) EXCEPT !.identity = n]}
     \/ OnRequest /\ UNCHANGED todo          \* refused by a full queue
     \/ UNCHANGED <<active, todo>>           \* invalid
  /\ UNCHANGED <<sdk, connected, breaks, observed, sending, down, buffers, waiting, history>>

\* Expired, dropped, purged, or its dispatch failed for good.
Discard(o) ==
  /\ o \in todo /\ todo' = todo \ {o}
  /\ UNCHANGED <<sdk, connected, breaks, observed, up, active, sending, down, buffers,
                 waiting, history>>

OnResponseSent_sameRecord(o) ==
  active' = IF active = NoRecord THEN [id |-> o.id, state |-> "ISSUED"]
            ELSE [active EXCEPT !.id = o.id]

\* ResponseTracker.on_response_sent, called before the send is awaited.
OnResponseSent(o) == active' = [id |-> o.id, state |-> "ISSUED"]

DispatchSucceeds(o) ==
  /\ o \in todo /\ todo' = todo \ {o}
  /\ OnResponseSent(o)
  /\ sending' = sending \union {o}
  /\ UNCHANGED <<sdk, connected, breaks, observed, up, down, buffers, waiting, history>>

\* ROUTER_MANDATORY: the send raises if no connection has the identity.
Send(o) ==
  /\ o \in sending /\ sending' = sending \ {o}
  /\ IF connected /\ o.identity = Identity
     THEN down' = Append(down, o) /\ sent' = Append(sent, o.id)
     ELSE UNCHANGED <<down, sent>>
  /\ UNCHANGED <<sdk, connected, breaks, observed, up, todo, active, buffers, waiting,
                 returned, lost, lockstep>>

-----------------------------------------------------------------------------
(* The client.                                                               *)

\* Only coroutines of the asynchronous Python SDK can act while one waits.
MayAct == sdk = "async" \/ \A t \in Task : waiting[t] = Idle

Observe(m) ==
  /\ MayAct /\ observed < MaxObs
  /\ observed' = observed + 1
  /\ up' = Append(up, [id |-> observed + 1, model |-> m, identity |-> Identity])
  /\ lockstep' = (lockstep /\ \A i \in 1..observed : i \in ToIds(returned))
  /\ UNCHANGED <<sdk, connected, breaks, server, down, buffers, waiting, sent, returned, lost>>

\* A timeout of 0 or less is no limit in async Python, one of less than 0 none
\* in Rust and C++; the synchronous Python client always has a limit.
GetResult(t, m) ==
  /\ MayAct /\ waiting[t] = Idle
  /\ \E limited \in IF sdk = "sync" THEN {TRUE} ELSE BOOLEAN :
       waiting' = [waiting EXCEPT ![t] = [model |-> m, limited |-> limited]]
  /\ UNCHANGED <<sdk, connected, breaks, observed, up, server, down, buffers, history>>

Returns(t, o) ==
  /\ waiting' = [waiting EXCEPT ![t] = Idle]
  /\ returned' = Append(returned, [id |-> o.id, model |-> o.model, asked |-> waiting[t].model])

ReturnsNone(t) ==
  /\ waiting[t].limited
  /\ waiting' = [waiting EXCEPT ![t] = Idle]

OfOthers(m) == {o \in ToSet(down) : o.model # m}

\* Connection._drain
Drained == [m \in Model |-> buffers[m] \o Without(down, OfOthers(m))]

SyncPass_timeFirst(t) ==
  /\ sdk = "sync" /\ waiting[t] # Idle
  /\ \/ ReturnsNone(t) /\ UNCHANGED <<buffers, down, returned>>
     \/ /\ down' = <<>>
        /\ LET m == waiting[t].model IN
           IF Drained[m] # <<>>
           THEN /\ Returns(t, Head(Drained[m]))
                /\ buffers' = [Drained EXCEPT ![m] = Tail(@)]
           ELSE buffers' = Drained /\ UNCHANGED <<waiting, returned>>
  /\ UNCHANGED <<sdk, connected, breaks, observed, up, server, sent, lost, lockstep>>

\* One pass of _recv_for_model: the deadline counts only if nothing is there.
SyncPass(t) ==
  /\ sdk = "sync" /\ waiting[t] # Idle
  /\ down' = <<>>
  /\ LET m == waiting[t].model IN
     \/ /\ Drained[m] # <<>>
        /\ Returns(t, Head(Drained[m]))
        /\ buffers' = [Drained EXCEPT ![m] = Tail(@)]
     \/ /\ Drained[m] = <<>>
        /\ buffers' = Drained
        /\ ReturnsNone(t) \/ UNCHANGED waiting
        /\ UNCHANGED returned
  /\ UNCHANGED <<sdk, connected, breaks, observed, up, server, sent, lost, lockstep>>

ReaderRoutes_once ==
  /\ sdk = "async" /\ down # <<>>
  /\ returned = <<>> /\ \A m \in Model : buffers[m] = <<>>
  /\ buffers' = [buffers EXCEPT ![Head(down).model] = Append(@, Head(down))]
  /\ down' = Tail(down)
  /\ UNCHANGED <<sdk, connected, breaks, observed, up, server, waiting, history>>

\* AsyncConnection._reader_loop
ReaderRoutes ==
  /\ sdk = "async" /\ down # <<>>
  /\ buffers' = [buffers EXCEPT ![Head(down).model] = Append(@, Head(down))]
  /\ down' = Tail(down)
  /\ UNCHANGED <<sdk, connected, breaks, observed, up, server, waiting, history>>

AsyncTakes_newest(t) ==
  LET m == waiting[t].model IN
  /\ sdk = "async" /\ waiting[t] # Idle /\ buffers[m] # <<>>
  /\ Returns(t, buffers[m][Len(buffers[m])])
  /\ buffers' = [buffers EXCEPT ![m] = SubSeq(@, 1, Len(@) - 1)]
  /\ UNCHANGED <<sdk, connected, breaks, observed, up, server, down, sent, lost, lockstep>>

\* q.get() of AsyncConnection._recv_for_model: whichever task runs first.
AsyncTakes(t) ==
  LET m == waiting[t].model IN
  /\ sdk = "async" /\ waiting[t] # Idle /\ buffers[m] # <<>>
  /\ Returns(t, Head(buffers[m]))
  /\ buffers' = [buffers EXCEPT ![m] = Tail(@)]
  /\ UNCHANGED <<sdk, connected, breaks, observed, up, server, down, sent, lost, lockstep>>

\* The Rust and C++ clients keep no buffers: the next answer, of any model.
NativeTakes(t) ==
  /\ sdk \in {"native", "rust_async"} /\ waiting[t] # Idle /\ down # <<>>
  /\ Returns(t, Head(down))
  /\ down' = Tail(down)
  /\ UNCHANGED <<sdk, connected, breaks, observed, up, server, buffers, sent, lost, lockstep>>

\* wait_for() and select! may give up although an answer has just come.
TimesOut(t) ==
  /\ sdk # "sync" /\ waiting[t] # Idle
  /\ sdk = "native" => down = <<>>
  /\ ReturnsNone(t)
  /\ UNCHANGED <<sdk, connected, breaks, observed, up, server, down, buffers, history>>

-----------------------------------------------------------------------------

Next ==
  \/ Breaks \/ Reconnects \/ Receive
  \/ \E o \in todo : Discard(o) \/ DispatchSucceeds(o)
  \/ \E o \in sending : Send(o)
  \/ \E m \in Model : Observe(m)
  \/ \E t \in Task, m \in Model : GetResult(t, m)
  \/ ReaderRoutes
  \/ \E t \in Task : SyncPass(t) \/ AsyncTakes(t) \/ NativeTakes(t) \/ TimesOut(t)

\* A call in progress goes on, and so does the reader task of the event loop.
Fairness ==
  /\ WF_vars(ReaderRoutes)
  /\ \A t \in Task : WF_vars(SyncPass(t)) /\ WF_vars(AsyncTakes(t)) /\ WF_vars(NativeTakes(t))

Spec == Init /\ [][Next]_vars /\ Fairness

-----------------------------------------------------------------------------
(* Properties.                                                               *)

InBuffers == UNION {ToIds(buffers[m]) : m \in Model}

Position(id) == CHOOSE i \in DOMAIN sent : sent[i] = id

(* Calls that time out, share a queue or read past other models' answers     *)
(* lose no answer and duplicate none: each one that was sent is under way,   *)
(* buffered, returned, or lost with the connection.  A Python call returns   *)
(* answers of its own model, in the order they were sent.                    *)
EachOnceInOrder ==
  /\ Len(sent) = Len(down) + Cardinality(InBuffers) + Len(returned) + Cardinality(lost)
  /\ {sent[i] : i \in DOMAIN sent}
       = ToIds(down) \union InBuffers \union ToIds(returned) \union lost
  /\ sdk \in {"sync", "async"} =>
       /\ \A i \in DOMAIN returned : returned[i].model = returned[i].asked
       /\ \A i, j \in DOMAIN returned : i < j /\ returned[i].model = returned[j].model
            => Position(returned[i].id) < Position(returned[j].id)

(* get_result() of a synchronous client returns nothing only if there is no  *)
(* answer: none for the model in Python, none at all in Rust and C++.        *)
TimeoutIsHonest ==
  [][\A t \in Task :
       waiting[t] # Idle /\ waiting'[t] = Idle /\ returned' = returned =>
         /\ sdk = "sync" => \A o \in {down[i] : i \in DOMAIN down} : o.model # waiting[t].model
         /\ sdk = "sync" => buffers[waiting[t].model] = <<>>
         /\ sdk = "native" => down = <<>>]_vars

(* The tracker takes a request for the proof that the answer before it was   *)
(* consumed.  That is so, though answers are recorded before they are sent,  *)
(* for a client that awaits each answer before its next observation.  (One   *)
(* whose answer failed to be sent awaits it still: of a client that goes on  *)
(* after that, nothing is said.)                                             *)
ConsumedWasReturned ==
  lockstep /\ active.state = "CONSUMED" => active.id \in ToIds(returned)

(* An answer that reached the client while a task waits for its model, and   *)
(* cannot time out before it looks again, is returned, unless it is lost or  *)
(* no such task waits any more.                                              *)
Answered ==
  \A i \in Ids, m \in Model :
    LET Here == \/ \E k \in DOMAIN down : down[k].id = i /\ down[k].model = m
                \/ i \in ToIds(buffers[m])
        Awaited == \E t \in Task :
          /\ waiting[t].model = m
          /\ sdk = "sync" \/ ~ waiting[t].limited
    IN  Here /\ Awaited ~> i \in ToIds(returned) \union lost \/ ~ Awaited

=============================================================================
