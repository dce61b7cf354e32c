---------------------------- MODULE SchedulerBase ----------------------------
(* What every scheduler of scheduler/ shares: the requests, the client and   *)
(* model each one belongs to, the configured bound on the queue and the      *)
(* overflow policy (config/schema.py, SchedulingConfig), and what submit()   *)
(* may make of a queue when all that matters is which requests it holds.     *)
(*                                                                           *)
(* A request is one InferenceRequest object.  Its client_id and model_id     *)
(* never change, so they are constants of the request.                       *)
EXTENDS Integers, FiniteSets

CONSTANTS
  Request,        \* InferenceRequest objects (slots: reused once settled)
  Client,         \* client_id values
  Model,          \* model_id values
  ClientOf,       \* request.client_id
  ModelOf,        \* request.model_id
  MaxQueue,       \* scheduling.max_queue_size, ge=1
  OverflowPolicy  \* scheduling.overflow_policy

ASSUME OwnerAssumption ==
  /\ ClientOf \in [Request -> Client]
  /\ ModelOf \in [Request -> Model]

ASSUME ConfigAssumption ==
  /\ MaxQueue \in Nat \ {0}
  /\ OverflowPolicy \in {"drop_oldest", "reject_newest"}

-----------------------------------------------------------------------------

(* Definitions named X_bug are forms of X with a plausible bug: no         *)
(* specification uses them.  Substituted for X, each makes a property fail,  *)
(* which shows that the property depends on what X does.                     *)

AfterSubmit_offByOne(q, r) ==
  IF Cardinality(q) <= MaxQueue
    THEN {q \union {r}}
    ELSE {(q \ {d}) \union {r} : d \in IF OverflowPolicy = "drop_oldest"
                                         THEN q ELSE {}}

(* The queues submit(r) can leave behind, given the requests q held before:  *)
(* room -> r is added; full under drop_oldest -> one held request makes way  *)
(* (which one is the business of the concrete scheduler); full under         *)
(* reject_newest -> none, QueueFullError is raised and nothing changes.      *)
AfterSubmit(q, r) ==
  IF Cardinality(q) < MaxQueue
    THEN {q \union {r}}
    ELSE {(q \ {d}) \union {r} : d \in IF OverflowPolicy = "drop_oldest"
                                         THEN q ELSE {}}

(* The requests of q that on_client_disconnected(c) removes.                 *)
OfClient(q, c) == {r \in q : ClientOf[r] = c}

OfModel(q, m) == {r \in q : ModelOf[r] = m}

=============================================================================
