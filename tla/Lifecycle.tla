------------------------------ MODULE Lifecycle ------------------------------
(* What the server promises about each request, whatever the scheduler, the  *)
(* dispatch mode and the interleaving: it is queued once, dispatched at most *)
(* 1 + max_retries times, never twice at a time, and once settled (answered, *)
(* failed, dropped, expired) it does not come back.  One step of the server  *)
(* may move several requests: a batch, a tick, an overflow.                  *)
EXTENDS Naturals

CONSTANTS Request, MaxRetries

VARIABLES
  stage,  \* "idle" before receipt and once settled
  tries   \* how often the request was handed back for retry

vars == <<stage, tries>>

Init ==
  /\ stage = [r \in Request |-> "idle"]
  /\ tries = [r \in Request |-> 0]

Moves(r, from, to) == stage[r] = from /\ stage'[r] = to

Receive(r) == Moves(r, "idle", "queued") /\ tries'[r] = 0

Dispatch(r) == Moves(r, "queued", "dispatched") /\ tries'[r] = tries[r]

Retry(r) ==
  /\ Moves(r, "dispatched", "queued")
  /\ tries[r] < MaxRetries
  /\ tries'[r] = tries[r] + 1

Settle(r) ==
  /\ Moves(r, "queued", "idle") \/ Moves(r, "dispatched", "idle")
  /\ tries'[r] = 0

Rests(r) == stage'[r] = stage[r] /\ tries'[r] = tries[r]

Next ==
  /\ stage' \in [Request -> {"idle", "queued", "dispatched"}]
  /\ tries' \in [Request -> 0 .. MaxRetries]
  /\ \A r \in Request :
       Receive(r) \/ Dispatch(r) \/ Retry(r) \/ Settle(r) \/ Rests(r)

Spec == Init /\ [][Next]_vars

=============================================================================
