---------------------------- MODULE StrategyBase ----------------------------
(* What the abstract Scheduler and the strategies that implement it share:   *)
(* how much their caller takes, and the view of a queue that forgets         *)
(* everything of a request but its identity.                                 *)
EXTENDS SchedulerBase

CONSTANT MaxOut   \* how many requests the caller has in dispatch at a time

ASSUME MaxOutAssumption == MaxOut \in Nat \ {0}

Ids(xs) == {x.id : x \in xs}

=============================================================================
