--------------------------- MODULE MC_ModelDeadline ---------------------------
(* Instances of ModelDeadline: three requests of two clients for two models,  *)
(* r1 and r2 sharing a model, r2 and r3 a client.                             *)
EXTENDS ModelDeadline, TLC

CONSTANTS r1, r2, r3, c1, c2, m1, m2

MC_ClientOf == r1 :> c1 @@ r2 :> c2 @@ r3 :> c2
MC_ModelOf == r1 :> m1 @@ r2 :> m1 @@ r3 :> m2
MC_LatencyBudget == c1 :> 1 @@ c2 :> 2

===============================================================================
