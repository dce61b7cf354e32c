------------------------------ MODULE MC_Tiers ------------------------------
(* Instances of Tiers: three requests of two clients.                        *)
EXTENDS Tiers, TLC

CONSTANTS r1, r2, r3, c1, c2, m1

MC_ClientOf == r1 :> c1 @@ r2 :> c1 @@ r3 :> c2
MC_ModelOf == [r \in Request |-> m1]
MC_LatencyBudget == c1 :> 1 @@ c2 :> 2

===============================================================================
