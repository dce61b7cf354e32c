------------------------------ MODULE MC_Deques ------------------------------
(* Instances of Deques: requests of three clients for two models, r1 and r2  *)
(* of one client, all but r2 for one model.                                   *)
EXTENDS Deques

CONSTANTS r1, r2, r3, r4, c1, c2, c3, m1, m2

MC_ClientOf == [r \in Request |-> IF r = r3 THEN c2 ELSE IF r = r4 THEN c3 ELSE c1]
MC_ModelOf == [r \in Request |-> IF r = r2 THEN m2 ELSE m1]

===============================================================================
