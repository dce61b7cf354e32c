------------------------------- MODULE MC_Server -------------------------------
(* Instances of Server: r1 .. r4 are requests of client c1 for model m1, s1 is *)
(* a request of c2 for m2.                                                     *)
EXTENDS Server, TLC

CONSTANTS r1, r2, r3, r4, s1, c1, c2, m1, m2

MC_ClientOf == [r \in Request |-> IF r = s1 THEN c2 ELSE c1]
MC_ModelOf == [r \in Request |-> IF r = s1 THEN m2 ELSE m1]
MC_TwoInflight == [m \in Model |-> IF m = m1 THEN 2 ELSE 1]
MC_OneInflight == [m \in Model |-> 1]

\* The requests for m1 are interchangeable; used where no liveness is checked.
MC_Symmetry == Permutations(Request \ {s1})

================================================================================
