---------------------------- MODULE MC_Dispatch -----------------------------
(* Instances of Dispatch: two readable requests and one that is not for m1,  *)
(* one for m2, and one for m3, which is not deployed.                        *)
EXTENDS Dispatch, TLC

CONSTANTS r1, r2, x1, r3, u1, m1, m2, m3, c1, c2

MC_ModelOf == r1 :> m1 @@ r2 :> m1 @@ x1 :> m1 @@ r3 :> m2 @@ u1 :> m3

MC_Symmetry == Permutations({r1, r2}) \union Permutations(Call)

=============================================================================
