----------------------------- MODULE MC_Session -----------------------------
(* Instances of Session.                                                     *)
EXTENDS Session

CONSTANTS m1, m2, t1, t2

=============================================================================
