------------------------------ MODULE MCVerify ------------------------------
(***************************************************************************)
(* Verify for TLC: two programs whose first procedure has two conditional  *)
(* jumps.                                                                  *)
(***************************************************************************)
EXTENDS Verify, TLC

CONSTANTS r1, r2, P, Q

TwoProcs == << << 1, 2 >>, << >> >>

TwoPrograms == r1 :> P @@ r2 :> Q
TwoOptions == r1 :> 1 @@ r2 :> 2
\* One try less than the search would use, and one.
Tries == r1 :> 5 @@ r2 :> 1
=============================================================================
