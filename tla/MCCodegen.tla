----------------------------- MODULE MCCodegen -----------------------------
(***************************************************************************)
(* Codegen for TLC: one procedure more than its table holds, one label     *)
(* more than its own, and blocks of code of which three make a distance no *)
(* word can hold.                                                          *)
(***************************************************************************)
EXTENDS Codegen, TLC

Symmetry == Permutations(ProcName \ LabelName) \cup Permutations(LabelName \ ProcName)
=============================================================================
