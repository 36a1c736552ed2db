----------------------------- MODULE MCStructure -----------------------------
(***************************************************************************)
(* The programs of MCControlFlow for Structure: each is compiled, with and *)
(* without the IF-GOTO option, and decompiled again.                       *)
(***************************************************************************)
EXTENDS MCControlFlow, Structure
=============================================================================
