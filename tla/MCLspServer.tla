----------------------------- MODULE MCLspServer -----------------------------
(***************************************************************************)
(* LspServer for TLC: a COPY file that defines a name, which may be found  *)
(* only with the include paths, and two sources that copy it.  One of them *)
(* may never use the name, the other may have it for itself instead: each  *)
(* on the disk or only in the editor.                                      *)
(***************************************************************************)
EXTENDS LspServer, TLC

CONSTANTS S, T, C, n

Directory == << S, T >>
Text(copies, names, defs) == [copies |-> copies, names |-> names, defs |-> defs]
SmallTexts ==
    (S :> {Text({C}, {n}, {}), Text({C}, {}, {})})
    @@ (T :> {Text({C}, {n}, {}), Text({}, {n}, {n})})
    @@ (C :> {Text({}, {n}, {n})})
Answers == {[paths |-> TRUE, style |-> "both"], [paths |-> FALSE, style |-> "strikethrough"]}
=============================================================================
