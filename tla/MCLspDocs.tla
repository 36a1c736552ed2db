------------------------------ MODULE MCLspDocs ------------------------------
(***************************************************************************)
(* Two sources, two COPY files, one of them found only by an include path. *)
(***************************************************************************)
EXTENDS LspDocs, TLC

CONSTANTS S, T, C, D

Directory == << S, T >>
Text(copies, n) == [copies |-> copies, version |-> n]

\* COPY files that copy nothing.
Flat ==
    (S :> {Text({C}, 1), Text({C, D}, 1)}) @@ (T :> {Text({}, 1), Text({C}, 1)})
    @@ (C :> {Text({}, 1), Text({}, 2)}) @@ (D :> {Text({}, 1)})

\* And one that may come to copy the other.
Nesting ==
    (S :> {Text({C}, 1)}) @@ (T :> {Text({C}, 1)})
    @@ (C :> {Text({}, 1), Text({D}, 1)}) @@ (D :> {Text({}, 1), Text({}, 2)})

\* The client has include paths and a style, or nothing to say.
Answers == {[paths |-> TRUE, style |-> "both"], [paths |-> FALSE, style |-> "strikethrough"]}
\* Or a style alone.
StyleAlone == {[paths |-> FALSE, style |-> "both"]}
=============================================================================
