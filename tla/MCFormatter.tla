---------------------------- MODULE MCFormatter ----------------------------
(* Texts for the formatter: every way to break programs with IF, ELSE,     *)
(* WHILE and DO into lines, with one empty line, and a comment, a label, a *)
(* string with escapes or a DATA section in the ones that have it.         *)
EXTENDS Formatter

MCComments == {"{n}", "{isn't}"}
MCQuoting == {"{isn't}"}
MCLabels == ("label_1:" :> "label_1;") @@ ("label_2:" :> "label_2;")
MCLiterals == "'A\\x41';" :> [leading |-> 1, hex |-> "0x4141;"]

S == << "s;" >>
T == << "t;" >>
Do(body) == << "DO" >> \o body \o << "END;" >>
If(then) == << "IF", "c", "THEN" >> \o then
IfElse(then, else) == If(then) \o << "ELSE" >> \o else
While(body) == << "WHILE", "c", "THEN" >> \o body

\* One block inside another, and statements before and behind.
Inner == {S, Do(S), If(S), IfElse(S, T), If(Do(S)), IfElse(Do(S), T)}
Blocks ==
    {If(x) : x \in Inner} \cup {While(Do(x)) : x \in Inner}
        \cup {IfElse(S, x) : x \in Inner} \cup {IfElse(Do(x), T) : x \in Inner}
Sequences ==
    {x \o T : x \in Blocks} \cup {S \o x : x \in Blocks} \cup {x \o y : x \in Inner, y \in Inner}
UpTo(n) == {words \in Sequences : Len(words) <= n}

Inserted(words, w) == {InsertAt(words, i, w) : i \in 2 .. Len(words)}
Commented == UNION {Inserted(words, c) : words \in UpTo(5), c \in MCComments}
Others == {
    << "IF", "c", "THEN", "A", "{isn't}", "'A\\x41';", "'A\\x41';", "t;" >>,
    << "label_1:", "GOTO", "label_1;", "label_2:", "IF", "c", "THEN", "t;" >>,
    << "PROGRAM", "p;", "DATA", "g", "=", "x,", "y;", "PROC", "m", "=", "s;" >>,
    << "PROC", "m", "=", "IF", "c", "THEN", "s;", "END_PROC;", "PROC", "n", "=" >> }

Opts(strip, cuddle, width) ==
    [strip_labels |-> strip, cuddle_else |-> cuddle, indent_width |-> width]
MCOptions == {Opts(FALSE, TRUE, 4), Opts(TRUE, TRUE, 2), Opts(TRUE, FALSE, 0)}

MCPrograms == UpTo(10) \cup Commented \cup Others
=============================================================================
