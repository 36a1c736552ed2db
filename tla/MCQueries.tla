------------------------------ MODULE MCQueries ------------------------------
(***************************************************************************)
(* Queries for TLC: programs of up to three files, with every construct    *)
(* the requests look at, and some as they are while one is typing.         *)
(***************************************************************************)
EXTENDS Queries

Heading == << "PROGRAM", "PP", ";" >>
Data == << "DATA", "DD", "=", "va", ",", "vb", "(", "10", ")", ";" >>

\* Every statement that names something, and names nothing refers to.
Alone == "M" :>
    << Heading, Data, << "DEFINE", "e1", ",", "10", ";", "DEFINE", "e2", ",", "e1", ";" >>,
       << "PROC", "q1", "=", "l1", ":", "MOVE", "e1", ",", "va", ";" >>,
       << "IF", "va", "=", "10", "THEN", "DO", "l2", ":", "GOTO", "l1", ";" >>,
       << "END", ";", "ELSE", "q2", "va", ";" >>,
       << "GOTO_DEPENDING_ON", "va", ",", "l1", ",", "l3", ";", "l3", ":", "EXIT", ";", "END_PROC" >>,
       << "PROC", "q2", "=", "RETURN", ";", "END_PROC" >>,
       << "PROC", "MAIN", "=", "WHILE", "va", "<", "10", "THEN", "q1", ";" >>,
       << "END_PROC" >> >>

\* The parts of a program that need each other, and the program with those from
\* a to b in a COPY file, those from c to d in another, in it or behind it.
Parts ==
    << << << "DATA", "DD", "=", "va", ",", "vb", ";" >>, << "DATA", "EE", "=", "vc", ";" >>,
          << "DEFINE", "e1", ",", "10", ";" >>, << "DEFINE", "e2", ",", "e1", ";" >> >>,
       << << "PROC", "MAIN", "=", "q1", "vc", ",", "e2", ";" >>, << "q2", ";", "END_PROC" >> >>,
       << << "PROC", "q1", "=", "l1", ":", "MOVE", "va", ",", "e1", ";" >>,
          << "q2", ";", "MOVE", "va", ",", "vc", ";", "l2", ":", "q2", "va", ";" >>,
          << "GOTO", "l1", ";", "END_PROC" >>,
          << "PROC", "q2", "=", "MOVE", "vc", ",", "va", ";" >>,
          << "IF", "va", "=", "vc", "THEN", "GOTO", "l3", ";", "l3", ":" >>,
          << "GOTO_DEPENDING_ON", "va", ",", "l3", ";", "END_PROC" >> >> >>
Lines(first, last) == FlattenSeq([i \in 1 .. last - first + 1 |-> Parts[first + i - 1]])
Copy(f) == << << "COPY", f, ";" >> >>

Inside(a, b, c, d) ==
    ("M" :> << Heading >> \o Lines(1, a - 1) \o Copy("C") \o Lines(b + 1, 3))
    @@ ("C" :> Lines(a, c - 1) \o Copy("D") \o Lines(d + 1, b)) @@ ("D" :> Lines(c, d))
Behind(a, b, c, d) ==
    ("M" :> << Heading >> \o Lines(1, a - 1) \o Copy("C") \o Lines(b + 1, c - 1)
              \o Copy("D") \o Lines(d + 1, 3))
    @@ ("C" :> Lines(a, b)) @@ ("D" :> Lines(c, d))
Split ==
    {Inside(r[1], r[2], r[3], r[4]) :
        r \in {q \in [1 .. 4 -> 1 .. 3] : q[1] <= q[3] /\ q[3] <= q[4] /\ q[4] <= q[2]}}
    \cup {Behind(r[1], r[2], r[3], r[4]) :
        r \in {q \in [1 .. 4 -> 1 .. 3] : q[1] <= q[2] /\ q[2] < q[3] /\ q[3] <= q[4]}}

\* Statements and labels in a COPY file in a COPY file.
Nested ==
    ("M" :> << Heading, Data, << "PROC", "MAIN", "=", "EXIT", ";" >>, << "COPY", "C", ";", "l1", ":" >>,
               << "MOVE", "va", ",", "vb", ";", "GOTO", "l2", ";", "END_PROC" >> >>)
    @@ ("C" :> << << "GOTO", "l1", ";" >>, << "l2", ":", "COPY", "D", ";" >>,
                  << "IF", "va", "=", "vb", "THEN", "GOTO", "l3", ";" >> >>)
    @@ ("D" :> << << "EXIT", ";" >>, << "l3", ":", "MOVE", "vb", ",", "va", ";" >> >>)

\* A statement without its comma.
Wrong ==
    "M" :> << Heading, Data, << "PROC", "MAIN", "=", "MOVE", "va", "va", ";" >>,
              << "MOVE", "va", ",", "vb", ";" >>, << "END_PROC" >> >>

\* A program while it is typed: a procedure without its end.
Typing ==
    ("M" :> << Heading, << >>, Data, << "COPY", "C", ";" >>,
               << "PROC", "MAIN", "=", "q1", "vc", ",", "e1", ";" >>, << "MOVE", "va" >> >>)
    @@ ("C" :> << << "DATA", "EE", "=", "vc", ";" >>, << "DEFINE", "e1", ",", "10", ";" >> >>)

\* And one that does not begin with PROGRAM.
Untitled ==
    ("M" :> << << "COPY", "C", ";" >>, << "PROC", "MAIN", "=", "q1", ";" >> >>)
    @@ ("C" :> << << "DATA", "EE", "=", "vc", ";" >> >>)

Programs == {Alone, Nested, Wrong, Typing, Untitled} \cup Split
=============================================================================
