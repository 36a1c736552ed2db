------------------------------ MODULE MCPreproc ------------------------------
(***************************************************************************)
(* Texts for Preproc, built of items, and what the parser should be given  *)
(* of them: each COPY replaced by the tokens of its file.                  *)
(***************************************************************************)
EXTENDS Preproc

W(w) == [k |-> "word", words |-> << w >>]
Nl == [k |-> "nl", words |-> << "NL" >>]
Copy(c) == [k |-> "copy", words |-> << "COPY", c, ";" >>, name |-> c]
Define(n) == [k |-> "define", words |-> << "DEFINE", n >>]
\* A COPY or DEFINE that is none: all but the COPY and its name is read again.
NoName == [k |-> "noname", words |-> << "COPY", ";" >>]
NoSemicolon == [k |-> "nosemicolon", words |-> << "COPY", "A", "B" >>]
NoDefine == [k |-> "nodefine", words |-> << "DEFINE", ";" >>]

Text(items) == FlattenSeq([i \in DOMAIN items |-> items[i].words])
Document(f, items) == [file |-> f, text |-> Text(items), items |-> items]
\* copies: name -> items
Disk(documents, copies) ==
    [documents |-> documents, copies |-> copies, content |-> [c \in DOMAIN copies |-> Text(copies[c])]]

-----------------------------------------------------------------------------
Tok(w, f, l) == [kind |-> IF w \in {"PROGRAM", "DEFINE", ";"} THEN w ELSE "IDENT",
                 word |-> w, file |-> f, line |-> l]

\* The tokens of items, read in file f from line l on, with f copied by the
\* files of includers: a COPY is left out when it is too deep, of a file
\* that is not there, or of an includer.
RECURSIVE Expansion(_, _, _, _)
Expansion(items, f, l, includers) ==
    IF items = << >> THEN << >>
    ELSE LET h == Head(items)
             here == CASE h.k = "word" -> << Tok(h.words[1], f, l) >>
                       [] h.k = "nl" -> << >>
                       [] h.k = "define" -> << Tok("DEFINE", f, l),
                                               [Tok(h.words[2], f, l) EXCEPT !.kind = "IDENT"] >>
                       [] h.k = "noname" -> << Tok(";", f, l) >>
                       [] h.k = "nosemicolon" -> << Tok("B", f, l) >>
                       [] h.k = "nodefine" -> << Tok("DEFINE", f, l), Tok(";", f, l) >>
                       [] h.k = "copy" ->
                            IF \/ Len(includers) >= MAX_INCLUDE_DEPTH
                               \/ h.name \notin DOMAIN disk.copies
                               \/ \E i \in DOMAIN includers : includers[i] = h.name
                            THEN << >>
                            ELSE Expansion(disk.copies[h.name], h.name, l, Append(includers, f))
         IN  here \o Expansion(Tail(items), f, l + (IF h.k = "nl" THEN 1 ELSE 0), includers)

\* Only the first token, when it does not begin a program.
Expected ==
    LET e == Expansion(document.items, document.file, 1, << >>)
    IN  IF e # << >> /\ e[1].kind # "PROGRAM" THEN << e[1] >> ELSE e

\* What the parser is given of a document is the expansion of that document,
\* from its files and at its lines, whatever has been parsed before.
\* (tbol_parse_string; the start conditions and buffers of tbol.l)
OwnText ==
    document # NULL =>
        /\ IsPrefix(tokens, Expected)
        /\ ~ parsing => tokens = Expected

-----------------------------------------------------------------------------
Header == << W("PROGRAM"), W("X"), W(";"), Nl >>
Body == << W("w"), Nl, W("w") >>
WithA == Header \o << Copy("A"), W("w"), Nl >> \o Body
WithB == Header \o << Nl, Copy("B"), Nl >> \o Body \o << Copy("A") >>

\* One file copies another, and the documents copy both; some begin with a
\* file that does not begin a program.
Nested == Disk({ Document("good", WithB), Document("plain", WithA),
                 Document("odd", Header \o << NoName, NoSemicolon, NoDefine, Define("PROGRAM"), Copy("gone") >> \o Body),
                 Document("header", << Copy("H") >> \o Body),
                 Document("in_A", << Nl, Copy("A") >> \o WithA),
                 Document("in_B", << Copy("B") >> \o WithB),
                 Document("empty", << Nl >>) },
               [A |-> << Nl, W("a"), Nl, Nl >>, B |-> << Copy("A"), W("b"), Nl, Copy("A") >>,
                H |-> Header, E |-> << >>])

\* As deep as may be and deeper, and in circles.
Deep == Disk({ Document("chain", Header \o << Copy("C1") >> \o Body),
               Document("circle", Header \o << Copy("P"), Copy("P") >> \o Body),
               Document("self", Header \o << Copy("S") >> \o Body),
               Document("D", Header \o << Copy("Q") >> \o Body) },
             [C1 |-> << Nl, Copy("C2"), W("c") >>, C2 |-> << Nl, Copy("C3"), W("c") >>,
              C3 |-> << Copy("C4"), Nl, W("c") >>, C4 |-> << Copy("C5"), Nl, W("c") >>,
              C5 |-> << W("c"), Copy("C6") >>, C6 |-> << W("c"), Copy("C7"), W("c") >>, C7 |-> << W("d") >>,
              P |-> << W("p"), Copy("R"), Nl >>, R |-> << Copy("P"), W("r"), Copy("P") >>,
              S |-> << W("s"), Nl, Copy("S"), W("t") >>,
              Q |-> << W("q"), Copy("D"), Nl >>, D |-> << Copy("Q"), Copy("C7"), W("d") >>])

Good == {Nested, Deep}

\* Documents as they are while they are being typed.
Typing == {Disk({ Document("good", WithA), Document("no_program", << Define("Q") >> \o Body),
                  Document("copy", Header \o << W("COPY") >>) }, [A |-> << Nl, W("a") >>])}
\* Documents given up within a COPY, often enough to fill file_stack.
GivenUpWithin == {Disk({ Document("good", WithA), Document("in_A", << Copy("A") >> \o WithA) },
                       [A |-> << Nl, W("a") >>])}
=============================================================================
