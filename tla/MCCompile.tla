----------------------------- MODULE MCCompile -----------------------------
(***************************************************************************)
(* Programs for Compiler: DATA sections with variables declared twice,     *)
(* arrays and groups; procedures that are missing, doubled or too many;    *)
(* statements good and bad, alone and after another one.                   *)
(***************************************************************************)
EXTENDS Compiler

Data(name, decls) == [kind |-> "data", name |-> name, vars |-> decls]
Var(n, size) == [name |-> n, size |-> size]
Datas == {
    << Data("g", << Var("a", 0), Var("b", 2) >>) >>,
    << Data(None, << Var("a", 0) >>), Data("g", << Var("a", 0), Var("b", 2) >>) >>,
    << Data("g", << Var("b", 2), Var("a", 0), Var("a", 0) >>), Data("a", << >>) >>,
    << Data("g", << Var("b", 3), Var("c", 0) >>), Data("a", << Var("a", 2) >>) >> }

Ident(n) == [k |-> "ident", names |-> << n >>]
Literal == [k |-> "literal", names |-> << >>]
Long == [k |-> "long", names |-> << >>]
Indexed(n, m) == [k |-> "expr", names |-> << n, m >>]

S(kind, name, labels, operands, bytes) ==
    [kind |-> kind, name |-> name, labels |-> labels, operands |-> operands, bytes |-> bytes]
Verb(v, operands) == S("verb", v, << >>, operands, 3)
Label(l) == S("label", l, << >>, << >>, 0)
Goto(labels, operands) == S("goto", None, labels, operands, 3)
Call(p, operands) == S("call", p, << >>, operands, 3)
Block == S("block", None, << >>, << >>, 0)
Compare(operands) == S("compare", None, << >>, operands, 5)
End(bytes) == S("end", None, << >>, << >>, bytes)

\* IF a = n OR n = n THEN GOTO l ELSE ... , WHILE n = 1 DO CLEAR a.
If(n) == << Block, Compare(<< Ident("a"), Ident(n) >>), Compare(<< Ident(n), Ident(n) >>),
            Goto(<< "l" >>, << >>), End(3), Verb("PUSH", << Literal >>), End(0) >>
While(n) == << Block, Compare(<< Ident(n), Literal >>), Block, Verb("CLEAR", << Ident("a") >>),
               End(0), End(3) >>

Bodies == {
    << >>,
    << Verb("MOVE", << Ident("a"), Ident("b") >>) >>,
    << Verb("MOVE", << Literal, Ident("b") >>), Label("l") >>,
    << Verb("MOVE", << Ident("a"), Literal >>) >>,
    << Verb("MOVE", << Long, Ident("g") >>) >>,
    << Verb("MOVE", << Ident("a") >>) >>,
    << Verb("SWAP", << Ident("b"), Ident("b") >>) >>,
    << Verb("SWAP", << Ident("g"), Indexed("b", "a") >>) >>,
    << Verb("BREAK", << Ident("c") >>) >>,
    << Verb("STRING", << Ident("a"), Long, Indexed("b", "c") >>) >>,
    << Label("l"), Verb("CLEAR", << Ident("g") >>), Goto(<< "l" >>, << >>) >>,
    << Label("l"), Goto(<< "l", "m" >>, << Ident("b") >>), Label("l") >>,
    << Call("p", << Ident("b") >>) >>,
    << Call("main", << >>) >>,
    << Call("z", << Ident("c") >>) >>,
    << Label("l") >> \o If("b"),
    << Label("m") >> \o If("c"),
    << Label("l"), Label("m") >> \o While("b") \o << Verb("EXIT", << >>) >> }

Proc(name, body) == [kind |-> "proc", name |-> name, body |-> body]
Procs == {<< Proc("main", b) >> : b \in Bodies}
    \cup {<< Proc("main", << Label("l") >>), Proc(p, b) >> : p \in {"main", "p"}, b \in Bodies}
    \cup {<< Proc("main", << Call("p", << >>) >>), Proc("q", << >>), Proc("p", b) >> : b \in Bodies}
    \cup {<< Proc("p", << Call("p", << >>) >>), Proc("main", << Call("p", << >>) >>) >>, << >>}

MCPrograms == {[long |-> FALSE, children |-> d \o p] : d \in Datas, p \in Procs}
    \cup {[long |-> TRUE, children |-> << Proc("main", << >>) >>]}
=============================================================================
