--------------------------- MODULE MCDataSection ---------------------------
(* Up to three statements over DATA sections of scalars and arrays, alone  *)
(* and in groups, seven or eight slots in all.                             *)
EXTENDS DataSection

Operand(kind, n) == [kind |-> kind, value |-> n, index |-> << >>]
Var(n) == Operand("rda", n)
Reg(r) == Operand("I", r)
Lit(n) == Operand("lit", n)
At(n, idx) == [Var(n) EXCEPT !.index = << idx >>]
Stmt(verb, operands) == [verb |-> verb, operands |-> operands]
Item(slot, dim) == [slot |-> slot, dim |-> dim]
G(start, items) == [start |-> start, items |-> items]

MCData == {
    << G(-1, << Item(0, 0), Item(1, 3), Item(4, 0), Item(5, 3) >>) >>,
    << G(-1, << Item(0, 0) >>), G(1, << Item(1, 3), Item(4, 0) >>), G(-1, << Item(5, 3) >>) >>,
    << G(-1, << Item(0, 0) >>), G(1, << Item(1, 0), Item(2, 0) >>), G(-1, << Item(3, 2), Item(5, 3) >>) >> }

Arrays(data) == {i.slot : i \in {j \in ToSet(Items(data)) : j.dim > 0}}
Scalars(data) == {i.slot : i \in ToSet(Items(data))} \ Arrays(data)
Wholes(data) == {Var(n) : n \in Arrays(data)}
                \cup {Operand("group", g.start) : g \in {h \in ToSet(data) : h.start # -1}}
By(data, indices) == {At(n, idx) : n \in Arrays(data), idx \in indices}

MCStatements(data) ==
    {Stmt("ADD", << Lit(1), p >>) :
        p \in {Var(n) : n \in Scalars(data)} \cup By(data, {Reg(1), Var(0), Lit(1), Lit(2)})}
    \cup {Stmt("MOVE", << a, b >>) : a \in By(data, {Reg(1)}), b \in By(data, {Reg(2)})}
    \cup {Stmt("MOVE", << Var(0), b >>) : b \in By(data, {Lit(1), Lit(2)})}
    \cup {Stmt("MOVE", << Var(a), Var(b) >>) : a \in Arrays(data), b \in Arrays(data)}
    \cup {Stmt("CLEAR", << w >>) : w \in Wholes(data)}
    \cup {Stmt("SAVE", << Var(0), w >>) : w \in Wholes(data) \cup By(data, {Lit(1)})}
    \cup {Stmt("CJ", << Reg(r), Lit(n) >>) : r \in {1, 2}, n \in {2, 3, 4}}
=============================================================================
