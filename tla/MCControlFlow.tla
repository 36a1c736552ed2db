--------------------------- MODULE MCControlFlow ---------------------------
(***************************************************************************)
(* Procedure bodies for ControlFlow: an IF or a WHILE, or one inside or    *)
(* after another, between labels it may jump to.                           *)
(***************************************************************************)
EXTENDS ControlFlow

Cmp(id, op) == [k |-> "cmp", id |-> id, op |-> op]
And(l, r) == [k |-> "and", l |-> l, r |-> r]
Or(l, r) == [k |-> "or", l |-> l, r |-> r]
Do(v) == [k |-> "verb", id |-> v]
Goto(l) == [k |-> "goto", to |-> l]
Label(l) == [k |-> "label", to |-> l]
Block(ss) == [k |-> "do", body |-> ss]
If(c, t, e) == [k |-> "if", c |-> c, then |-> t, else |-> e]
While(c, b) == [k |-> "while", c |-> c, body |-> b]
Empty == [k |-> "empty"]
Exit == [k |-> "return"]

\* Every operator; every way to combine up to four comparisons with OR
\* below AND below OR.
Simple == {Cmp("a", op) : op \in Comparison}
Pairs == LET a == Cmp("a", "EQ")
             b == Cmp("b", "LT")
         IN  {And(a, b), Or(a, b)}
Conditions ==
    LET a == Cmp("a", "EQ")
        b == Cmp("b", "LT")
        c == Cmp("c", "GE")
        d == Cmp("d", "NE")
    IN  Pairs \cup {Or(Or(a, b), c), Or(a, Or(b, c)), And(Or(a, b), c), And(a, Or(b, c)),
                    Or(And(a, b), c), Or(a, And(b, c)), And(And(a, b), c),
                    Or(Or(Or(a, b), c), d), Or(Or(a, b), Or(c, d)), And(Or(a, b), Or(c, d)),
                    Or(And(Or(a, b), c), d), Or(Or(a, And(b, c)), d), Or(a, And(b, Or(c, d)))}

\* Bodies that fall through, jump out, back or in, and return.
Flat == {Do("p"), Goto("before"), Goto("behind"), Block(<< Goto("behind") >>), Exit,
         Block(<< Do("p"), Label("inside"), Do("q") >>)}
Inner == {If(Cmp("i", op), << b >>, e) : op \in {"EQ", "LT"}, b \in {Do("r"), Goto("before")},
                                         e \in {<< >>, << Do("s") >>}}
           \cup {While(c, << b >>) : c \in {Cmp("i", "GT"), Or(Cmp("i", "EQ"), Cmp("j", "LE"))},
                                     b \in {Do("r"), Goto("behind")}}
Nested == Inner \cup {Block(<< s, Label("inside"), Do("q") >>) : s \in Inner}

Around(ss) == << Label("before"), Do("x") >> \o ss \o << Do("y"), Label("behind"), Do("z") >>
Outer(cs, bs) == {If(c, << b >>, e) : c \in cs, b \in bs, e \in {<< >>, << Do("t") >>, << Goto("behind") >>}}
                   \cup {While(c, << b >>) : c \in cs, b \in bs}

Enter == If(Cmp("e", "EQ"), << Goto("inside") >>, << >>)
HasInside(s) == Behind(<< s >>, "inside", << >>) # {}

Good == {Around(<< s >>) : s \in Outer(Simple \cup Conditions, Flat)}
          \cup {Around(<< s >>) : s \in Outer(Pairs \cup {Cmp("a", "LE")}, Nested)}
          \cup {Around(<< Enter, s >>) : s \in {o \in Outer(Pairs, Flat \cup Nested) : HasInside(o)}}
          \cup {Around(<< If(Cmp("a", "EQ"), << Do("p") >>, << Empty >>) >>),
                Around(<< If(Cmp("a", "EQ"), << Block(<< Empty >>) >>, << Do("q") >>), Empty >>),
                Around(<< Label("self"), Goto("self") >>)}

Nothing == {Null}

\* An empty statement between THEN and ELSE.
EmptyThen == {Around(<< If(Cmp("a", "EQ"), << Empty >>, << Do("t") >>) >>)}
\* A WHILE with nothing to do: its body is read from memory nothing was put in.
EmptyWhile == {Around(<< While(Cmp("a", "EQ"), << Empty >>) >>)}
Leftover == {Null, Do("stale")}
\* One term more than there is room for.
ManyTerms == {Around(<< If(Or(Or(Or(Cmp("a", "EQ"), Cmp("b", "EQ")), Cmp("c", "EQ")), Cmp("d", "EQ")),
                           << Do("p") >>, << >>) >>)}
=============================================================================
