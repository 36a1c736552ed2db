--------------------------- MODULE MCInstructions ---------------------------
(***************************************************************************)
(* Statements for Instructions: every verb with every number of operands   *)
(* the semantic analysis (verb_specs of sema.c) lets through, one operand  *)
(* at a time being of a kind that changes the encoding.                    *)
(***************************************************************************)
EXTENDS Instructions

Plain == Rda(1)
Odd == {Rda(200), Gev(7), At(Rda(3), RegI(1)), Text(<< 0, 65 >>), RegP(0), Pev(65),
        Edge(221), At(Edge(0), Rda(221)), Group(200, 2), At(Group(158, 3), Group(157, 2)),
        Const(RegI(1), 3), Const(Rda(150), 8), Const(Rda(150), 9), Const(Pev(60), 6), Const(Gev(1), 2)}
OddVariable == Odd \ {Text(<< 0, 65 >>)}
Array == [k |-> "RDA", n |-> 5, size |-> 3]
HighArray == ArrayOf(156, 4)
\* With an extent, below slot 158 and across it.
Wide == {Array, HighArray, Group(5, 3), Group(156, 4)}
Offset == << 1, 2 >>

AllPlain(n) == [i \in 1 .. n |-> Plain]
\* n operands, at most one of them odd, or all the same odd one.
Tuples(n) == {AllPlain(n)}
             \cup {[AllPlain(n) EXCEPT ![i] = o] : i \in 1 .. n, o \in Odd}
             \cup {[i \in 1 .. n |-> o] : o \in Odd}
S(verb, tuples, imms) == {[verb |-> verb, ops |-> t, imm |-> m] : t \in tuples, m \in imms}
No == {<< >>}

Fixed == UNION {S(v, Tuples(FixedVerb[v][2]), No) : v \in DOMAIN FixedVerb}
\* The arities for which verb_table and opcode_table agree.
Passed == UNION {S(v, Tuples(1), No) : v \in DOMAIN PassVerb \ {"CANCEL"}} \cup S("CANCEL", {<< >>}, No)
Counted == S("STRING", UNION {Tuples(n) : n \in 2 .. 8}, No)
             \cup S("EDIT", UNION {Tuples(n) : n \in 3 .. 8}, No)
             \cup UNION {S(v, UNION {Tuples(n) : n \in 1 .. 8}, No) : v \in {"LINK", "TRANSFER"}}
             \cup UNION {S(v, {AllPlain(9), AllPlain(17)}, No) : v \in {"STRING", "LINK", "TRANSFER"}}
             \cup S("CALL", UNION {Tuples(n) : n \in 0 .. 8} \cup {AllPlain(9)}, {Offset})
Sizes(v) == {n \in 0 .. Len(ByCount[v]) - 1 : ByCount[v][n + 1] # 0}
Handlers == UNION {S(v, UNION {Tuples(n) : n \in Sizes(v)},
                     IF v \in Jumps THEN {Offset} ELSE No) : v \in DOMAIN ByCount \ {"SOUND"}}
              \cup S("SOUND", {<< >>} \cup Tuples(2), No)
Moves == S("MOVE", {t \in Tuples(2) : t[2] # Text(<< 0, 65 >>)}
                   \cup {<< Array, ArrayOf(156, 3) >>, << ArrayOf(156, 3), Array >>, << HighArray, RegI(1) >>}
                   \cup {<< Group(5, 3), Group(156, 3) >>, << Group(156, 3), Plain >>}, No)
Clears == S("CLEAR", {<< o >> : o \in OddVariable \cup {Plain, ArrayOf(158, 4)} \cup Wide}
                     \cup {<< o, e >> : o \in OddVariable, e \in OddVariable \cup Wide}, No)
Saves == S("SAVE", Tuples(2) \cup {<< Text(<< 75 >>), o >> : o \in Wide}
                   \cup {<< Text(<< 75 >>), o, e >> : o \in OddVariable, e \in OddVariable \cup Wide}, No)
Sends == S("SEND", Tuples(1) \cup Tuples(2), {<< 255, 255, 3 >>})
Others == S("GOTO_DEPENDING_ON", Tuples(1), {Offset, Offset \o Offset})
            \cup S("SET_ATTRIBUTE", Tuples(1), {<< 128, 64, 128, 128 >>})
            \cup S("SET_ATTRIBUTE", {<< o, Text(<< 78, 78 >>) >> : o \in Odd \cup {Plain}}, {<< 32, 32, 1, 2 >>})
            \cup S("DEFINE_FIELD", {t \o << Text(<< 49 >>) >> : t \in Tuples(4)}
                                   \cup {t \o << Text(<< 49 >>), Plain >> : t \in Tuples(4)}, No)
Width == << Text(<< 56 >>), Text(<< >>) >>
Formats == S("MAKE_FORMAT",
             {<< m, a >> \o Width \o (IF n > 1 THEN << b >> \o Width ELSE << >>)
                \o (IF n > 2 THEN << c >> \o Width ELSE << >>)
                \o (IF n > 3 THEN FlattenSeq([i \in 1 .. n - 3 |-> << d >> \o Width]) ELSE << >>) :
                m, a, b, c, d \in {Plain, Gev(7)}, n \in {1, 2, 3, 6}}, No)

All == Fixed \cup Passed \cup Counted \cup Handlers \cup Moves \cup Clears \cup Saves
         \cup Sends \cup Others \cup Formats
\* What follows: a statement with operands, and the RETURN of every procedure.
After == S("ADD", {<< Gev(7), Plain >>}, No)
Return == [verb |-> "RETURN", ops |-> << >>, imm |-> << >>]
ASSUME AllAgreed == \A s \in All : Agreed(s)
Short == {<< s, t, Return >> : s \in All, t \in After}

\* More than eight operands, one of them needing the long form.
ManyOperands == {<< [verb |-> "STRING", ops |-> [AllPlain(16) EXCEPT ![16] = Gev(7)], imm |-> << >>], Return >>}
\* KILL without an operand.
BareKill == {<< [verb |-> "KILL", ops |-> << >>, imm |-> << >>], t, Return >> : t \in After}
StartPrograms == {<< [verb |-> "START", ops |-> << Plain >>, imm |-> << >>], Return >>}
RangeToLiteral == {<< [verb |-> "SAVE", ops |-> << Text(<< 75 >>), Plain, Text(<< 49 >>) >>, imm |-> << >>],
                      t, Return >> : t \in After}
\* RDA_LAST as a subscript.
LastSubscript == {<< [verb |-> "MOVE", ops |-> << At(Plain, Edge(221)), Plain >>, imm |-> << >>], Return >>}
\* An element of a group, and a group behind slot 157 as a subscript.
GroupElement == {<< [verb |-> "MOVE", ops |-> << Const(Group(5, 3), 2), Plain >>, imm |-> << >>], t, Return >> : t \in After}
GroupSubscript == {<< [verb |-> "MOVE", ops |-> << At(Plain, Group(200, 2)), Plain >>, imm |-> << >>], Return >>}
\* A name nobody declared as the ninth operand: compute_operand_value finds
\* no symbol and has 0 for it.
Undeclared == [k |-> "NONE", n |-> 0]
Ninth == {<< [verb |-> "STRING", ops |-> Append(AllPlain(8), Undeclared), imm |-> << >>], t, Return >> : t \in After}
FieldObject == {<< [verb |-> "DEFINE_FIELD", ops |-> AllPlain(4) \o << Gev(7) >>, imm |-> << >>], Return >>}
=============================================================================
