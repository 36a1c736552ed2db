---------------------------- MODULE Instructions ----------------------------
(***************************************************************************)
(* One instruction after another: how the compiler writes the statements   *)
(* of a procedure (gen_verb and the emit_ functions of                     *)
(* compiler/codegen) and how decode_program (shared/bytecode/decode.c)     *)
(* finds them again.  The code carries no marks: a statement written one   *)
(* byte longer or shorter than the decoder reads puts every later          *)
(* instruction out of step.                                                *)
(*                                                                         *)
(* A statement is [verb, ops, imm]: operands as in OperandCodec, and the   *)
(* bytes that are no operands (counts, offsets, attributes, timeouts).     *)
(* A name is that of a variable, an array or a DATA group, and the code    *)
(* treats the last two alike in CLEAR, SAVE and at the end of a range only. *)
(* Offsets are zero here; module Codegen patches them.                     *)
(***************************************************************************)
EXTENDS OperandCodec, SequencesExt

CONSTANT Programs       \* the statement sequences to compile

IsSequence(s) == s \in Seq({s[i] : i \in DOMAIN s})
ASSUME ProgramsAssumption == \A p \in Programs : IsSequence(p)

VARIABLES
    source,         \* statements still to be generated
    code,           \* the bytes emitted
    written,        \* << position, statement >> of every statement generated
    pos,            \* where decode_program reads next
    decoded         \* the instructions it has found

vars == << source, code, written, pos, decoded >>

-----------------------------------------------------------------------------
(* The compiler's side.                                                    *)

Extent(o) == IF "size" \in DOMAIN o THEN o.size ELSE 0
Bits(ops) == [i \in DOMAIN ops |-> needs_extended_encoding(ops[i])]
check_complex_mode(bits) == \E i \in DOMAIN bits : bits[i]
\* The mode bits of operands 8b-7 .. 8b, the first in the high bit.
ModeByte(bits, b) ==
    LET on(j) == LET i == 8 * (b - 1) + j IN IF i <= Len(bits) /\ bits[i] THEN 1 ELSE 0
    IN  128 * on(1) + 64 * on(2) + 32 * on(3) + 16 * on(4) + 8 * on(5) + 4 * on(6) + 2 * on(7) + on(8)
ModeBytes(bits, from) ==
    [i \in 1 .. ((Len(bits) + 7) \div 8) - from + 1 |-> ModeByte(bits, from + i - 1)]
\* The bytes of the first i operands, for each i.
Emitted(ops) == LET b[i \in 0 .. Len(ops)] == IF i = 0 THEN << >> ELSE b[i - 1] \o emit_operand(ops[i])
                IN  b
Operands(ops) == Emitted(ops)[Len(ops)]

Opcode(op, bits) ==
    IF check_complex_mode(bits) THEN << op + 128, ModeByte(bits, 1) >> ELSE << op >>

emit_instruction(op, ops) == Opcode(op, Bits(ops)) \o Operands(ops)

\* A count, one byte, between the opcode and the operands.
emit_counted(op, n, ops) == Opcode(op, Bits(ops)) \o << n % 256 >> \o Operands(ops)

\* The end of a range: the last slot of an array or group.
compute_range_end_value(o) ==
    IF Extent(o) > 0 THEN RdaValue(o.n + o.size - 1) ELSE compute_operand_value(o)
emit_range_instruction(op, ops) ==
    LET last == Last(ops)
        end == compute_range_end_value(last)
    IN  IF last.k \in {"at", "const"} THEN emit_instruction(op, ops)
        ELSE Opcode(op, Append(Bits(Front(ops)), end >= 256)) \o Operands(Front(ops))
               \o (IF end >= 256 THEN emit_word_be(end) ELSE << end >>)

\* All the mode bytes before the count.
emit_var_instruction(op, ops) ==
    (IF check_complex_mode(Bits(ops)) THEN << op + 128 >> \o ModeBytes(Bits(ops), 1)
                                      ELSE << op >>)
      \o << Len(ops) % 256 >> \o Operands(ops)

gen_proc_call(ops, offset) == emit_var_instruction(70, ops) \o offset

\* With a fault, to try the properties: all the mode bytes before the count,
\* as emit_var_instruction has them.
gen_make_format_early(ops) ==
    LET bits == Bits(ops)
    IN  (IF check_complex_mode(bits) THEN << 52 + 128 >> \o ModeBytes(bits, 1) ELSE << 52 >>)
          \o << (Len(ops) - 1) \div 3 >> \o Operands(ops)

\* The first mode byte, the count of fields, then the other mode bytes.
gen_make_format(ops) ==
    LET bits == Bits(ops)
    IN  Opcode(52, bits) \o << (Len(ops) - 1) \div 3 >>
          \o (IF check_complex_mode(bits) THEN ModeBytes(bits, 2) ELSE << >>)
          \o Operands(ops)

\* The mode byte covers the first four operands only; a last byte 1.
gen_define_field(ops) ==
    Opcode(IF Len(ops) = 6 THEN 9 ELSE 8, Bits(SubSeq(ops, 1, 4))) \o Operands(ops) \o << 1 >>

\* The field, four attribute bytes, and the text of a FORM( that is closed.
gen_set_attribute(ops, attributes) ==
    Opcode(10, Bits(<< ops[1] >>)) \o emit_operand(ops[1]) \o attributes
      \o (IF Len(ops) = 2 THEN << Len(ops[2].n) >> \o ops[2].n ELSE << >>)

\* verb_table: opcode and operand count of the verbs with no handler.
FixedVerb ==
    [ MOVE_ABS |-> << 38, 2 >>, ADD |-> << 40, 2 >>, SUBTRACT |-> << 41, 2 >>,
      MULTIPLY |-> << 42, 2 >>, AND |-> << 46, 2 >>, OR |-> << 47, 2 >>,
      XOR |-> << 48, 2 >>, TEST |-> << 49, 2 >>, SWAP |-> << 39, 2 >>,
      FILL |-> << 45, 3 >>, PUSH |-> << 58, 1 >>, POP |-> << 59, 1 >>,
      SUBSTR |-> << 55, 4 >>, INSTR |-> << 56, 3 >>, UPPERCASE |-> << 57, 1 >>,
      LENGTH |-> << 50, 2 >>, FORMAT |-> << 51, 3 >>, OPEN_WINDOW |-> << 31, 1 >>,
      OPEN |-> << 11, 2 >>, NOTE |-> << 83, 2 >>, POINT |-> << 84, 2 >>,
      DELETE |-> << 110, 1 >>, CONNECT |-> << 18, 1 >>, RECEIVE |-> << 22, 2 >>,
      RESTORE |-> << 79, 2 >>, RELEASE |-> << 80, 1 >>, ERROR |-> << 76, 1 >>,
      TRIGGER_FUNCTION |-> << 90, 1 >>, SORT |-> << 87, 3 >>, LOOKUP |-> << 88, 5 >>,
      NAVIGATE_FIRST |-> << 27, 0 >>, NAVIGATE_NEXT |-> << 25, 0 >>,
      NAVIGATE_BACK |-> << 26, 0 >>, NAVIGATE_LAST |-> << 28, 0 >>,
      PURGE_CACHE |-> << 36, 0 >>, REFRESH |-> << 101, 0 >>, WAIT |-> << 63, 0 >>,
      DISCONNECT |-> << 19, 0 >> ]
\* The verbs emitted with as many operands as they were given.
PassVerb == [ KILL |-> 35, CANCEL |-> 23, ERASE |-> 102, SET_CURSOR |-> 103,
              STOP |-> 65, NAVIGATE |-> 24 ]
VarVerb == [ STRING |-> 54, EDIT |-> 53, LINK |-> 71, TRANSFER |-> 73 ]
\* The handlers that choose an opcode by the number of operands:
\* ByCount[verb][n + 1], 0 for a number the semantic analysis refuses.
ByCount ==
    [ DIVIDE |-> << 0, 0, 43, 44 >>, EXIT |-> << 74, 100 >>, RETURN |-> << 72, 99 >>,
      FETCH |-> << 0, 29, 30 >>, CLOSE |-> << 0, 13 >>, CLOSE_WINDOW |-> << 33, 34 >>,
      OPEN_ERROR_WINDOW |-> << 0, 106, 109 >>, SOUND |-> << 85, 86, 86 >>,
      SET_KEY |-> << 0, 0, 0, 66 >>, SET_FUNCTION |-> << 0, 0, 68, 69, 108 >>,
      READ |-> << 0, 0, 14, 15 >>, WRITE |-> << 0, 0, 16, 17 >>,
      CJEQ |-> << 0, 0, 1 >>, CJNE |-> << 0, 0, 2 >>, CJLT |-> << 0, 0, 3 >>,
      CJGT |-> << 0, 0, 4 >>, CJLE |-> << 0, 0, 5 >>, CJGE |-> << 0, 0, 6 >>,
      JUMP |-> << 7 >> ]
Jumps == {"CJEQ", "CJNE", "CJLT", "CJGT", "CJLE", "CJGE", "JUMP"}

\* A MOVE of an array to what has a name.  Groups are not looked up, so one is
\* moved like a variable.  (The semantic analysis refuses all but another array
\* of the same size.)
HasName(o) == o.k \in {"RDA", "GROUP"}
Block(ops) == ops[1].k = "RDA" /\ Extent(ops[1]) > 0 /\ HasName(ops[2])

\* gen_verb and the statements with a generator of their own.  A verb the
\* table does not know becomes BREAK, a single zero.
Handled(s) == s.verb \in DOMAIN ByCount
Generate(s) ==
    CASE s.verb \in DOMAIN FixedVerb -> emit_instruction(FixedVerb[s.verb][1], s.ops)
      [] s.verb \in DOMAIN PassVerb  -> emit_instruction(PassVerb[s.verb], s.ops)
      [] s.verb \in DOMAIN VarVerb   -> emit_var_instruction(VarVerb[s.verb], s.ops)
      [] Handled(s) -> emit_instruction(ByCount[s.verb][Len(s.ops) + 1], s.ops) \o s.imm
      [] s.verb = "MOVE" ->
            IF Block(s.ops) THEN emit_counted(98, Extent(s.ops[1]), s.ops)
                            ELSE emit_instruction(37, s.ops)
      [] s.verb = "CLEAR" ->
            IF Len(s.ops) = 2 THEN emit_range_instruction(82, s.ops)
            ELSE IF Extent(s.ops[1]) > 0 THEN emit_counted(81, Extent(s.ops[1]), s.ops)
                                         ELSE emit_var_instruction(81, s.ops)
      [] s.verb = "SAVE" ->
            IF Len(s.ops) = 3 THEN emit_range_instruction(78, s.ops)
            ELSE emit_counted(77, IF Extent(s.ops[2]) > 0 THEN Extent(s.ops[2]) ELSE 1, s.ops)
      [] s.verb = "SEND" -> emit_instruction(19 + Len(s.ops), s.ops) \o s.imm
      [] s.verb = "CALL" -> gen_proc_call(s.ops, s.imm)
      [] s.verb = "GOTO_DEPENDING_ON" ->
            emit_instruction(75, s.ops) \o << Len(s.imm) \div 2 >> \o s.imm
      [] s.verb = "SET_ATTRIBUTE" -> gen_set_attribute(s.ops, s.imm)
      [] s.verb = "MAKE_FORMAT" -> gen_make_format(s.ops)
      [] s.verb = "DEFINE_FIELD" -> gen_define_field(s.ops)
      [] OTHER -> << 0 >>

-----------------------------------------------------------------------------
(* The decoder's side.                                                     *)

\* opcode_table: the opcodes by their fixed number of operands.
OperandCount ==
    << {1, 2, 3, 4, 5, 6, 38, 37, 39, 40, 41, 42, 43, 50, 79, 82, 83, 84, 86, 30, 68, 46,
        47, 48, 49, 109, 11, 14, 16, 22},                                       \* two
       {44, 45, 51, 56, 78, 87, 69, 66, 15, 17},                                \* three
       {55, 108}, {88, 67},                                                     \* four, five
       {57, 58, 59, 99, 100, 76, 80, 90, 24, 29, 31, 32, 34, 35, 64, 65, 103,
        106, 110, 13, 18, 102} >>                                               \* one
NoOperand == {0, 7, 72, 74, 85, 25, 26, 27, 28, 33, 36, 12, 19, 23, 101, 63}
Variadic == {54, 70, 71, 73, 53}
Special == {8, 9, 10, 75, 77, 81, 52, 98, 20, 21}
HasOffset == {1, 2, 3, 4, 5, 6, 7, 70}
Known == (UNION {OperandCount[i] : i \in 1 .. 5}) \cup NoOperand \cup Variadic \cup Special
FixedCount(op) ==
    IF op \in NoOperand THEN 0
    ELSE IF op \in OperandCount[1] THEN 2
    ELSE IF op \in OperandCount[2] THEN 3
    ELSE IF op \in OperandCount[3] THEN 4
    ELSE IF op \in OperandCount[4] THEN 5
    ELSE 1

\* With a fault, to try the properties: the destination of MAKE_FORMAT is not
\* counted.
SpecialCountShort(op, n) ==
    CASE op = 81 -> 1
      [] op \in {77, 98} -> 2
      [] op = 52 -> 3 * n
      [] OTHER -> n

\* How many operands an opcode with a count byte n is followed by.
SpecialCount(op, n) ==
    CASE op = 81 -> 1
      [] op \in {77, 98} -> 2
      [] op = 52 -> 3 * n + 1
      [] OTHER -> n

\* n bytes from p, as far as the code goes.
Bytes(p, n) == SubSeq(code, p, IF p + n - 1 <= Len(code) THEN p + n - 1 ELSE Len(code))
At8(p) == IF p <= Len(code) THEN code[p] ELSE 0
Weight == << 128, 64, 32, 16, 8, 4, 2, 1 >>
Bit(modes, i) ==
    LET b == (i + 7) \div 8
    IN  b <= Len(modes) /\ (modes[b] \div Weight[1 + ((i - 1) % 8)]) % 2 = 1

\* One round of the loop that reads operands: past the end it adds none.
ReadNext(r, ext) ==
    IF r.next > Len(code) THEN r
    ELSE LET o == read_operand(code, r.next, ext)
         IN  [ops |-> IF o.op = Nothing THEN r.ops ELSE Append(r.ops, o.op), next |-> o.next]

\* The loop that reads n operands, from p on.
ReadOperands(p, n, modes) ==
    LET r[i \in 0 .. n] == IF i = 0 THEN [ops |-> << >>, next |-> p]
                                    ELSE ReadNext(r[i - 1], Bit(modes, i))
    IN  r[n]

\* The mode byte behind the opcode at p, and what comes after it.
Mode(p) == IF code[p] >= 128 THEN Bytes(p + 1, 1) ELSE << >>
Body(p) == p + 1 + Len(Mode(p))

\* n operands and nothing before them; a count byte, the other mode bytes and
\* as many operands as it says.
ReadPlain(p, n) == ReadOperands(Body(p), n, Mode(p))
ReadCounted(p) ==
    LET k == SpecialCount(code[p] % 128, At8(Body(p)))
        extra == IF code[p] >= 128 /\ k > 8 THEN Bytes(Body(p) + 1, (k - 1) \div 8) ELSE << >>
    IN  ReadOperands(Body(p) + 1 + Len(extra), k, Mode(p) \o extra)

\* An instruction: its opcode, its operands, the other bytes, and where the
\* next one is looked for.  Trailing: n other bytes behind the operands, if
\* there are as many.
Instr(op, r, imm, next) == [op |-> op, ops |-> r.ops, imm |-> imm, next |-> next]
Trailing(op, r, n) ==
    IF r.next + n - 1 <= Len(code) THEN Instr(op, r, Bytes(r.next, n), r.next + n)
                                   ELSE Instr(op, r, << >>, r.next)

\* GOTO_DEPENDING_ON: the count of its offsets follows the operand.
GotoTable(r) ==
    LET n == IF r.next + 2 * At8(r.next) <= Len(code) THEN At8(r.next)
                                                      ELSE (Len(code) - r.next) \div 2
    IN  IF r.next > Len(code) THEN Instr(75, r, << >>, r.next)
        ELSE Instr(75, r, Bytes(r.next + 1, 2 * n), r.next + 1 + 2 * n)

\* SET_ATTRIBUTE: four bytes, and a text when the second has the FORM bit.
Attributes(r) ==
    LET form == r.next + 4
        len == At8(form)
        four == Bytes(r.next, 4)
    IN  IF (At8(r.next + 1) \div 32) % 2 = 0 \/ form > Len(code)
        THEN Instr(10, r, four, r.next + Len(four))
        ELSE IF form + len > Len(code) THEN Instr(10, r, four, form + 1)
        ELSE Instr(10, [ops |-> Append(r.ops, Text(Bytes(form + 1, len)))], four, form + 1 + len)

\* decode_instruction at p.
decode_instruction(p) ==
    LET op == code[p] % 128
    IN  CASE op \notin Known -> Instr(op, [ops |-> << >>], << >>, p + 1)
          [] op \in Variadic -> Trailing(op, ReadCounted(p), IF op \in HasOffset THEN 2 ELSE 0)
          [] op \in {77, 81, 98, 52} -> Instr(op, ReadCounted(p), Bytes(Body(p), 1), ReadCounted(p).next)
          [] op = 75 -> GotoTable(ReadPlain(p, 1))
          [] op \in {8, 9} -> Trailing(op, ReadPlain(p, IF op = 9 THEN 6 ELSE 5), 1)
          [] op \in {20, 21} -> Trailing(op, ReadPlain(p, op - 19), 3)
          [] op = 10 -> Attributes(ReadPlain(p, 1))
          [] OTHER -> Trailing(op, ReadPlain(p, FixedCount(op)), IF op \in HasOffset THEN 2 ELSE 0)

-----------------------------------------------------------------------------
Init ==
    /\ source \in Programs
    /\ code = << >> /\ written = << >>
    /\ pos = 1 /\ decoded = << >>

\* gen_statement: the next statement is appended to the code.
GenStatement ==
    /\ source # << >>
    /\ source' = Tail(source)
    /\ code' = code \o Generate(Head(source))
    /\ written' = Append(written, << Len(code) + 1, Head(source) >>)
    /\ UNCHANGED << pos, decoded >>

\* One round of decode_program's loop.
DecodeInstruction ==
    /\ source = << >>
    /\ pos <= Len(code)
    /\ decoded' = Append(decoded, << pos, decode_instruction(pos) >>)
    /\ pos' = decode_instruction(pos).next
    /\ UNCHANGED << source, code, written >>

Next == GenStatement \/ DecodeInstruction

Spec == Init /\ [][Next]_vars

-----------------------------------------------------------------------------
\* The opcode a statement should be found under (opcodes.h).
MeantOpcode(s) ==
    CASE s.verb \in DOMAIN FixedVerb -> FixedVerb[s.verb][1]
      [] s.verb \in DOMAIN PassVerb -> PassVerb[s.verb]
      [] s.verb \in DOMAIN VarVerb -> VarVerb[s.verb]
      [] Handled(s) -> ByCount[s.verb][Len(s.ops) + 1]
      [] s.verb = "MOVE" -> IF Block(s.ops) THEN 98 ELSE 37
      [] s.verb = "CLEAR" -> 80 + Len(s.ops)
      [] s.verb = "SAVE" -> 75 + Len(s.ops)
      [] s.verb = "SEND" -> 19 + Len(s.ops)
      [] s.verb = "DEFINE_FIELD" -> 3 + Len(s.ops)
      [] OTHER -> [CALL |-> 70, GOTO_DEPENDING_ON |-> 75, SET_ATTRIBUTE |-> 10,
                   MAKE_FORMAT |-> 52, START |-> 64][s.verb]

\* The operands a reader should be shown: an array or group by its first slot,
\* or by its last at the end of a range; RDA_FIRST and RDA_LAST by their slots; a
\* constant subscript by the variable it selects.
Named(o) == IF o.k = "EDGE" \/ Extent(o) > 0 THEN Rda(o.n) ELSE o
Shown(o) == IF o.k = "const" THEN ConstIndexed(Named(o.base), o.n)
            ELSE IF o.k = "at" THEN At(Named(o.base), Named(o.idx))
            ELSE Named(o)
ShownOperands(s) ==
    LET ops == [i \in DOMAIN s.ops |-> Shown(s.ops[i])]
        end == Last(s.ops)
    IN  IF ops # << >> /\ Extent(end) > 0 /\ << s.verb, Len(ops) >> \in {<< "SAVE", 3 >>, << "CLEAR", 2 >>}
        THEN [ops EXCEPT ![Len(ops)] = Rda(end.n + end.size - 1)]
        ELSE ops

\* The slots a block move, CLEAR or SAVE is about.
SlotCount(s) ==
    CASE s.verb = "SAVE" /\ Len(s.ops) = 2 /\ Extent(s.ops[2]) > 0 -> Extent(s.ops[2])
      [] s.verb \in {"CLEAR", "MOVE"} /\ Extent(s.ops[1]) > 0 -> Extent(s.ops[1])
      [] OTHER -> 1

\* The operands both sides know: a variable, RDA_FIRST or RDA_LAST, an array or
\* group within the RDA, a literal, an element of any of these by a variable
\* subscript, and of any but a group by a constant one.  A subscript is written
\* in one byte, which RDA_LAST and a group behind slot 157 do not fit.
HasExtent(o) ==
    /\ o.k \in {"RDA", "GROUP"} /\ "size" \in DOMAIN o /\ o = [k |-> o.k, n |-> o.n, size |-> o.size]
    /\ o.n \in 0 .. LastSlot /\ o.size \in 1 .. LastSlot + 1 - o.n
IsEdge(o) == o.k = "EDGE" /\ o = Edge(o.n) /\ o.n \in 0 .. LastSlot
IsDirect(o) == HasExtent(o) \/ IsEdge(o) \/ (o.k \in {"I", "D", "P", "RDA", "PEV", "GEV"} /\ o \in Variable)
IsText(o) == o.k = "STR" /\ o = Text(o.n) /\ o.n \in Seq(Byte) /\ Len(o.n) <= 255
IsConst(o) ==
    /\ o.k = "const" /\ o = Const(o.base, o.n) /\ IsDirect(o.base) /\ o.base.k # "GROUP"
    /\ o.n \in Nat \ {0} /\ ConstIndexed(Named(o.base), o.n) \in Variable
IsAt(o) ==
    /\ o.k = "at" /\ o = At(o.base, o.idx) /\ IsDirect(o.base) /\ IsDirect(o.idx)
    /\ Named(o.idx) \in Subscript /\ (o.idx.k \in {"EDGE", "GROUP"} => o.idx.n <= 157)
IsOperand(o) == IsDirect(o) \/ IsText(o) \/ IsConst(o) \/ IsAt(o)

\* A count of one byte; emit_var_instruction writes the mode bytes of more than
\* eight operands where the decoder does not look for them.
Room(ops) == Len(ops) <= 255 /\ (Len(ops) > 8 => ~ check_complex_mode(Bits(ops)))
\* The second attribute byte tells whether the text of a FORM( follows.
HasForm(imm) == (imm[2] \div 32) % 2 = 1

\* The statements on which the two sides agree: of each verb those with as many
\* operands as its opcode has in opcode_table.
Agreed(s) ==
    LET n == Len(s.ops)
        m == Len(s.imm)
    IN  /\ IsSequence(s.ops) /\ s.imm \in Seq(Byte)
        /\ \A i \in DOMAIN s.ops : IsOperand(s.ops[i])
        /\ \/ s.verb \in DOMAIN FixedVerb /\ n = FixedVerb[s.verb][2] /\ m = 0
           \/ s.verb \in DOMAIN PassVerb /\ n = FixedCount(PassVerb[s.verb]) /\ m = 0
           \/ s.verb \in DOMAIN VarVerb /\ Room(s.ops) /\ m = 0
           \/ /\ Handled(s) /\ n < Len(ByCount[s.verb]) /\ ByCount[s.verb][n + 1] # 0
              /\ n = FixedCount(ByCount[s.verb][n + 1]) /\ m = IF s.verb \in Jumps THEN 2 ELSE 0
           \/ s.verb = "MOVE" /\ n = 2 /\ m = 0
           \/ s.verb = "CLEAR" /\ (n = 1 \/ (n = 2 /\ ~ IsText(s.ops[2]))) /\ m = 0
           \/ s.verb = "SAVE" /\ (n = 2 \/ (n = 3 /\ ~ IsText(s.ops[3]))) /\ m = 0
           \/ s.verb = "SEND" /\ n \in {1, 2} /\ m = 3
           \/ s.verb = "CALL" /\ Room(s.ops) /\ m = 2
           \/ s.verb = "GOTO_DEPENDING_ON" /\ n = 1 /\ m % 2 = 0 /\ m \div 2 <= 255
           \/ /\ s.verb = "SET_ATTRIBUTE" /\ m = 4
              /\ \/ n = 1 /\ ~ HasForm(s.imm)
                 \/ n = 2 /\ IsText(s.ops[2]) /\ HasForm(s.imm)
           \/ s.verb = "MAKE_FORMAT" /\ n % 3 = 1 /\ n \div 3 <= 255 /\ m = 0
           \/ /\ s.verb = "DEFINE_FIELD" /\ n \in {5, 6} /\ m = 0
              /\ \A i \in 5 .. n : ~ needs_extended_encoding(s.ops[i])
AgreedPrograms == \A p \in Programs : \A i \in DOMAIN p : Agreed(p[i])

\* The decoder stays in step with the compiler: its i-th instruction starts
\* where the i-th statement was written, has the statement's opcode, shows its
\* operands and the counts and offsets between them, whatever statements come
\* before and after it.  (emit_instruction, read_operand, decode_program)
InStep ==
    \A i \in DOMAIN decoded :
        LET s == written[i][2]
            d == decoded[i][2]
        IN  /\ i \in DOMAIN written
            /\ decoded[i][1] = written[i][1]
            /\ d.op = MeantOpcode(s)
            /\ d.ops = ShownOperands(s)
            /\ s.imm # << >> => d.imm = s.imm
            /\ d.op \in {77, 81, 98} => d.imm = << SlotCount(s) >>

\* All of the program is found: the decoder ends with the last statement.
Complete == source = << >> /\ pos > Len(code) => Len(decoded) = Len(written)
=============================================================================
