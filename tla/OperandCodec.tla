---------------------------- MODULE OperandCodec ----------------------------
(***************************************************************************)
(* How one operand of a TBOL instruction is written by the compiler        *)
(* (compiler/codegen/codegen_operand.c) and read back by the bytecode      *)
(* library the decompiler and the disassembler share                       *)
(* (shared/bytecode/decode.c).                                             *)
(*                                                                         *)
(* A direct operand is a record [k, n]: a register, a slot of the RDA, a   *)
(* partition external variable &n, a global external variable #n, or a     *)
(* string literal (n is then the text, a sequence of bytes).  An indexed   *)
(* operand is [k |-> "at", n |-> 0, base |-> direct, idx |-> direct], or   *)
(* [k |-> "const", n |-> number, base |-> direct].  RDA_FIRST and RDA_LAST *)
(* are "EDGE", slots as the source calls them by their place.  An array is *)
(* a slot of the RDA with its size, a DATA group, which the symbol table   *)
(* keeps apart from the variables, a "GROUP" with its first slot and size. *)
(* Code is a sequence of bytes; positions are one-based.                   *)
(***************************************************************************)
EXTENDS Integers, Sequences

Byte == 0 .. 255

RegI(n) == [k |-> "I", n |-> n]
RegD(n) == [k |-> "D", n |-> n]
RegP(n) == [k |-> "P", n |-> n]
Rda(s)  == [k |-> "RDA", n |-> s]
Pev(n)  == [k |-> "PEV", n |-> n]
Gev(n)  == [k |-> "GEV", n |-> n]
Text(t) == [k |-> "STR", n |-> t]
At(b, i) == [k |-> "at", n |-> 0, base |-> b, idx |-> i]
Const(b, c) == [k |-> "const", n |-> c, base |-> b]
Edge(s) == [k |-> "EDGE", n |-> s]
ArrayOf(s, n) == [k |-> "RDA", n |-> s, size |-> n]
Group(s, n) == [k |-> "GROUP", n |-> s, size |-> n]

LastSlot == 221    \* the RDA has slots 0..221
LastPev == 256     \* &1..&256
LastGev == 32000   \* #1..#32000

Registers == {RegI(n) : n \in 1 .. 8} \cup {RegD(n) : n \in 1 .. 8}
                \cup {RegP(n) : n \in 0 .. 8}
Slots == {Rda(s) : s \in 0 .. LastSlot}
\* The variables a TBOL program can name.
Variable == Registers \cup Slots \cup {Pev(n) : n \in 1 .. LastPev}
                      \cup {Gev(n) : n \in 1 .. LastGev}
\* The subscripts the linear one-byte index encoding has room for.
Subscript == Registers \cup Slots
Subscripted == {At(b, i) : b \in Variable, i \in Subscript}

-----------------------------------------------------------------------------
(* The compiler's side.                                                    *)

RdaValue(s) == IF s <= 157 THEN 34 + s ELSE 256 + (s - 158)

\* compute_operand_value: the one- or two-byte value of a direct operand.
compute_operand_value(o) ==
    IF o.k = "I" THEN 8 + o.n
    ELSE IF o.k = "D" THEN 16 + o.n
    ELSE IF o.k = "P" THEN 25 + o.n
    ELSE IF o.k \in {"RDA", "EDGE", "GROUP"} THEN RdaValue(o.n)
    ELSE IF o.k = "PEV" THEN (IF o.n <= 64 THEN 191 + o.n ELSE 255 + o.n)
    ELSE IF o.k = "GEV" THEN 512 + o.n - 1
    ELSE 0

\* A constant subscript is resolved by the compiler: a register is replaced
\* (I3(2) is I2), a variable moves by the subscript less one.
ConstIndexed(base, c) ==
    IF base.k \in {"I", "D", "P"} THEN [base EXCEPT !.n = c]
                                  ELSE [base EXCEPT !.n = @ + c - 1]

\* The mode bit the instruction carries for this operand; none for a group,
\* which is no variable.
ExtendedConst(base, c) ==
    IF base.k = "PEV" THEN base.n + c - 1 > 64
    ELSE IF base.k \in {"RDA", "EDGE"} THEN base.n + c - 1 > 157
    ELSE base.k = "GEV"

needs_extended_encoding(o) ==
    IF o.k = "const" THEN ExtendedConst(o.base, o.n)
    ELSE o.k = "at" \/ (o.k # "STR" /\ compute_operand_value(o) > 255)

emit_word_be(v) == << (v \div 256) % 256, v % 256 >>

\* emit_rda_slot_operand, and the values of a constant subscript's operand:
\* of an element of a group nothing is written.
emit_rda_slot_operand(s) ==
    IF s > 157 THEN emit_word_be(256 + (s - 158)) ELSE << 34 + s >>

emit_const(base, c) ==
    IF base.k = "GROUP" THEN << >>
    ELSE IF base.k = "I" THEN << 8 + c >>
    ELSE IF base.k = "D" THEN << 16 + c >>
    ELSE IF base.k = "P" THEN << 25 + c >>
    ELSE IF base.k = "PEV"
         THEN (IF base.n + c - 1 <= 64 THEN << 191 + (base.n + c - 1) >>
                                       ELSE emit_word_be(255 + (base.n + c - 1)))
    ELSE IF base.k = "GEV" THEN emit_word_be(512 + (base.n + c - 1) - 1)
    ELSE emit_rda_slot_operand(base.n + c - 1)

\* A variable used as a subscript is written linearly, 34 + slot, in one
\* byte; any other subscript, a group too, is its operand value cut to one byte.
IndexByte(i) ==
    (IF i.k = "RDA" THEN 34 + i.n ELSE compute_operand_value(i)) % 256

\* emit_operand: the bytes of one operand.  base | 0x8000 sets a bit that
\* no direct operand's value has.
emit_operand(o) ==
    IF o.k = "STR" THEN << 0, Len(o.n) >> \o o.n
    ELSE IF o.k = "const" THEN emit_const(o.base, o.n)
    ELSE IF o.k = "at"
         THEN emit_word_be(compute_operand_value(o.base) + 32768) \o << IndexByte(o.idx) >>
    ELSE IF compute_operand_value(o) > 255 THEN emit_word_be(compute_operand_value(o))
    ELSE << compute_operand_value(o) >>

-----------------------------------------------------------------------------
(* The bytecode library's side.                                            *)

\* decode_operand_value for a two-byte and for a one-byte value.
Num(v) == [k |-> "NUM", n |-> v]    \* a value that names no variable

DecodeWord(v) ==
    IF 256 <= v /\ v <= 319 THEN Rda(158 + (v - 256))
    ELSE IF 320 <= v /\ v <= 511 THEN Pev(65 + (v - 320))
    ELSE IF 512 <= v /\ v <= 32511 THEN Gev(v - 512 + 1)
    ELSE Num(v)

DecodeByte(v) ==
    IF 9 <= v /\ v <= 16 THEN RegI(v - 8)
    ELSE IF 17 <= v /\ v <= 24 THEN RegD(v - 16)
    ELSE IF 25 <= v /\ v <= 33 THEN RegP(v - 25)
    ELSE IF 34 <= v /\ v <= 191 THEN Rda(v - 34)
    ELSE IF 192 <= v /\ v <= 255 THEN Pev(v - 192 + 1)
    ELSE Num(v)

\* The subscript byte uses its own, linear, numbering.
DecodeIndex(v) == IF v >= 34 THEN Rda(v - 34) ELSE DecodeByte(v)

DecodeBase(v) == IF v > 255 THEN DecodeWord(v) ELSE DecodeByte(v)

\* Running off the end of the code yields Nothing.
Nothing == Num(-1)

\* A string literal: a zero, a length and the text.
ReadText(code, pos) ==
    IF pos + 1 > Len(code) THEN [op |-> Nothing, next |-> pos + 1]
    ELSE IF pos + 1 + code[pos + 1] > Len(code) THEN [op |-> Nothing, next |-> pos + 2]
    ELSE [op |-> Text(SubSeq(code, pos + 2, pos + 1 + code[pos + 1])),
          next |-> pos + 2 + code[pos + 1]]

\* An operand whose mode bit is set: two bytes, and a subscript byte when
\* the top bit is on.
ReadExtended(code, pos) ==
    LET word == 256 * code[pos] + code[pos + 1]
    IN  IF pos + 1 > Len(code) THEN [op |-> Num(code[pos]), next |-> pos + 1]
        ELSE IF word < 32768 THEN [op |-> DecodeWord(word), next |-> pos + 2]
        ELSE IF pos + 2 > Len(code)
             THEN [op |-> DecodeWord(word - 32768), next |-> pos + 2]
        ELSE [op |-> At(DecodeBase(word - 32768), DecodeIndex(code[pos + 2])),
              next |-> pos + 3]

\* read_operand: the operand at pos, whose mode bit is ext, and the position
\* after it.
read_operand(code, pos, ext) ==
    IF pos > Len(code) THEN [op |-> Nothing, next |-> pos]
    ELSE IF code[pos] = 0 THEN ReadText(code, pos)
    ELSE IF ext THEN ReadExtended(code, pos)
    ELSE [op |-> DecodeByte(code[pos]), next |-> pos + 1]
=============================================================================
