------------------------- MODULE OperandCodecProofs -------------------------
(***************************************************************************)
(* What the compiler writes for an operand the bytecode library reads      *)
(* back, at any place of any program: proofs about OperandCodec.           *)
(***************************************************************************)
EXTENDS OperandCodec, TLAPS

\* The value of a variable tells how long its encoding is and decodes to it.
Readable(o) ==
    /\ compute_operand_value(o) \in Nat
    /\ 9 <= compute_operand_value(o)
    /\ compute_operand_value(o) <= 32511
    /\ o.k # "STR"
    /\ o.k # "at"
    /\ o.k # "const"
    /\ compute_operand_value(o) <= 255 => DecodeByte(compute_operand_value(o)) = o
    /\ compute_operand_value(o) > 255 => DecodeWord(compute_operand_value(o)) = o

\* Splitting a 16-bit value in two bytes loses nothing (emit_word_be against
\* the (b << 8) | b2 of read_operand).
LEMMA WordSplit ==
    ASSUME NEW v \in Nat, v <= 65535
    PROVE  /\ emit_word_be(v) = << v \div 256, v % 256 >>
           /\ v \div 256 \in Byte
           /\ v % 256 \in Byte
           /\ 256 * (v \div 256) + (v % 256) = v
<1>1. v % 256 \in Byte
  BY DEF Byte
<1>2. v \div 256 \in Byte
  BY DEF Byte
<1>3. 256 * (v \div 256) + (v % 256) = v
  OBVIOUS
<1>4. \A w \in Byte : w % 256 = w
  BY DEF Byte
<1> QED
  BY <1>1, <1>2, <1>3, <1>4 DEF emit_word_be

LEMMA DirectValue ==
    ASSUME NEW o \in Variable
    PROVE  Readable(o)
<1>1. CASE o \in {RegI(n) : n \in 1 .. 8}
  <2>1. PICK n \in 1 .. 8 : o = RegI(n)
    BY <1>1
  <2>2. compute_operand_value(o) = 8 + n
    BY <2>1 DEF RegI, compute_operand_value
  <2>3. DecodeByte(8 + n) = RegI(n)
    BY DEF DecodeByte
  <2>4. o.k # "STR" /\ o.k # "at" /\ o.k # "const"
    BY <2>1 DEF RegI
  <2> QED
    BY <2>1, <2>2, <2>3, <2>4 DEF Readable
<1>2. CASE o \in {RegD(n) : n \in 1 .. 8}
  <2>1. PICK n \in 1 .. 8 : o = RegD(n)
    BY <1>2
  <2>2. compute_operand_value(o) = 16 + n
    BY <2>1 DEF RegD, compute_operand_value
  <2>3. DecodeByte(16 + n) = RegD(n)
    BY DEF DecodeByte
  <2>4. o.k # "STR" /\ o.k # "at" /\ o.k # "const"
    BY <2>1 DEF RegD
  <2> QED
    BY <2>1, <2>2, <2>3, <2>4 DEF Readable
<1>3. CASE o \in {RegP(n) : n \in 0 .. 8}
  <2>1. PICK n \in 0 .. 8 : o = RegP(n)
    BY <1>3
  <2>2. compute_operand_value(o) = 25 + n
    BY <2>1 DEF RegP, compute_operand_value
  <2>3. DecodeByte(25 + n) = RegP(n)
    BY DEF DecodeByte
  <2>4. o.k # "STR" /\ o.k # "at" /\ o.k # "const"
    BY <2>1 DEF RegP
  <2> QED
    BY <2>1, <2>2, <2>3, <2>4 DEF Readable
<1>4. CASE o \in Slots
  <2>1. PICK n \in 0 .. 221 : o = Rda(n)
    BY <1>4 DEF Slots, LastSlot
  <2>2. o.k # "STR" /\ o.k # "at" /\ o.k # "const"
    BY <2>1 DEF Rda
  <2>3. CASE n <= 157
    <3>1. compute_operand_value(o) = 34 + n
      BY <2>1, <2>3 DEF Rda, compute_operand_value, RdaValue
    <3>2. DecodeByte(34 + n) = Rda(n)
      BY <2>3 DEF DecodeByte
    <3> QED
      BY <2>1, <2>2, <2>3, <3>1, <3>2 DEF Readable
  <2>4. CASE n > 157
    <3>1. compute_operand_value(o) = 98 + n
      BY <2>1, <2>4 DEF Rda, compute_operand_value, RdaValue
    <3>2. DecodeWord(98 + n) = Rda(n)
      BY <2>4 DEF DecodeWord
    <3> QED
      BY <2>1, <2>2, <2>4, <3>1, <3>2 DEF Readable
  <2> QED
    BY <2>3, <2>4
<1>5. CASE o \in {Pev(n) : n \in 1 .. LastPev}
  <2>1. PICK n \in 1 .. 256 : o = Pev(n)
    BY <1>5 DEF LastPev
  <2>2. o.k # "STR" /\ o.k # "at" /\ o.k # "const"
    BY <2>1 DEF Pev
  <2>3. CASE n <= 64
    <3>1. compute_operand_value(o) = 191 + n
      BY <2>1, <2>3 DEF Pev, compute_operand_value
    <3>2. DecodeByte(191 + n) = Pev(n)
      BY <2>3 DEF DecodeByte
    <3> QED
      BY <2>1, <2>2, <2>3, <3>1, <3>2 DEF Readable
  <2>4. CASE n > 64
    <3>1. compute_operand_value(o) = 255 + n
      BY <2>1, <2>4 DEF Pev, compute_operand_value
    <3>2. DecodeWord(255 + n) = Pev(n)
      BY <2>4 DEF DecodeWord
    <3> QED
      BY <2>1, <2>2, <2>4, <3>1, <3>2 DEF Readable
  <2> QED
    BY <2>3, <2>4
<1>6. CASE o \in {Gev(n) : n \in 1 .. LastGev}
  <2>0. PICK n \in 1 .. LastGev : o = Gev(n)
    BY <1>6, Zenon
  <2>1. n \in 1 .. 32000 /\ o = Gev(n)
    BY <2>0 DEF LastGev
  <2>2. compute_operand_value(o) = 511 + n
    BY <2>1 DEF Gev, compute_operand_value
  <2>3. DecodeWord(511 + n) = Gev(n)
    BY <2>1 DEF DecodeWord
  <2>4. o.k # "STR" /\ o.k # "at" /\ o.k # "const"
    BY <2>1 DEF Gev
  <2>5. 511 + n \in Nat /\ 256 <= 511 + n /\ 511 + n <= 32511
    BY <2>1
  <2> QED
    BY <2>1, <2>2, <2>3, <2>4, <2>5 DEF Readable
<1>7. \/ o \in {RegI(n) : n \in 1 .. 8}
      \/ o \in {RegD(n) : n \in 1 .. 8}
      \/ o \in {RegP(n) : n \in 0 .. 8}
      \/ o \in Slots
      \/ o \in {Pev(n) : n \in 1 .. LastPev}
      \/ o \in {Gev(n) : n \in 1 .. LastGev}
  BY DEF Variable, Registers
<1> QED
  BY <1>1, <1>2, <1>3, <1>4, <1>5, <1>6, <1>7

\* The linear byte of a subscript decodes to it: no slot of the RDA shares a
\* byte with a register or with another slot.
LEMMA IndexValue ==
    ASSUME NEW i \in Subscript
    PROVE  /\ IndexByte(i) \in 9 .. 255
           /\ DecodeIndex(IndexByte(i)) = i
<1>0. \A w \in 9 .. 255 : w % 256 = w
  OBVIOUS
<1>1. CASE i \in {RegI(n) : n \in 1 .. 8}
  <2>1. PICK n \in 1 .. 8 : i = RegI(n)
    BY <1>1
  <2>2. IndexByte(i) = 8 + n
    BY <1>0, <2>1 DEF RegI, IndexByte, compute_operand_value
  <2> QED
    BY <2>1, <2>2 DEF RegI, DecodeIndex, DecodeByte
<1>2. CASE i \in {RegD(n) : n \in 1 .. 8}
  <2>1. PICK n \in 1 .. 8 : i = RegD(n)
    BY <1>2
  <2>2. IndexByte(i) = 16 + n
    BY <1>0, <2>1 DEF RegD, IndexByte, compute_operand_value
  <2> QED
    BY <2>1, <2>2 DEF RegD, DecodeIndex, DecodeByte
<1>3. CASE i \in {RegP(n) : n \in 0 .. 8}
  <2>1. PICK n \in 0 .. 8 : i = RegP(n)
    BY <1>3
  <2>2. IndexByte(i) = 25 + n
    BY <1>0, <2>1 DEF RegP, IndexByte, compute_operand_value
  <2> QED
    BY <2>1, <2>2 DEF RegP, DecodeIndex, DecodeByte
<1>4. CASE i \in Slots
  <2>1. PICK s \in 0 .. 221 : i = Rda(s)
    BY <1>4 DEF Slots, LastSlot
  <2>2. IndexByte(i) = 34 + s
    BY <1>0, <2>1 DEF Rda, IndexByte
  <2> QED
    BY <2>1, <2>2 DEF Rda, DecodeIndex
<1>5. \/ i \in {RegI(n) : n \in 1 .. 8}
      \/ i \in {RegD(n) : n \in 1 .. 8}
      \/ i \in {RegP(n) : n \in 0 .. 8}
      \/ i \in Slots
  BY DEF Subscript, Registers
<1> QED
  BY <1>1, <1>2, <1>3, <1>4, <1>5

\* The two forms of a variable's encoding, by the size of its value.
LEMMA EmitShort ==
    ASSUME NEW o, o.k # "STR", o.k # "at", o.k # "const", ~(compute_operand_value(o) > 255)
    PROVE  /\ emit_operand(o) = << compute_operand_value(o) >>
           /\ ~needs_extended_encoding(o)
<1>1. emit_operand(o) = << compute_operand_value(o) >>
  BY DEF emit_operand
<1>2. ~needs_extended_encoding(o)
  BY DEF needs_extended_encoding
<1> QED
  BY <1>1, <1>2

LEMMA EmitLong ==
    ASSUME NEW o, o.k # "STR", o.k # "at", o.k # "const", compute_operand_value(o) > 255
    PROVE  /\ emit_operand(o) = emit_word_be(compute_operand_value(o))
           /\ needs_extended_encoding(o)
<1>1. emit_operand(o) = emit_word_be(compute_operand_value(o))
  BY DEF emit_operand
<1>2. needs_extended_encoding(o)
  BY DEF needs_extended_encoding
<1> QED
  BY <1>1, <1>2

LEMMA EmitIndexed ==
    ASSUME NEW b, NEW i
    PROVE  /\ emit_operand(At(b, i))
                = emit_word_be(compute_operand_value(b) + 32768) \o << IndexByte(i) >>
           /\ needs_extended_encoding(At(b, i))
<1>1. At(b, i).k = "at" /\ At(b, i).base = b /\ At(b, i).idx = i
  BY DEF At
<1>2. At(b, i).k # "STR" /\ At(b, i).k # "const"
  BY <1>1
<1>3. needs_extended_encoding(At(b, i))
  BY <1>1, <1>2 DEF needs_extended_encoding
<1>4. emit_operand(At(b, i))
        = emit_word_be(compute_operand_value(At(b, i).base) + 32768)
              \o << IndexByte(At(b, i).idx) >>
  BY <1>1, <1>2 DEF emit_operand
<1> QED
  BY <1>1, <1>3, <1>4

\* What read_operand makes of a byte, of a word, and of a word with its top
\* bit on followed by a byte.
LEMMA ReadShort ==
    ASSUME NEW code, NEW pos, ~(pos > Len(code)), code[pos] # 0
    PROVE  read_operand(code, pos, FALSE)
             = [op |-> DecodeByte(code[pos]), next |-> pos + 1]
  BY DEF read_operand

LEMMA ReadLong ==
    ASSUME NEW code, NEW pos, ~(pos > Len(code)), code[pos] # 0
    PROVE  read_operand(code, pos, TRUE) = ReadExtended(code, pos)
  BY DEF read_operand

LEMMA ReadWord ==
    ASSUME NEW code, NEW pos, NEW v,
           ~(pos + 1 > Len(code)),
           256 * code[pos] + code[pos + 1] = v,
           v < 32768
    PROVE  ReadExtended(code, pos) = [op |-> DecodeWord(v), next |-> pos + 2]
  BY DEF ReadExtended

LEMMA ReadIndexed ==
    ASSUME NEW code, NEW pos, NEW w,
           ~(pos + 1 > Len(code)), ~(pos + 2 > Len(code)),
           256 * code[pos] + code[pos + 1] = w,
           ~(w < 32768)
    PROVE  ReadExtended(code, pos)
             = [op |-> At(DecodeBase(w - 32768), DecodeIndex(code[pos + 2])),
                next |-> pos + 3]
  BY DEF ReadExtended

\* The facts of Readable that the theorems use, one at a time.
LEMMA ValueRange ==
    ASSUME NEW o \in Variable
    PROVE  /\ compute_operand_value(o) \in Nat
           /\ 9 <= compute_operand_value(o)
           /\ compute_operand_value(o) <= 32511
           /\ o.k # "STR"
           /\ o.k # "at"
           /\ o.k # "const"
  BY DirectValue DEF Readable

LEMMA BaseValue ==
    ASSUME NEW o \in Variable
    PROVE  DecodeBase(compute_operand_value(o)) = o
<1>1. ~(compute_operand_value(o) > 255) => compute_operand_value(o) <= 255
  BY ValueRange
<1>2. CASE compute_operand_value(o) > 255
  <2>1. DecodeWord(compute_operand_value(o)) = o
    BY <1>2, DirectValue DEF Readable
  <2> QED
    BY <1>2, <2>1 DEF DecodeBase
<1>3. CASE ~(compute_operand_value(o) > 255)
  <2>1. DecodeByte(compute_operand_value(o)) = o
    BY <1>1, <1>3, DirectValue DEF Readable
  <2> QED
    BY <1>3, <2>1 DEF DecodeBase
<1> QED
  BY <1>2, <1>3

\* code holds the bytes s from pos on.
Holds(code, pos, s) ==
    /\ pos + Len(s) - 1 <= Len(code)
    /\ \A j \in 1 .. Len(s) : code[pos + j - 1] = s[j]

\* A variable, written by emit_operand anywhere in the code, is what
\* read_operand finds there when it is given the mode bit the compiler set,
\* and the reader stops where the writer did.
THEOREM DirectRoundTrip ==
    ASSUME NEW o \in Variable,
           NEW code \in Seq(Byte),
           NEW pos \in Nat \ {0},
           Holds(code, pos, emit_operand(o))
    PROVE  read_operand(code, pos, needs_extended_encoding(o))
             = [op |-> o, next |-> pos + Len(emit_operand(o))]
<1>1. PICK v : v = compute_operand_value(o)
  OBVIOUS
<1>2. v \in Nat /\ 9 <= v /\ v <= 32511 /\ o.k # "STR" /\ o.k # "at" /\ o.k # "const"
  BY <1>1, ValueRange
<1>3. DecodeBase(v) = o
  BY <1>1, BaseValue
<1>4. CASE ~(v > 255)
  <2>1. emit_operand(o) = << v >> /\ ~needs_extended_encoding(o)
    BY <1>1, <1>2, <1>4, EmitShort
  <2>2. Len(emit_operand(o)) = 1 /\ emit_operand(o)[1] = v
    BY <2>1
  <2>3. code[pos] = v /\ pos <= Len(code)
    BY <2>2 DEF Holds
  <2>4. ~(pos > Len(code)) /\ code[pos] # 0
    BY <1>2, <2>3
  <2>5. read_operand(code, pos, FALSE) = [op |-> DecodeByte(v), next |-> pos + 1]
    BY <2>3, <2>4, ReadShort
  <2>6. DecodeByte(v) = o
    BY <1>3, <1>4 DEF DecodeBase
  <2>7. needs_extended_encoding(o) = FALSE
    BY <2>1 DEF needs_extended_encoding
  <2> QED
    BY <2>2, <2>5, <2>6, <2>7
<1>5. CASE v > 255
  <2>1. emit_operand(o) = emit_word_be(v) /\ needs_extended_encoding(o)
    BY <1>1, <1>2, <1>5, EmitLong
  <2>2. PICK hi, lo : hi = v \div 256 /\ lo = v % 256
    OBVIOUS
  <2>3. /\ emit_word_be(v) = << hi, lo >>
        /\ hi \in Byte
        /\ lo \in Byte
        /\ 256 * hi + lo = v
    BY <1>2, <2>2, WordSplit
  <2>4. Len(emit_operand(o)) = 2 /\ emit_operand(o)[1] = hi /\ emit_operand(o)[2] = lo
    BY <2>1, <2>3
  <2>5. code[pos] = hi /\ code[pos + 1] = lo /\ pos + 1 <= Len(code)
    BY <2>4 DEF Holds
  <2>6. hi # 0
    BY <1>2, <1>5, <2>3 DEF Byte
  <2>7. ~(pos > Len(code)) /\ ~(pos + 1 > Len(code))
    BY <2>5
  <2>8. 256 * code[pos] + code[pos + 1] = v /\ v < 32768
    BY <1>2, <2>3, <2>5
  <2>9. ReadExtended(code, pos) = [op |-> DecodeWord(v), next |-> pos + 2]
    BY <2>7, <2>8, ReadWord
  <2>10. read_operand(code, pos, TRUE) = ReadExtended(code, pos)
    BY <2>5, <2>6, <2>7, ReadLong
  <2>11. DecodeWord(v) = o
    BY <1>3, <1>5 DEF DecodeBase
  <2>12. needs_extended_encoding(o) = TRUE
    BY <2>1 DEF needs_extended_encoding
  <2> QED
    BY <2>4, <2>9, <2>10, <2>11, <2>12
<1> QED
  BY <1>4, <1>5

\* An element of an array, X(Y) with a variable Y, reads back the same way:
\* neither the array's own encoding nor its subscript's can be taken for
\* another operand's.
THEOREM IndexedRoundTrip ==
    ASSUME NEW b \in Variable, NEW i \in Subscript,
           NEW code \in Seq(Byte),
           NEW pos \in Nat \ {0},
           Holds(code, pos, emit_operand(At(b, i)))
    PROVE  read_operand(code, pos, needs_extended_encoding(At(b, i)))
             = [op |-> At(b, i), next |-> pos + Len(emit_operand(At(b, i)))]
<1>1. PICK v, w, x, e : /\ v = compute_operand_value(b)
                        /\ w = v + 32768
                        /\ x = IndexByte(i)
                        /\ e = emit_operand(At(b, i))
  OBVIOUS
<1>2. v \in Nat /\ 9 <= v /\ v <= 32511
  BY <1>1, ValueRange
<1>3. DecodeBase(v) = b
  BY <1>1, BaseValue
<1>4. x \in 9 .. 255 /\ DecodeIndex(x) = i
  BY <1>1, IndexValue
<1>5. e = emit_word_be(w) \o << x >> /\ needs_extended_encoding(At(b, i))
  BY <1>1, EmitIndexed
<1>6. w \in Nat /\ 32768 <= w /\ w <= 65535
  BY <1>1, <1>2
<1>7. w - 32768 = v
  BY <1>1, <1>2
<1>8. PICK hi, lo : hi = w \div 256 /\ lo = w % 256
  OBVIOUS
<1>9. /\ emit_word_be(w) = << hi, lo >>
      /\ hi \in Byte
      /\ lo \in Byte
      /\ 256 * hi + lo = w
  BY <1>6, <1>8, WordSplit
<1>10. e = << hi, lo >> \o << x >>
  BY <1>5, <1>9
<1>11. Len(e) = 3 /\ e[1] = hi /\ e[2] = lo /\ e[3] = x
  BY <1>4, <1>9, <1>10 DEF Byte
<1>12. code[pos] = hi /\ code[pos + 1] = lo /\ code[pos + 2] = x /\ pos + 2 <= Len(code)
  BY <1>1, <1>11 DEF Holds
<1>13. hi # 0
  BY <1>6, <1>9 DEF Byte
<1>14. ~(pos > Len(code)) /\ ~(pos + 1 > Len(code)) /\ ~(pos + 2 > Len(code))
  BY <1>12
<1>15. 256 * code[pos] + code[pos + 1] = w /\ ~(w < 32768)
  BY <1>6, <1>9, <1>12
<1>16. ReadExtended(code, pos) = [op |-> At(b, i), next |-> pos + 3]
  BY <1>3, <1>4, <1>7, <1>12, <1>14, <1>15, ReadIndexed, SMTT(30)
<1>17. read_operand(code, pos, TRUE) = ReadExtended(code, pos)
  BY <1>12, <1>13, <1>14, ReadLong
<1>18. needs_extended_encoding(At(b, i)) = TRUE
  BY <1>5 DEF needs_extended_encoding
<1>19. Len(emit_operand(At(b, i))) = 3
  BY <1>1, <1>11
<1> QED
  BY <1>16, <1>17, <1>18, <1>19

\* A variable is of one of six kinds, its number in the range of the kind.
LEMMA Kinds ==
    ASSUME NEW o \in Variable
    PROVE  \/ \E n \in 1 .. 8 : o = RegI(n)
           \/ \E n \in 1 .. 8 : o = RegD(n)
           \/ \E n \in 0 .. 8 : o = RegP(n)
           \/ \E n \in 0 .. 221 : o = Rda(n)
           \/ \E n \in 1 .. 256 : o = Pev(n)
           \/ \E n \in 1 .. LastGev : o = Gev(n)
  BY DEF Variable, Registers, Slots, LastSlot, LastPev

LEMMA EmitConst ==
    ASSUME NEW b, NEW c
    PROVE  /\ emit_operand(Const(b, c)) = emit_const(b, c)
           /\ needs_extended_encoding(Const(b, c)) = ExtendedConst(b, c)
<1>1. Const(b, c).k = "const" /\ Const(b, c).base = b /\ Const(b, c).n = c
  BY DEF Const
<1>2. emit_operand(Const(b, c)) = emit_const(b, c)
  BY <1>1 DEF emit_operand
<1>3. needs_extended_encoding(Const(b, c)) = ExtendedConst(b, c)
  BY <1>1 DEF needs_extended_encoding
<1> QED
  BY <1>2, <1>3

LEMMA RegisterNumber ==
    ASSUME NEW o \in Variable, o.k \in {"I", "D", "P"}
    PROVE  o.n <= 8
<1>1. CASE \E n \in 1 .. 8 : o = RegI(n)
  BY <1>1 DEF RegI
<1>2. CASE \E n \in 1 .. 8 : o = RegD(n)
  BY <1>2 DEF RegD
<1>3. CASE \E n \in 0 .. 8 : o = RegP(n)
  BY <1>3 DEF RegP
<1>4. CASE \E n \in 0 .. 221 : o = Rda(n)
  BY <1>4 DEF Rda
<1>5. CASE \E n \in 1 .. 256 : o = Pev(n)
  BY <1>5 DEF Pev
<1>6. CASE \E n \in 1 .. LastGev : o = Gev(n)
  BY <1>6 DEF Gev
<1> QED
  BY <1>1, <1>2, <1>3, <1>4, <1>5, <1>6, Kinds

\* The constant subscript c of b is written as the variable o is.
WrittenAs(b, c, o) ==
    /\ emit_const(b, c) = emit_operand(o)
    /\ ExtendedConst(b, c) = needs_extended_encoding(o)

LEMMA SameShort ==
    ASSUME NEW b, NEW c, NEW o \in Variable,
           ~ (compute_operand_value(o) > 255),
           emit_const(b, c) = << compute_operand_value(o) >>,
           ExtendedConst(b, c) = FALSE
    PROVE  WrittenAs(b, c, o)
<1>1. emit_operand(o) = << compute_operand_value(o) >> /\ ~ needs_extended_encoding(o)
  BY ValueRange, EmitShort
<1>2. needs_extended_encoding(o) = FALSE
  BY <1>1, ValueRange DEF needs_extended_encoding
<1> QED
  BY <1>1, <1>2 DEF WrittenAs

LEMMA SameLong ==
    ASSUME NEW b, NEW c, NEW o \in Variable,
           compute_operand_value(o) > 255,
           emit_const(b, c) = emit_word_be(compute_operand_value(o)),
           ExtendedConst(b, c) = TRUE
    PROVE  WrittenAs(b, c, o)
<1>1. emit_operand(o) = emit_word_be(compute_operand_value(o)) /\ needs_extended_encoding(o)
  BY ValueRange, EmitLong
<1>2. needs_extended_encoding(o) = TRUE
  BY <1>1, ValueRange DEF needs_extended_encoding
<1> QED
  BY <1>1, <1>2 DEF WrittenAs

\* A constant subscript is written as the very variable it selects: its own
\* computation of the operand (emit_operand) and of the mode bit
\* (needs_extended_encoding) agree with the general ones, so that the two
\* cannot drift apart and leave the operand a byte short.
LEMMA ConstSame ==
    ASSUME NEW b \in Variable, NEW c \in Nat \ {0}, ConstIndexed(b, c) \in Variable
    PROVE  WrittenAs(b, c, ConstIndexed(b, c))
<1>1. PICK o : o = ConstIndexed(b, c)
  OBVIOUS
<1>2. o \in Variable
  BY <1>1
<1>3. ASSUME NEW n \in 1 .. 8, b = RegI(n)
      PROVE  WrittenAs(b, c, o)
  <2>1. o = RegI(c)
    BY <1>1, <1>3 DEF ConstIndexed, RegI
  <2>2. c <= 8
    BY <1>2, <2>1, RegisterNumber DEF RegI
  <2>3. emit_const(b, c) = << 8 + c >>
    BY <1>3 DEF RegI, emit_const
  <2>4. ExtendedConst(b, c) = FALSE
    BY <1>3 DEF RegI, ExtendedConst
  <2>5. compute_operand_value(o) = 8 + c /\ ~ (8 + c > 255)
    BY <2>1, <2>2 DEF RegI, compute_operand_value
  <2> QED
    BY <1>2, <2>3, <2>4, <2>5, SameShort
<1>4. ASSUME NEW n \in 1 .. 8, b = RegD(n)
      PROVE  WrittenAs(b, c, o)
  <2>1. o = RegD(c)
    BY <1>1, <1>4 DEF ConstIndexed, RegD
  <2>2. c <= 8
    BY <1>2, <2>1, RegisterNumber DEF RegD
  <2>3. emit_const(b, c) = << 16 + c >>
    BY <1>4 DEF RegD, emit_const
  <2>4. ExtendedConst(b, c) = FALSE
    BY <1>4 DEF RegD, ExtendedConst
  <2>5. compute_operand_value(o) = 16 + c /\ ~ (16 + c > 255)
    BY <2>1, <2>2 DEF RegD, compute_operand_value
  <2> QED
    BY <1>2, <2>3, <2>4, <2>5, SameShort
<1>5. ASSUME NEW n \in 0 .. 8, b = RegP(n)
      PROVE  WrittenAs(b, c, o)
  <2>1. o = RegP(c)
    BY <1>1, <1>5 DEF ConstIndexed, RegP
  <2>2. c <= 8
    BY <1>2, <2>1, RegisterNumber DEF RegP
  <2>3. emit_const(b, c) = << 25 + c >>
    BY <1>5 DEF RegP, emit_const
  <2>4. ExtendedConst(b, c) = FALSE
    BY <1>5 DEF RegP, ExtendedConst
  <2>5. compute_operand_value(o) = 25 + c /\ ~ (25 + c > 255)
    BY <2>1, <2>2 DEF RegP, compute_operand_value
  <2> QED
    BY <1>2, <2>3, <2>4, <2>5, SameShort
<1>6. ASSUME NEW n \in 0 .. 221, b = Rda(n)
      PROVE  WrittenAs(b, c, o)
  <2>1. PICK m : m = n + c - 1
    OBVIOUS
  <2>2. o = Rda(m)
    BY <1>1, <1>6, <2>1 DEF ConstIndexed, Rda
  <2>3. m \in Int
    BY <2>1
  <2>4. emit_const(b, c) = emit_rda_slot_operand(m)
    BY <1>6, <2>1 DEF Rda, emit_const
  <2>5. compute_operand_value(o) = RdaValue(m)
    BY <2>2 DEF Rda, compute_operand_value
  <2>6. CASE m > 157
    <3>1. RdaValue(m) = 256 + (m - 158) /\ 256 + (m - 158) > 255
      BY <2>3, <2>6 DEF RdaValue
    <3>2. emit_rda_slot_operand(m) = emit_word_be(256 + (m - 158))
      BY <2>6 DEF emit_rda_slot_operand
    <3>3. ExtendedConst(b, c) = TRUE
      BY <1>6, <2>1, <2>6 DEF Rda, ExtendedConst
    <3> QED
      BY <1>2, <2>4, <2>5, <3>1, <3>2, <3>3, SameLong
  <2>7. CASE ~ (m > 157)
    <3>1. RdaValue(m) = 34 + m /\ ~ (34 + m > 255)
      BY <2>3, <2>7 DEF RdaValue
    <3>2. emit_rda_slot_operand(m) = << 34 + m >>
      BY <2>7 DEF emit_rda_slot_operand
    <3>3. ExtendedConst(b, c) = FALSE
      BY <1>6, <2>1, <2>7 DEF Rda, ExtendedConst
    <3> QED
      BY <1>2, <2>4, <2>5, <3>1, <3>2, <3>3, SameShort
  <2> QED
    BY <2>6, <2>7
<1>7. ASSUME NEW n \in 1 .. 256, b = Pev(n)
      PROVE  WrittenAs(b, c, o)
  <2>1. PICK m : m = n + c - 1
    OBVIOUS
  <2>2. o = Pev(m)
    BY <1>1, <1>7, <2>1 DEF ConstIndexed, Pev
  <2>3. m \in Int
    BY <2>1
  <2>4. CASE m > 64
    <3>1. compute_operand_value(o) = 255 + m /\ 255 + m > 255
      BY <2>2, <2>3, <2>4 DEF Pev, compute_operand_value
    <3>2. emit_const(b, c) = emit_word_be(255 + m)
      BY <1>7, <2>1, <2>3, <2>4 DEF Pev, emit_const
    <3>3. ExtendedConst(b, c) = TRUE
      BY <1>7, <2>1, <2>4 DEF Pev, ExtendedConst
    <3> QED
      BY <1>2, <3>1, <3>2, <3>3, SameLong
  <2>5. CASE ~ (m > 64)
    <3>1. compute_operand_value(o) = 191 + m /\ ~ (191 + m > 255)
      BY <2>2, <2>3, <2>5 DEF Pev, compute_operand_value
    <3>2. emit_const(b, c) = << 191 + m >>
      BY <1>7, <2>1, <2>3, <2>5 DEF Pev, emit_const
    <3>3. ExtendedConst(b, c) = FALSE
      BY <1>7, <2>1, <2>5 DEF Pev, ExtendedConst
    <3> QED
      BY <1>2, <3>1, <3>2, <3>3, SameShort
  <2> QED
    BY <2>4, <2>5
<1>8. CASE \E n \in 1 .. LastGev : b = Gev(n)
  <2>0. \A n \in 1 .. LastGev : n \in Nat /\ n >= 1
    BY DEF LastGev
  <2>1. PICK n \in Nat : b = Gev(n) /\ n >= 1
    BY <1>8, <2>0
  <2>2. PICK m : m = n + c - 1
    OBVIOUS
  <2>3. o = Gev(m)
    BY <1>1, <2>1, <2>2 DEF ConstIndexed, Gev
  <2>4. ExtendedConst(b, c) = TRUE
    BY <2>1 DEF Gev, ExtendedConst
  <2>5. compute_operand_value(o) = 512 + m - 1
    BY <2>3 DEF Gev, compute_operand_value
  <2>6. 512 + m - 1 > 255
    BY <2>1, <2>2
  <2>7. emit_const(b, c) = emit_word_be(512 + m - 1)
    BY <2>1, <2>2 DEF Gev, emit_const
  <2>8. WrittenAs(b, c, o)
    BY <1>2, <2>4, <2>5, <2>6, <2>7, SameLong
  <2> QED
    BY <1>1, <2>8
<1> QED
  BY <1>1, <1>3, <1>4, <1>5, <1>6, <1>7, <1>8, Kinds

\* An array element with a constant subscript, X(3) or &60(9), is read back
\* as the variable the subscript selects, with the reader where the writer
\* stopped, on either side of the boundary between the short and the long
\* form (emit_operand and needs_extended_encoding for AST_INDEXED).
THEOREM ConstantRoundTrip ==
    ASSUME NEW b \in Variable, NEW c \in Nat \ {0}, ConstIndexed(b, c) \in Variable,
           NEW code \in Seq(Byte),
           NEW pos \in Nat \ {0},
           Holds(code, pos, emit_operand(Const(b, c)))
    PROVE  read_operand(code, pos, needs_extended_encoding(Const(b, c)))
             = [op |-> ConstIndexed(b, c), next |-> pos + Len(emit_operand(Const(b, c)))]
<1>1. /\ emit_operand(Const(b, c)) = emit_operand(ConstIndexed(b, c))
      /\ needs_extended_encoding(Const(b, c)) = needs_extended_encoding(ConstIndexed(b, c))
  BY ConstSame, EmitConst DEF WrittenAs
<1> QED
  BY <1>1, DirectRoundTrip
=============================================================================
