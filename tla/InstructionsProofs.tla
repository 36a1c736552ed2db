------------------------- MODULE InstructionsProofs -------------------------
(***************************************************************************)
(* That the decoder stays in step with the compiler, for any statements on *)
(* which the two agree: proofs about Instructions.                         *)
(***************************************************************************)
EXTENDS Instructions, OperandCodecProofs, SequenceTheorems, WellFoundedInduction

(***************************************************************************)
(* Induction, and functions defined by recursion.                          *)
(***************************************************************************)
LEMMA Induction ==
    ASSUME NEW T, 0 \in T, \A n \in Nat : n \in T => n + 1 \in T
    PROVE  \A n \in Nat : n \in T
<1> SUFFICES ASSUME NEW n \in Nat, n \notin T PROVE FALSE
  OBVIOUS
<1> DEFINE B == {m \in Nat : m \notin T}
<1>1. PICK m \in B : \A k \in B : ~ (<< k, m >> \in OpToRel(<, Nat))
  <2>1. B \subseteq Nat /\ B # {}
    OBVIOUS
  <2> HIDE DEF B
  <2> QED
    BY <2>1, NatLessThanWellFounded, WFMin
<1>2. \A k \in B : ~ (k < m)
  BY <1>1 DEF OpToRel
<1>3. m # 0 /\ m - 1 \in Nat /\ m - 1 < m /\ (m - 1) + 1 = m
  OBVIOUS
<1>4. m - 1 \in T
  BY <1>2, <1>3
<1> QED
  BY <1>3, <1>4

\* What holds at first and is kept by each step up to N.
LEMMA Stepwise ==
    ASSUME NEW N \in Nat, NEW T, 0 \in T, \A n \in 1 .. N : n - 1 \in T => n \in T
    PROVE  \A n \in 0 .. N : n \in T
<1> DEFINE U == {n \in Nat : n <= N => n \in T}
<1>1. 0 \in U
  OBVIOUS
<1>2. ASSUME NEW n \in Nat, n \in U PROVE n + 1 \in U
  <2> SUFFICES ASSUME n + 1 <= N PROVE n + 1 \in T
    OBVIOUS
  <2>1. n + 1 \in 1 .. N /\ (n + 1) - 1 = n /\ n \in T
    BY <1>2
  <2> QED
    BY <2>1
<1>3. \A n \in Nat : n \in U
  <2> HIDE DEF U
  <2> QED
    BY <1>1, <1>2, Induction
<1> QED
  BY <1>3

\* There is a sequence of values in S that starts with x and goes on as f says.
Steps(h, S, x, N, f) == h \in [0 .. N -> S] /\ h[0] = x /\ \A n \in 1 .. N : h[n] = f[n][h[n - 1]]
Within(f, S, N) == \A n \in 1 .. N : f[n] \in [S -> S]

LEMMA Recursion ==
    ASSUME NEW S, NEW x, x \in S, NEW N, N \in Nat, NEW f, Within(f, S, N)
    PROVE  \E h : Steps(h, S, x, N, f)
<1> DEFINE T == {n \in Nat : \E h : Steps(h, S, x, n, f)}
<1>1. 0 \in T
  <2>1. Steps([i \in 0 .. 0 |-> x], S, x, 0, f)
    BY DEF Steps
  <2> QED
    BY <2>1
<1>2. ASSUME NEW n \in 1 .. N, n - 1 \in T PROVE n \in T
  <2>1. PICK h : Steps(h, S, x, n - 1, f)
    BY <1>2
  <2>2. h \in [0 .. n - 1 -> S] /\ h[0] = x /\ \A i \in 1 .. n - 1 : h[i] = f[i][h[i - 1]]
    BY <2>1 DEF Steps
  <2>3. h[n - 1] \in S /\ f[n][h[n - 1]] \in S
    BY <2>2 DEF Within
  <2>4. PICK g : g = [i \in 0 .. n |-> IF i = n THEN f[n][h[n - 1]] ELSE h[i]]
    OBVIOUS
  <2>5. g \in [0 .. n -> S] /\ g[0] = x
    BY <2>2, <2>3, <2>4
  <2>6. ASSUME NEW i \in 1 .. n PROVE g[i] = f[i][g[i - 1]]
    <3>1. CASE i = n
      BY <2>4, <3>1
    <3>2. CASE i # n
      BY <2>2, <2>4, <3>2
    <3> QED
      BY <3>1, <3>2
  <2>7. Steps(g, S, x, n, f)
    BY <2>5, <2>6 DEF Steps
  <2> QED
    BY <2>7
<1>3. \A n \in 0 .. N : n \in T
  <2> HIDE DEF T
  <2> QED
    BY <1>1, <1>2, Stepwise
<1> QED
  BY <1>3

-----------------------------------------------------------------------------
(***************************************************************************)
(* Sequences of bytes, and where the code holds them.                      *)
(***************************************************************************)
LEMMA SequenceFacts ==
    ASSUME NEW s, IsSequence(s)
    PROVE  Len(s) \in Nat /\ DOMAIN s = 1 .. Len(s)
  BY DEF IsSequence

LEMMA BytesFacts ==
    ASSUME NEW s \in Seq(Byte)
    PROVE  Len(s) \in Nat /\ DOMAIN s = 1 .. Len(s) /\ \A i \in 1 .. Len(s) : s[i] \in Byte
  OBVIOUS

LEMMA FewBytes ==
    ASSUME NEW x \in Byte, NEW y \in Byte
    PROVE  << x >> \in Seq(Byte) /\ << x, y >> \in Seq(Byte) /\ Len(<< x >>) = 1 /\ Len(<< x, y >>) = 2
  OBVIOUS

LEMMA Joined ==
    ASSUME NEW a \in Seq(Byte), NEW b \in Seq(Byte)
    PROVE  /\ a \o b \in Seq(Byte)
           /\ Len(a \o b) = Len(a) + Len(b)
           /\ \A i \in 1 .. Len(a) : (a \o b)[i] = a[i]
           /\ \A i \in 1 .. Len(b) : (a \o b)[Len(a) + i] = b[i]
  BY ConcatProperties, BytesFacts

\* Code that holds two texts one after the other holds each at its place.
LEMMA HoldsBoth ==
    ASSUME NEW c \in Seq(Byte), NEW p \in Nat \ {0}, NEW a \in Seq(Byte), NEW b \in Seq(Byte),
           Holds(c, p, a \o b)
    PROVE  Holds(c, p, a) /\ Holds(c, p + Len(a), b)
<1>1. PICK la, lb \in Nat : la = Len(a) /\ lb = Len(b)
  BY BytesFacts
<1>2. /\ Len(a \o b) = la + lb
      /\ \A i \in 1 .. la : (a \o b)[i] = a[i]
      /\ \A i \in 1 .. lb : (a \o b)[la + i] = b[i]
  BY <1>1, Joined
<1>3. PICK lc \in Nat : lc = Len(c)
  BY BytesFacts
<1>4. p + (la + lb) - 1 <= lc /\ \A j \in 1 .. la + lb : c[p + j - 1] = (a \o b)[j]
  BY <1>2, <1>3 DEF Holds
<1>5. p + la - 1 <= lc /\ (p + la) + lb - 1 <= lc
  BY <1>4
<1>6. \A j \in 1 .. la : c[p + j - 1] = a[j]
  <2> TAKE j \in 1 .. la
  <2>1. j \in 1 .. la + lb
    OBVIOUS
  <2> QED
    BY <1>2, <1>4, <2>1
<1>7. \A j \in 1 .. lb : c[(p + la) + j - 1] = b[j]
  <2> TAKE j \in 1 .. lb
  <2>1. la + j \in 1 .. la + lb /\ p + (la + j) - 1 = (p + la) + j - 1
    OBVIOUS
  <2> QED
    BY <1>2, <1>4, <2>1
<1> QED
  BY <1>1, <1>3, <1>5, <1>6, <1>7 DEF Holds

\* One byte at its place.
LEMMA HoldsByte ==
    ASSUME NEW c \in Seq(Byte), NEW p \in Nat \ {0}, NEW v, Holds(c, p, << v >>)
    PROVE  c[p] = v /\ p <= Len(c)
<1>1. p + 1 - 1 <= Len(c) /\ c[p + 1 - 1] = v
  BY DEF Holds
<1> QED
  BY <1>1, BytesFacts

LEMMA HoldsTwo ==
    ASSUME NEW c \in Seq(Byte), NEW p \in Nat \ {0}, NEW x, NEW y, Holds(c, p, << x, y >>)
    PROVE  c[p] = x /\ p <= Len(c) /\ Holds(c, p + 1, << y >>)
<1>1. PICK m \in Nat : m = Len(c)
  BY BytesFacts
<1>2. p + 2 - 1 <= m /\ c[p + 1 - 1] = x /\ c[p + 2 - 1] = y
  BY <1>1 DEF Holds
<1>3. p + 1 - 1 = p /\ p + 2 - 1 = (p + 1) + 1 - 1 /\ p <= m
  BY <1>2
<1>4. Holds(c, p + 1, << y >>)
  <2>1. \A j \in 1 .. 1 : c[(p + 1) + j - 1] = << y >>[j]
    BY <1>2, <1>3
  <2>2. Len(<< y >>) = 1
    OBVIOUS
  <2> QED
    BY <1>1, <1>2, <1>3, <2>1, <2>2 DEF Holds
<1> QED
  BY <1>1, <1>2, <1>3, <1>4

\* What the decoder reads as bytes is what stands there.
LEMMA BytesHeld ==
    ASSUME code \in Seq(Byte), NEW p \in Nat \ {0}, NEW s \in Seq(Byte), Holds(code, p, s)
    PROVE  Bytes(p, Len(s)) = s
<1>1. PICK n \in Nat : n = Len(s)
  BY BytesFacts
<1>2. PICK m \in Nat : m = Len(code)
  BY BytesFacts
<1>3. p + n - 1 <= m /\ \A j \in 1 .. n : code[p + j - 1] = s[j]
  BY <1>1, <1>2 DEF Holds
<1>4. Bytes(p, n) = SubSeq(code, p, p + n - 1)
  BY <1>2, <1>3 DEF Bytes
<1>5. SubSeq(code, p, p + n - 1) = [i \in 1 .. n |-> code[i + p - 1]]
  <2>1. SubSeq(code, p, p + n - 1) = [i \in 1 .. (1 + (p + n - 1)) - p |-> code[i + p - 1]]
    OBVIOUS
  <2>2. (1 + (p + n - 1)) - p = n
    OBVIOUS
  <2> QED
    BY <2>1, <2>2
<1>6. \A i \in 1 .. n : code[i + p - 1] = s[i]
  <2> TAKE i \in 1 .. n
  <2>1. i + p - 1 = p + i - 1
    OBVIOUS
  <2> QED
    BY <1>3, <2>1
<1>7. s = [i \in 1 .. n |-> s[i]]
  BY <1>1
<1>8. [i \in 1 .. n |-> code[i + p - 1]] = [i \in 1 .. n |-> s[i]]
  BY <1>6
<1> QED
  BY <1>1, <1>4, <1>5, <1>7, <1>8

LEMMA At8Held ==
    ASSUME code \in Seq(Byte), NEW p \in Nat \ {0}, NEW v, Holds(code, p, << v >>)
    PROVE  At8(p) = v
  BY HoldsByte DEF At8

-----------------------------------------------------------------------------
(***************************************************************************)
(* One operand of a statement.                                             *)
(***************************************************************************)
\* An operand of the kinds below is written and read as another one is.
WrittenLike(o, v) ==
    emit_operand(o) = emit_operand(v) /\ needs_extended_encoding(o) = needs_extended_encoding(v)

LEMMA ExtentForm ==
    ASSUME NEW o, HasExtent(o)
    PROVE  \E k \in {"RDA", "GROUP"}, n \in 0 .. 221, z \in 1 .. 222 :
              o = [k |-> k, n |-> n, size |-> z] /\ n + z <= 222
<1>1. PICK k, n, z : k = o.k /\ n = o.n /\ z = o.size
  OBVIOUS
<1>2. n \in 0 .. LastSlot /\ z \in 1 .. LastSlot + 1 - n
  BY <1>1 DEF HasExtent
<1>3. n \in 0 .. 221 /\ z \in 1 .. 222 /\ n + z <= 222
  BY <1>2 DEF LastSlot
<1>4. o = [k |-> k, n |-> n, size |-> z] /\ k \in {"RDA", "GROUP"}
  BY <1>1, Zenon DEF HasExtent
<1> QED
  BY <1>3, <1>4

LEMMA Direct ==
    ASSUME NEW o, IsDirect(o)
    PROVE  /\ Named(o) \in Variable
           /\ compute_operand_value(o) = compute_operand_value(Named(o))
           /\ o.k # "STR" /\ o.k # "at" /\ o.k # "const"
<1>1. CASE HasExtent(o)
  <2>1. PICK k \in {"RDA", "GROUP"}, n \in 0 .. 221, z \in 1 .. 222 : o = [k |-> k, n |-> n, size |-> z]
    BY <1>1, ExtentForm
  <2>2. Extent(o) = z /\ o.n = n /\ o.k = k
    BY <2>1 DEF Extent
  <2>3. Named(o) = Rda(n)
    BY <2>2 DEF Named
  <2>4. Rda(n) \in Variable
    BY DEF Variable, Slots, LastSlot
  <2>5. compute_operand_value(o) = RdaValue(n) /\ compute_operand_value(Rda(n)) = RdaValue(n)
    BY <2>2 DEF compute_operand_value, Rda
  <2> QED
    BY <2>2, <2>3, <2>4, <2>5
<1>2. CASE IsEdge(o)
  <2>1. PICK n \in 0 .. 221 : o = [k |-> "EDGE", n |-> n]
    BY <1>2 DEF IsEdge, Edge, LastSlot
  <2>2. o.n = n /\ o.k = "EDGE"
    BY <2>1
  <2>3. Named(o) = Rda(n)
    BY <2>2 DEF Named
  <2>4. Rda(n) \in Variable
    BY DEF Variable, Slots, LastSlot
  <2>5. compute_operand_value(o) = RdaValue(n) /\ compute_operand_value(Rda(n)) = RdaValue(n)
    BY <2>2 DEF compute_operand_value, Rda
  <2> QED
    BY <2>2, <2>3, <2>4, <2>5
<1>3. CASE o \in Variable
  <2>1. PICK k, n : o = [k |-> k, n |-> n] /\ k # "EDGE" /\ k # "STR" /\ k # "at" /\ k # "const"
    BY <1>3, Kinds DEF RegI, RegD, RegP, Rda, Pev, Gev
  <2>2. Extent(o) = 0
    BY <2>1 DEF Extent
  <2>3. Named(o) = o
    BY <2>1, <2>2 DEF Named
  <2> QED
    BY <1>3, <2>1, <2>3
<1> QED
  BY <1>1, <1>2, <1>3 DEF IsDirect

LEMMA DirectWritten ==
    ASSUME NEW o, IsDirect(o)
    PROVE  WrittenLike(o, Named(o)) /\ Shown(o) = Named(o)
<1>1. PICK v : v = Named(o)
  OBVIOUS
<1>2. /\ v \in Variable /\ compute_operand_value(o) = compute_operand_value(v)
      /\ o.k # "STR" /\ o.k # "at" /\ o.k # "const"
  BY <1>1, Direct
<1>3. v.k # "STR" /\ v.k # "at" /\ v.k # "const"
  BY <1>2, ValueRange
<1>4. emit_operand(o) = emit_operand(v)
  BY <1>2, <1>3 DEF emit_operand
<1>5. needs_extended_encoding(o) = needs_extended_encoding(v)
  BY <1>2, <1>3 DEF needs_extended_encoding
<1>6. Shown(o) = v
  BY <1>1, <1>2 DEF Shown
<1> QED
  BY <1>1, <1>4, <1>5, <1>6 DEF WrittenLike

\* An element with a variable subscript.
LEMMA AtWritten ==
    ASSUME NEW o, IsAt(o)
    PROVE  \E b \in Variable, i \in Subscript : Shown(o) = At(b, i) /\ WrittenLike(o, At(b, i))
<1>1. PICK ob, oi : /\ o = At(ob, oi) /\ IsDirect(ob) /\ IsDirect(oi) /\ Named(oi) \in Subscript
                    /\ oi.k \in {"EDGE", "GROUP"} => oi.n <= 157
  <2>1. /\ o = At(o.base, o.idx) /\ IsDirect(o.base) /\ IsDirect(o.idx) /\ Named(o.idx) \in Subscript
        /\ o.idx.k \in {"EDGE", "GROUP"} => o.idx.n <= 157
    BY DEF IsAt
  <2> QED
    BY <2>1
<1>2. PICK b \in Variable, i \in Subscript : b = Named(ob) /\ i = Named(oi)
  BY <1>1, Direct
<1>3. o.k = "at" /\ o.base = ob /\ o.idx = oi
  BY <1>1 DEF At
<1>4. Shown(o) = At(b, i)
  BY <1>2, <1>3 DEF Shown
<1>5. compute_operand_value(ob) = compute_operand_value(b)
  BY <1>1, <1>2, Direct
<1>6. IndexByte(oi) = IndexByte(i)
  <2>1. compute_operand_value(oi) = compute_operand_value(i)
    BY <1>1, <1>2, Direct
  <2>2. CASE HasExtent(oi)
    <3>1. PICK k \in {"RDA", "GROUP"}, n \in 0 .. 221, z \in 1 .. 222 : oi = [k |-> k, n |-> n, size |-> z]
      BY <2>2, ExtentForm
    <3>2. Extent(oi) = z /\ oi.n = n /\ oi.k = k /\ (k = "GROUP" => n <= 157)
      BY <1>1, <3>1 DEF Extent
    <3>3. i = Rda(n)
      BY <1>2, <3>2 DEF Named
    <3>4. CASE k = "GROUP"
      <4>1. compute_operand_value(oi) = 34 + n
        BY <3>2, <3>4 DEF compute_operand_value, RdaValue
      <4> QED
        BY <3>2, <3>3, <3>4, <4>1 DEF IndexByte, Rda
    <3>5. CASE k = "RDA"
      BY <3>2, <3>3, <3>5 DEF IndexByte, Rda
    <3> QED
      BY <3>4, <3>5
  <2>3. CASE IsEdge(oi)
    <3>1. PICK n \in 0 .. 221 : oi = [k |-> "EDGE", n |-> n]
      BY <2>3 DEF IsEdge, Edge, LastSlot
    <3>2. oi.n = n /\ oi.k = "EDGE" /\ n <= 157
      BY <1>1, <3>1
    <3>3. i = Rda(n)
      BY <1>2, <3>2 DEF Named
    <3>4. compute_operand_value(oi) = 34 + n
      BY <3>2 DEF compute_operand_value, RdaValue
    <3> QED
      BY <3>2, <3>3, <3>4 DEF IndexByte, Rda
  <2>4. CASE oi \in Variable
    <3>1. PICK k, n : oi = [k |-> k, n |-> n] /\ k # "EDGE"
      BY <2>4, Kinds DEF RegI, RegD, RegP, Rda, Pev, Gev
    <3>2. Extent(oi) = 0
      BY <3>1 DEF Extent
    <3> QED
      BY <1>2, <3>1, <3>2 DEF Named
  <2> QED
    BY <1>1, <2>2, <2>3, <2>4 DEF IsDirect
<1>7. emit_operand(o) = emit_operand(At(b, i))
  <2>1. emit_operand(At(ob, oi)) = emit_word_be(compute_operand_value(ob) + 32768) \o << IndexByte(oi) >>
    BY EmitIndexed
  <2>2. emit_operand(At(b, i)) = emit_word_be(compute_operand_value(b) + 32768) \o << IndexByte(i) >>
    BY EmitIndexed
  <2> QED
    BY <1>1, <1>5, <1>6, <2>1, <2>2
<1>8. needs_extended_encoding(o) = needs_extended_encoding(At(b, i))
  <2>1. needs_extended_encoding(At(ob, oi)) = TRUE
    BY DEF At, needs_extended_encoding
  <2>2. needs_extended_encoding(At(b, i)) = TRUE
    BY DEF At, needs_extended_encoding
  <2> QED
    BY <1>1, <2>1, <2>2
<1> QED
  BY <1>4, <1>7, <1>8 DEF WrittenLike

\* An element with a constant subscript.
LEMMA ConstWritten ==
    ASSUME NEW o, IsConst(o)
    PROVE  \E v \in Variable : Shown(o) = v /\ WrittenLike(o, v)
<1>1. PICK ob, n : /\ o = Const(ob, n) /\ IsDirect(ob) /\ ob.k # "GROUP" /\ n \in Nat \ {0}
                   /\ ConstIndexed(Named(ob), n) \in Variable
  <2>1. /\ o = Const(o.base, o.n) /\ IsDirect(o.base) /\ o.base.k # "GROUP" /\ o.n \in Nat \ {0}
        /\ ConstIndexed(Named(o.base), o.n) \in Variable
    BY DEF IsConst
  <2> QED
    BY <2>1
<1>2. PICK b \in Variable : b = Named(ob)
  BY <1>1, Direct
<1>3. PICK v \in Variable : v = ConstIndexed(b, n)
  BY <1>1, <1>2
<1>4. o.k = "const" /\ o.base = ob /\ o.n = n
  BY <1>1 DEF Const
<1>5. Shown(o) = v
  BY <1>2, <1>3, <1>4 DEF Shown
<1>6. emit_operand(o) = emit_const(ob, n) /\ needs_extended_encoding(o) = ExtendedConst(ob, n)
  BY <1>4 DEF emit_operand, needs_extended_encoding
<1>7. emit_const(ob, n) = emit_const(b, n) /\ ExtendedConst(ob, n) = ExtendedConst(b, n)
  <2>1. CASE HasExtent(ob)
    <3>1. PICK k \in {"RDA", "GROUP"}, m \in 0 .. 221, z \in 1 .. 222 : ob = [k |-> k, n |-> m, size |-> z]
      BY <2>1, ExtentForm
    <3>2. Extent(ob) = z /\ ob.n = m /\ ob.k = "RDA"
      BY <1>1, <3>1 DEF Extent
    <3>3. b.n = m /\ b.k = "RDA"
      BY <1>2, <3>2 DEF Named, Rda
    <3> QED
      BY <3>2, <3>3 DEF emit_const, ExtendedConst
  <2>2. CASE IsEdge(ob)
    <3>1. PICK m \in 0 .. 221 : ob = [k |-> "EDGE", n |-> m]
      BY <2>2 DEF IsEdge, Edge, LastSlot
    <3>2. ob.n = m /\ ob.k = "EDGE"
      BY <3>1
    <3>3. b.n = m /\ b.k = "RDA"
      BY <1>2, <3>2 DEF Named, Rda
    <3> QED
      BY <3>2, <3>3 DEF emit_const, ExtendedConst
  <2>3. CASE ob \in Variable
    <3>1. PICK k, m : ob = [k |-> k, n |-> m] /\ k # "EDGE"
      BY <2>3, Kinds DEF RegI, RegD, RegP, Rda, Pev, Gev
    <3>2. Extent(ob) = 0
      BY <3>1 DEF Extent
    <3> QED
      BY <1>2, <3>1, <3>2 DEF Named
  <2> QED
    BY <1>1, <2>1, <2>2, <2>3 DEF IsDirect
<1>8. emit_const(b, n) = emit_operand(v) /\ ExtendedConst(b, n) = needs_extended_encoding(v)
  <2>1. WrittenAs(b, n, v)
    BY <1>1, <1>3, ConstSame
  <2> QED
    BY <2>1 DEF WrittenAs
<1> QED
  BY <1>5, <1>6, <1>7, <1>8 DEF WrittenLike

\* The bytes an operand is written in.
Written(o) == /\ emit_operand(o) \in Seq(Byte) /\ Len(emit_operand(o)) >= 1
              /\ needs_extended_encoding(o) \in BOOLEAN

LEMMA VariableBytes ==
    ASSUME NEW o \in Variable
    PROVE  Written(o)
<1>1. PICK v : v = compute_operand_value(o)
  OBVIOUS
<1>2. v \in Nat /\ 9 <= v /\ v <= 32511 /\ o.k # "STR" /\ o.k # "at" /\ o.k # "const"
  BY <1>1, ValueRange
<1>3. CASE ~ (v > 255)
  <2>1. emit_operand(o) = << v >> /\ needs_extended_encoding(o) = FALSE
    BY <1>1, <1>2, <1>3, EmitShort DEF needs_extended_encoding
  <2>2. v \in Byte
    BY <1>2, <1>3 DEF Byte
  <2>3. emit_operand(o) \in Seq(Byte) /\ Len(emit_operand(o)) >= 1
    BY <2>1, <2>2, FewBytes
  <2>4. needs_extended_encoding(o) \in BOOLEAN
    BY <2>1
  <2> QED
    BY <2>3, <2>4, Zenon DEF Written
<1>4. CASE v > 255
  <2>1. emit_operand(o) = emit_word_be(v) /\ needs_extended_encoding(o) = TRUE
    BY <1>1, <1>2, <1>4, EmitLong DEF needs_extended_encoding
  <2>2. PICK hi \in Byte, lo \in Byte : emit_word_be(v) = << hi, lo >>
    BY <1>2, WordSplit
  <2>3. emit_operand(o) \in Seq(Byte) /\ Len(emit_operand(o)) = 2
    BY <2>1, <2>2, FewBytes
  <2> QED
    BY <2>1, <2>3 DEF Written
<1> QED
  BY <1>3, <1>4

LEMMA IndexedBytes ==
    ASSUME NEW b \in Variable, NEW i \in Subscript
    PROVE  Written(At(b, i))
<1>1. PICK w : w = compute_operand_value(b) + 32768
  OBVIOUS
<1>2. w \in Nat /\ w <= 65535
  BY <1>1, ValueRange
<1>3. PICK hi \in Byte, lo \in Byte : emit_word_be(w) = << hi, lo >>
  BY <1>2, WordSplit
<1>4. PICK x \in Byte : x = IndexByte(i)
  BY IndexValue DEF Byte
<1>5. emit_operand(At(b, i)) = << hi, lo >> \o << x >>
  <2>1. emit_operand(At(b, i)) = emit_word_be(compute_operand_value(b) + 32768) \o << IndexByte(i) >>
    BY EmitIndexed
  <2> QED
    BY <1>1, <1>3, <1>4, <2>1
<1>6. << hi, lo >> \o << x >> \in Seq(Byte) /\ Len(<< hi, lo >> \o << x >>) = 3
  BY FewBytes, Joined
<1>7. needs_extended_encoding(At(b, i)) = TRUE
  BY DEF At, needs_extended_encoding
<1> QED
  BY <1>5, <1>6, <1>7 DEF Written

LEMMA TextBytes ==
    ASSUME NEW o, IsText(o)
    PROVE  /\ Written(o) /\ needs_extended_encoding(o) = FALSE /\ Shown(o) = o
           /\ o = Text(o.n) /\ o.n \in Seq(Byte) /\ Len(o.n) \in Byte
           /\ emit_operand(o) = << 0, Len(o.n) >> \o o.n
           /\ Len(emit_operand(o)) = 2 + Len(o.n)
<1>1. PICK t \in Seq(Byte) : t = o.n /\ o = Text(t) /\ Len(t) <= 255
  BY DEF IsText
<1>2. PICK n \in Byte : n = Len(t)
  <2>1. PICK n : n = Len(t)
    OBVIOUS
  <2>2. n \in Nat /\ n <= 255
    BY <1>1, <2>1, BytesFacts
  <2>3. n \in Byte
    BY <2>2 DEF Byte
  <2> QED
    BY <2>1, <2>3
<1>3. o.k = "STR" /\ o.n = t
  BY <1>1 DEF Text
<1>4. needs_extended_encoding(o) = FALSE
  BY <1>3 DEF needs_extended_encoding
<1>5. Shown(o) = o
  <2>1. DOMAIN o = {"k", "n"}
    BY <1>1 DEF Text
  <2>2. Extent(o) = 0
    BY <2>1 DEF Extent
  <2> QED
    BY <1>3, <2>2 DEF Shown, Named
<1>6. emit_operand(o) = << 0, n >> \o t
  BY <1>2, <1>3 DEF emit_operand
<1>7. << 0, n >> \in Seq(Byte) /\ Len(<< 0, n >>) = 2
  BY DEF Byte
<1>8. << 0, n >> \o t \in Seq(Byte) /\ Len(<< 0, n >> \o t) = 2 + n
  BY <1>2, <1>7, Joined
<1>9. Written(o)
  <2>1. 2 + n >= 1
    BY DEF Byte
  <2>2. emit_operand(o) \in Seq(Byte) /\ Len(emit_operand(o)) >= 1
    BY <1>6, <1>8, <2>1
  <2> QED
    BY <1>4, <2>2 DEF Written
<1> QED
  BY <1>1, <1>2, <1>3, <1>4, <1>5, <1>6, <1>8, <1>9

LEMMA OperandBytes ==
    ASSUME NEW o, IsOperand(o)
    PROVE  Written(o)
<1>1. CASE IsDirect(o)
  <2>1. Named(o) \in Variable /\ WrittenLike(o, Named(o))
    BY <1>1, Direct, DirectWritten
  <2>2. Written(Named(o))
    BY <2>1, VariableBytes
  <2> QED
    BY <2>1, <2>2 DEF Written, WrittenLike
<1>2. CASE IsText(o)
  BY <1>2, TextBytes
<1>3. CASE IsConst(o)
  <2>1. PICK v \in Variable : WrittenLike(o, v)
    BY <1>3, ConstWritten
  <2>2. Written(v)
    BY VariableBytes
  <2> QED
    BY <2>1, <2>2 DEF Written, WrittenLike
<1>4. CASE IsAt(o)
  <2>1. PICK b \in Variable, i \in Subscript : WrittenLike(o, At(b, i))
    BY <1>4, AtWritten
  <2>2. Written(At(b, i))
    BY IndexedBytes
  <2> QED
    BY <2>1, <2>2 DEF Written, WrittenLike
<1> QED
  BY <1>1, <1>2, <1>3, <1>4 DEF IsOperand

\* What read_operand finds at p, where o was written, when the mode bit of o
\* is ext.
Found(c, p, o, ext) == read_operand(c, p, ext) = [op |-> Shown(o), next |-> p + Len(emit_operand(o))]

LEMMA TextFound ==
    ASSUME NEW c \in Seq(Byte), NEW p \in Nat \ {0}, NEW o, IsText(o), Holds(c, p, emit_operand(o)), NEW ext
    PROVE  Found(c, p, o, ext)
<1>1. PICK t \in Seq(Byte), n \in Byte : /\ t = o.n /\ o = Text(t) /\ n = Len(t) /\ Shown(o) = o
                                         /\ emit_operand(o) = << 0, n >> \o t
                                         /\ Len(emit_operand(o)) = 2 + n
  BY TextBytes
<1>2. << 0, n >> \in Seq(Byte) /\ Len(<< 0, n >>) = 2
  <2>1. 0 \in Byte
    BY DEF Byte
  <2> QED
    BY <2>1, FewBytes
<1>3. Holds(c, p, << 0, n >>) /\ Holds(c, p + 2, t)
  <2>1. Holds(c, p, << 0, n >> \o t)
    BY <1>1
  <2> QED
    BY <1>2, <2>1, HoldsBoth
<1>4. PICK m \in Nat : m = Len(c)
  BY BytesFacts
<1>5. n \in Nat
  BY DEF Byte
<1>6. c[p] = 0 /\ c[p + 1] = n /\ p + 1 <= m
  <2>1. p + 2 - 1 <= m /\ \A j \in 1 .. 2 : c[p + j - 1] = << 0, n >>[j]
    BY <1>2, <1>3, <1>4 DEF Holds
  <2>2. c[p + 1 - 1] = 0 /\ c[p + 2 - 1] = n
    BY <2>1
  <2>3. p + 1 - 1 = p /\ p + 2 - 1 = p + 1
    OBVIOUS
  <2> QED
    BY <2>1, <2>2, <2>3
<1>7. (p + 2) + n - 1 <= m /\ \A j \in 1 .. n : c[(p + 2) + j - 1] = t[j]
  BY <1>1, <1>3, <1>4 DEF Holds
<1>8. SubSeq(c, p + 2, p + 1 + n) = t
  <2>1. SubSeq(c, p + 2, p + 1 + n) = [i \in 1 .. (1 + (p + 1 + n)) - (p + 2) |-> c[i + (p + 2) - 1]]
    BY <1>5
  <2>2. (1 + (p + 1 + n)) - (p + 2) = n
    BY <1>5
  <2>3. \A i \in 1 .. n : c[i + (p + 2) - 1] = t[i]
    <3> TAKE i \in 1 .. n
    <3>1. i + (p + 2) - 1 = (p + 2) + i - 1
      OBVIOUS
    <3> QED
      BY <1>7, <3>1
  <2>4. t = [i \in 1 .. n |-> t[i]]
    <3>1. t = [i \in 1 .. Len(t) |-> t[i]]
      OBVIOUS
    <3> QED
      BY <1>1, <3>1
  <2>5. [i \in 1 .. n |-> c[i + (p + 2) - 1]] = [i \in 1 .. n |-> t[i]]
    BY <2>3
  <2> QED
    BY <2>1, <2>2, <2>4, <2>5
<1>9. ReadText(c, p) = [op |-> Text(t), next |-> p + 2 + n]
  <2>1. ~ (p + 1 > Len(c)) /\ ~ (p + 1 + c[p + 1] > Len(c))
    BY <1>4, <1>5, <1>6, <1>7
  <2> QED
    BY <1>6, <1>8, <2>1 DEF ReadText
<1>10. read_operand(c, p, ext) = ReadText(c, p)
  BY <1>4, <1>6 DEF read_operand
<1>11. p + 2 + n = p + (2 + n)
  BY <1>5
<1> QED
  BY <1>1, <1>9, <1>10, <1>11 DEF Found

\* Whatever an operand is, it is read as it should be shown, and the reader
\* stops where it ends.
LEMMA OperandFound ==
    ASSUME NEW c \in Seq(Byte), NEW p \in Nat \ {0}, NEW o, IsOperand(o), Holds(c, p, emit_operand(o))
    PROVE  Found(c, p, o, needs_extended_encoding(o))
<1>1. ASSUME NEW v \in Variable, Shown(o) = v, WrittenLike(o, v)
      PROVE  Found(c, p, o, needs_extended_encoding(o))
  <2>1. emit_operand(o) = emit_operand(v) /\ needs_extended_encoding(o) = needs_extended_encoding(v)
    BY <1>1 DEF WrittenLike
  <2>2. Holds(c, p, emit_operand(v))
    BY <2>1
  <2>3. read_operand(c, p, needs_extended_encoding(v)) = [op |-> v, next |-> p + Len(emit_operand(v))]
    BY <2>2, DirectRoundTrip
  <2> QED
    BY <1>1, <2>1, <2>3 DEF Found
<1>2. CASE IsDirect(o)
  BY <1>1, <1>2, Direct, DirectWritten
<1>3. CASE IsText(o)
  BY <1>3, TextFound
<1>4. CASE IsConst(o)
  BY <1>1, <1>4, ConstWritten
<1>5. CASE IsAt(o)
  <2>1. PICK b \in Variable, i \in Subscript : Shown(o) = At(b, i) /\ WrittenLike(o, At(b, i))
    BY <1>5, AtWritten
  <2>2. emit_operand(o) = emit_operand(At(b, i)) /\ needs_extended_encoding(o) = needs_extended_encoding(At(b, i))
    BY <2>1 DEF WrittenLike
  <2>3. Holds(c, p, emit_operand(At(b, i)))
    BY <2>2
  <2>4. read_operand(c, p, needs_extended_encoding(At(b, i)))
           = [op |-> At(b, i), next |-> p + Len(emit_operand(At(b, i)))]
    BY <2>3, IndexedRoundTrip
  <2> QED
    BY <2>1, <2>2, <2>4 DEF Found
<1> QED
  BY <1>2, <1>3, <1>4, <1>5 DEF IsOperand

\* No operand is shown as the Nothing of a read past the end.
LEMMA ShownIsSomething ==
    ASSUME NEW o, IsOperand(o)
    PROVE  Shown(o) # Nothing
<1>1. Nothing.k = "NUM"
  BY DEF Nothing, Num
<1>2. \A v \in Variable : v.k # "NUM"
  <2> TAKE v \in Variable
  <2> QED
    BY Kinds DEF RegI, RegD, RegP, Rda, Pev, Gev
<1>3. CASE IsDirect(o)
  BY <1>1, <1>2, <1>3, Direct, DirectWritten
<1>4. CASE IsText(o)
  <2>1. Shown(o).k = "STR"
    BY <1>4, TextBytes DEF IsText
  <2> QED
    BY <1>1, <2>1
<1>5. CASE IsConst(o)
  BY <1>1, <1>2, <1>5, ConstWritten
<1>6. CASE IsAt(o)
  <2>1. PICK b, i : Shown(o) = At(b, i)
    BY <1>6, AtWritten
  <2> QED
    BY <1>1, <2>1 DEF At
<1> QED
  BY <1>3, <1>4, <1>5, <1>6 DEF IsOperand

-----------------------------------------------------------------------------
(***************************************************************************)
(* The operands of a statement, one after another.                         *)
(***************************************************************************)
Operable(ops) == IsSequence(ops) /\ \A i \in DOMAIN ops : IsOperand(ops[i])
ShownAll(ops) == [i \in DOMAIN ops |-> Shown(ops[i])]

IsEmitted(h, ops) == h = [i \in 0 .. Len(ops) |-> IF i = 0 THEN << >> ELSE h[i - 1] \o emit_operand(ops[i])]

LEMMA EmittedSteps ==
    ASSUME NEW ops, Operable(ops)
    PROVE  /\ Emitted(ops) \in [0 .. Len(ops) -> Seq(Byte)]
           /\ Emitted(ops)[0] = << >>
           /\ \A k \in 1 .. Len(ops) : Emitted(ops)[k] = Emitted(ops)[k - 1] \o emit_operand(ops[k])
<1>1. PICK N \in Nat : N = Len(ops) /\ DOMAIN ops = 1 .. N
  BY SequenceFacts DEF Operable
<1>2. \A k \in 1 .. N : emit_operand(ops[k]) \in Seq(Byte)
  BY <1>1, OperandBytes DEF Operable, Written
<1>3. PICK f : f = [k \in 1 .. N |-> [v \in Seq(Byte) |-> v \o emit_operand(ops[k])]]
  OBVIOUS
<1>4. Within(f, Seq(Byte), N)
  <2>1. ASSUME NEW k \in 1 .. N PROVE f[k] \in [Seq(Byte) -> Seq(Byte)]
    <3>1. \A v \in Seq(Byte) : v \o emit_operand(ops[k]) \in Seq(Byte)
      BY <1>2, Joined
    <3> QED
      BY <1>3, <3>1
  <2> QED
    BY <2>1 DEF Within
<1>5. << >> \in Seq(Byte)
  OBVIOUS
<1>6. PICK h : h \in [0 .. N -> Seq(Byte)] /\ h[0] = << >> /\ \A k \in 1 .. N : h[k] = f[k][h[k - 1]]
  <2>1. \E h : Steps(h, Seq(Byte), << >>, N, f)
    BY <1>4, <1>5, Recursion
  <2> QED
    BY <2>1 DEF Steps
<1>7. \A k \in 1 .. N : k - 1 \in 0 .. N /\ h[k - 1] \in Seq(Byte) /\ h[k] = h[k - 1] \o emit_operand(ops[k])
  <2> TAKE k \in 1 .. N
  <2>1. k - 1 \in 0 .. N
    OBVIOUS
  <2>2. h[k - 1] \in Seq(Byte)
    BY <1>6, <2>1
  <2>3. h[k] = f[k][h[k - 1]]
    BY <1>6
  <2>4. f[k] = [v \in Seq(Byte) |-> v \o emit_operand(ops[k])]
    BY <1>3
  <2> QED
    BY <2>1, <2>2, <2>3, <2>4
<1>8. IsEmitted(h, ops)
  <2>1. h = [k \in 0 .. N |-> h[k]]
    BY <1>6
  <2>2. ASSUME NEW k \in 0 .. N PROVE h[k] = IF k = 0 THEN << >> ELSE h[k - 1] \o emit_operand(ops[k])
    <3>1. CASE k = 0
      BY <1>6, <3>1
    <3>2. CASE k # 0
      <4>1. k \in 1 .. N
        BY <3>2
      <4> QED
        BY <1>7, <3>2, <4>1, Zenon
    <3> QED
      BY <3>1, <3>2
  <2>3. [k \in 0 .. N |-> h[k]] = [k \in 0 .. N |-> IF k = 0 THEN << >> ELSE h[k - 1] \o emit_operand(ops[k])]
    BY <2>2
  <2> QED
    BY <1>1, <2>1, <2>3 DEF IsEmitted
<1>9. Emitted(ops) = CHOOSE g : IsEmitted(g, ops)
  BY DEF Emitted, IsEmitted
<1>10. PICK e : e = Emitted(ops)
  OBVIOUS
<1>11. IsEmitted(e, ops)
  BY <1>8, <1>9, <1>10
<1>12. e = [k \in 0 .. N |-> IF k = 0 THEN << >> ELSE e[k - 1] \o emit_operand(ops[k])]
  BY <1>1, <1>11 DEF IsEmitted
<1>13. \A k \in 0 .. N : e[k] = IF k = 0 THEN << >> ELSE e[k - 1] \o emit_operand(ops[k])
  BY <1>12, Zenon
<1>14. e[0] = << >> /\ \A k \in 1 .. N : e[k] = e[k - 1] \o emit_operand(ops[k])
  <2>1. 0 \in 0 .. N /\ \A k \in 1 .. N : k \in 0 .. N /\ k # 0
    OBVIOUS
  <2> QED
    BY <1>13, <2>1, Zenon
<1>15. \A k \in 0 .. N : e[k] \in Seq(Byte)
  <2> DEFINE T == {k \in Nat : e[k] \in Seq(Byte)}
  <2>1. 0 \in T
    BY <1>5, <1>14
  <2>2. ASSUME NEW k \in 1 .. N, k - 1 \in T PROVE k \in T
    <3>1. e[k - 1] \in Seq(Byte) /\ emit_operand(ops[k]) \in Seq(Byte)
      BY <1>2, <2>2
    <3>2. e[k - 1] \o emit_operand(ops[k]) \in Seq(Byte)
      BY <3>1, Joined
    <3>3. e[k] = e[k - 1] \o emit_operand(ops[k])
      BY <1>14
    <3>4. e[k] \in Seq(Byte) /\ k \in Nat
      BY <3>2, <3>3
    <3> QED
      BY <3>4
  <2>3. \A k \in 0 .. N : k \in T
    <3> HIDE DEF T
    <3> QED
      BY <2>1, <2>2, Stepwise
  <2> QED
    BY <2>3
<1>16. e \in [0 .. N -> Seq(Byte)]
  <2>1. e = [k \in 0 .. N |-> e[k]]
    BY <1>12
  <2> QED
    BY <1>15, <2>1
<1> QED
  BY <1>1, <1>10, <1>14, <1>16

LEMMA OperandsBytes ==
    ASSUME NEW ops, Operable(ops)
    PROVE  Operands(ops) \in Seq(Byte)
<1>1. Len(ops) \in Nat
  BY SequenceFacts DEF Operable
<1>2. PICK n, e : n = Len(ops) /\ e = Emitted(ops) /\ n \in Nat
  BY <1>1
<1>3. e \in [0 .. n -> Seq(Byte)]
  BY <1>2, EmittedSteps
<1>4. n \in 0 .. n
  BY <1>2
<1> QED
  BY <1>2, <1>3, <1>4 DEF Operands

\* What the decoder has read after i operands.
ReadSoFar(p, ops, i) == [ops |-> [j \in 1 .. i |-> Shown(ops[j])], next |-> p + Len(Emitted(ops)[i])]
IsRead(h, p, n, modes) ==
    h = [i \in 0 .. n |-> IF i = 0 THEN [ops |-> << >>, next |-> p] ELSE ReadNext(h[i - 1], Bit(modes, i))]
\* The mode bits tell which operands are long.
ModesTell(modes, ops) == \A i \in 1 .. Len(ops) : Bit(modes, i) = needs_extended_encoding(ops[i])

\* A sequence is its elements but the last with the last one behind them.
LEMMA LongerByOne ==
    ASSUME NEW i \in Nat \ {0}, NEW h, h = [j \in 1 .. i |-> h[j]]
    PROVE  Append([j \in 1 .. i - 1 |-> h[j]], h[i]) = h
<1>1. PICK t, D : t = [j \in 1 .. i - 1 |-> h[j]] /\ D = {h[j] : j \in 1 .. i}
  OBVIOUS
<1>2. t \in [1 .. i - 1 -> D] /\ i - 1 \in Nat
  BY <1>1
<1>3. t \in Seq(D) /\ Len(t) = i - 1
  BY <1>2
<1> QED
  BY <1>1, <1>3

\* Each round finds the next operand.
LEMMA ReadOneMore ==
    ASSUME code \in Seq(Byte), NEW p \in Nat \ {0}, NEW ops, Operable(ops), NEW modes, ModesTell(modes, ops),
           Holds(code, p, Operands(ops)), NEW i \in 1 .. Len(ops),
           Holds(code, p, Emitted(ops)[i])
    PROVE  /\ Holds(code, p, Emitted(ops)[i - 1])
           /\ ReadNext(ReadSoFar(p, ops, i - 1), Bit(modes, i)) = ReadSoFar(p, ops, i)
<1>1. PICK N \in Nat : N = Len(ops) /\ DOMAIN ops = 1 .. N
  BY SequenceFacts DEF Operable
<1>2. PICK a, b, o : a = Emitted(ops)[i - 1] /\ b = emit_operand(o) /\ o = ops[i]
  OBVIOUS
<1>3. i - 1 \in 0 .. N /\ i \in 1 .. N
  BY <1>1
<1>4. a \in Seq(Byte) /\ Emitted(ops)[i] = a \o b
  BY <1>1, <1>2, <1>3, EmittedSteps
<1>5. IsOperand(o)
  BY <1>1, <1>2 DEF Operable
<1>6. b \in Seq(Byte) /\ Len(b) >= 1
  BY <1>2, <1>5, OperandBytes DEF Written
<1>7. PICK la, lb \in Nat : la = Len(a) /\ lb = Len(b)
  BY <1>4, <1>6, BytesFacts
<1>8. Len(a \o b) = la + lb
  BY <1>4, <1>6, <1>7, Joined
<1>9. Holds(code, p, a) /\ Holds(code, p + la, b)
  <2>1. Holds(code, p, a \o b)
    BY <1>4
  <2> QED
    BY <1>4, <1>6, <1>7, <2>1, HoldsBoth
<1>10. PICK q \in Nat \ {0} : q = p + la
  OBVIOUS
<1>11. Found(code, q, o, needs_extended_encoding(o))
  BY <1>2, <1>5, <1>9, <1>10, OperandFound
<1>12. read_operand(code, q, Bit(modes, i)) = [op |-> Shown(o), next |-> q + lb]
  <2>1. Bit(modes, i) = needs_extended_encoding(o)
    BY <1>2 DEF ModesTell
  <2> QED
    BY <1>2, <1>7, <1>11, <2>1 DEF Found
<1>13. ~ (q > Len(code))
  <2>1. q + lb - 1 <= Len(code)
    BY <1>7, <1>9, <1>10 DEF Holds
  <2>2. Len(code) \in Nat
    BY BytesFacts
  <2> QED
    BY <1>6, <1>7, <2>1, <2>2
<1>14. Shown(o) # Nothing
  BY <1>5, ShownIsSomething
<1>15. PICK s : s = [j \in 1 .. i - 1 |-> Shown(ops[j])]
  OBVIOUS
<1>16. Append(s, Shown(o)) = [j \in 1 .. i |-> Shown(ops[j])]
  <2>1. PICK h : h = [j \in 1 .. i |-> Shown(ops[j])]
    OBVIOUS
  <2>2. h = [j \in 1 .. i |-> h[j]] /\ h[i] = Shown(o)
    BY <1>2, <1>3, <2>1
  <2>3. s = [j \in 1 .. i - 1 |-> h[j]]
    BY <1>3, <1>15, <2>1
  <2>4. Append([j \in 1 .. i - 1 |-> h[j]], h[i]) = h
    BY <1>3, <2>2, LongerByOne
  <2> QED
    BY <2>1, <2>2, <2>3, <2>4
<1>17. ReadSoFar(p, ops, i - 1) = [ops |-> s, next |-> q]
  BY <1>2, <1>7, <1>10, <1>15 DEF ReadSoFar
<1>18. ReadNext([ops |-> s, next |-> q], Bit(modes, i)) = [ops |-> Append(s, Shown(o)), next |-> q + lb]
  <2>1. PICK r, ext, x : /\ r = [ops |-> s, next |-> q] /\ ext = Bit(modes, i)
                         /\ x = [op |-> Shown(o), next |-> q + lb]
    OBVIOUS
  <2>2. read_operand(code, r.next, ext) = x /\ ~ (r.next > Len(code)) /\ x.op # Nothing
    BY <1>12, <1>13, <1>14, <2>1
  <2>3. ReadNext(r, ext) = [ops |-> Append(r.ops, x.op), next |-> x.next]
    BY <2>2 DEF ReadNext
  <2> QED
    BY <2>1, <2>3
<1>19. ReadSoFar(p, ops, i) = [ops |-> Append(s, Shown(o)), next |-> q + lb]
  <2>1. p + (la + lb) = q + lb
    BY <1>10
  <2> QED
    BY <1>4, <1>8, <1>16, <2>1 DEF ReadSoFar
<1> QED
  BY <1>2, <1>9, <1>17, <1>18, <1>19

\* Operands read where they were written, with the right mode bits, come back.
LEMMA OperandsFound ==
    ASSUME code \in Seq(Byte), NEW p \in Nat \ {0}, NEW ops, Operable(ops), NEW modes, ModesTell(modes, ops),
           Holds(code, p, Operands(ops))
    PROVE  ReadOperands(p, Len(ops), modes) = [ops |-> ShownAll(ops), next |-> p + Len(Operands(ops))]
<1>1. PICK N \in Nat : N = Len(ops) /\ DOMAIN ops = 1 .. N
  BY SequenceFacts DEF Operable
<1>2. PICK e : e = Emitted(ops)
  OBVIOUS
<1>3. e[0] = << >> /\ Holds(code, p, e[N])
  BY <1>1, <1>2, EmittedSteps DEF Operands
<1>4. \A i \in 1 .. N : Holds(code, p, e[i]) =>
           Holds(code, p, e[i - 1]) /\ ReadNext(ReadSoFar(p, ops, i - 1), Bit(modes, i)) = ReadSoFar(p, ops, i)
  BY <1>1, <1>2, ReadOneMore
\* Counted from the last operand back, all the beginnings are in place.
<1>5. \A i \in 0 .. N : Holds(code, p, e[i])
  <2> DEFINE T == {k \in Nat : Holds(code, p, e[N - k])}
  <2>1. 0 \in T
    BY <1>3
  <2>2. ASSUME NEW k \in 1 .. N, k - 1 \in T PROVE k \in T
    <3>1. PICK i \in 1 .. N : i = N - (k - 1)
      OBVIOUS
    <3>2. Holds(code, p, e[i])
      BY <2>2, <3>1
    <3>3. i - 1 = N - k
      BY <3>1
    <3>4. Holds(code, p, e[i - 1])
      BY <1>4, <3>2
    <3> QED
      BY <3>3, <3>4
  <2>3. \A k \in 0 .. N : k \in T
    <3> HIDE DEF T
    <3> QED
      BY <2>1, <2>2, Stepwise
  <2>4. ASSUME NEW i \in 0 .. N PROVE Holds(code, p, e[i])
    <3>1. N - i \in 0 .. N /\ N - (N - i) = i
      OBVIOUS
    <3>2. Holds(code, p, e[N - (N - i)])
      BY <2>3, <3>1
    <3> QED
      BY <3>1, <3>2
  <2> QED
    BY <2>4
<1>6. \A i \in 1 .. N : ReadNext(ReadSoFar(p, ops, i - 1), Bit(modes, i)) = ReadSoFar(p, ops, i)
  <2> TAKE i \in 1 .. N
  <2>1. i \in 0 .. N
    OBVIOUS
  <2> QED
    BY <1>4, <1>5, <2>1
<1>7. ReadSoFar(p, ops, 0) = [ops |-> << >>, next |-> p]
  <2>1. [j \in 1 .. 0 |-> Shown(ops[j])] = << >>
    OBVIOUS
  <2>2. Len(e[0]) = 0 /\ p + 0 = p
    BY <1>3
  <2> QED
    BY <1>2, <2>1, <2>2 DEF ReadSoFar
<1>8. PICK h : h = [i \in 0 .. N |-> ReadSoFar(p, ops, i)]
  OBVIOUS
<1>9. IsRead(h, p, N, modes)
  <2>1. ASSUME NEW i \in 0 .. N
        PROVE  h[i] = IF i = 0 THEN [ops |-> << >>, next |-> p] ELSE ReadNext(h[i - 1], Bit(modes, i))
    <3>1. CASE i = 0
      BY <1>7, <1>8, <3>1
    <3>2. CASE i # 0
      <4>1. i \in 1 .. N /\ i - 1 \in 0 .. N
        BY <3>2
      <4>2. h[i] = ReadSoFar(p, ops, i) /\ h[i - 1] = ReadSoFar(p, ops, i - 1)
        BY <1>8, <4>1
      <4> QED
        BY <1>6, <3>2, <4>1, <4>2
    <3> QED
      BY <3>1, <3>2
  <2>2. h = [i \in 0 .. N |-> h[i]]
    BY <1>8
  <2>3. [i \in 0 .. N |-> h[i]]
          = [i \in 0 .. N |-> IF i = 0 THEN [ops |-> << >>, next |-> p] ELSE ReadNext(h[i - 1], Bit(modes, i))]
    BY <2>1
  <2> QED
    BY <2>2, <2>3, Zenon DEF IsRead
<1>10. PICK g : g = CHOOSE r : IsRead(r, p, N, modes)
  OBVIOUS
<1>11. IsRead(g, p, N, modes)
  BY <1>9, <1>10
<1>12. ReadOperands(p, N, modes) = g[N]
  BY <1>10 DEF ReadOperands, IsRead
<1>13. \A i \in 0 .. N : g[i] = IF i = 0 THEN [ops |-> << >>, next |-> p] ELSE ReadNext(g[i - 1], Bit(modes, i))
  BY <1>11, Zenon DEF IsRead
<1>14. \A i \in 0 .. N : g[i] = ReadSoFar(p, ops, i)
  <2> DEFINE T == {i \in Nat : g[i] = ReadSoFar(p, ops, i)}
  <2>1. 0 \in T
    BY <1>7, <1>13
  <2>2. ASSUME NEW i \in 1 .. N, i - 1 \in T PROVE i \in T
    <3>1. i \in 0 .. N /\ i # 0 /\ i \in Nat
      OBVIOUS
    <3>2. g[i] = ReadNext(g[i - 1], Bit(modes, i))
      BY <1>13, <3>1, Zenon
    <3>3. g[i - 1] = ReadSoFar(p, ops, i - 1)
      BY <2>2
    <3>4. g[i] = ReadSoFar(p, ops, i)
      BY <1>6, <3>2, <3>3
    <3> QED
      BY <3>1, <3>4
  <2>3. \A i \in 0 .. N : i \in T
    <3> HIDE DEF T
    <3> QED
      BY <2>1, <2>2, Stepwise
  <2> QED
    BY <2>3
<1>15. g[N] = [ops |-> ShownAll(ops), next |-> p + Len(Operands(ops))]
  <2>1. g[N] = ReadSoFar(p, ops, N)
    BY <1>14
  <2> QED
    BY <1>1, <2>1 DEF ReadSoFar, ShownAll, Operands
<1> QED
  BY <1>1, <1>12, <1>15

-----------------------------------------------------------------------------
(***************************************************************************)
(* The mode bytes.                                                         *)
(***************************************************************************)
On(bits, i) == IF i <= Len(bits) /\ bits[i] THEN 1 ELSE 0

LEMMA BitsFacts ==
    ASSUME NEW ops, Operable(ops)
    PROVE  Bits(ops) \in Seq(BOOLEAN) /\ Len(Bits(ops)) = Len(ops)
           /\ \A i \in 1 .. Len(ops) : Bits(ops)[i] = needs_extended_encoding(ops[i])
<1>1. PICK N \in Nat : N = Len(ops) /\ DOMAIN ops = 1 .. N
  BY SequenceFacts DEF Operable
<1>2. Bits(ops) = [i \in 1 .. N |-> needs_extended_encoding(ops[i])]
  BY <1>1 DEF Bits
<1>3. \A i \in 1 .. N : needs_extended_encoding(ops[i]) \in BOOLEAN
  BY <1>1, OperandBytes DEF Operable, Written
<1> QED
  BY <1>1, <1>2, <1>3

\* The j-th bit of a mode byte, counted from the high end.
LEMMA ModeByteOf ==
    ASSUME NEW bits, NEW b \in Nat \ {0}
    PROVE  ModeByte(bits, b) = 128 * On(bits, 8 * (b - 1) + 1) + 64 * On(bits, 8 * (b - 1) + 2)
              + 32 * On(bits, 8 * (b - 1) + 3) + 16 * On(bits, 8 * (b - 1) + 4) + 8 * On(bits, 8 * (b - 1) + 5)
              + 4 * On(bits, 8 * (b - 1) + 6) + 2 * On(bits, 8 * (b - 1) + 7) + On(bits, 8 * (b - 1) + 8)
  BY DEF ModeByte, On

\* A byte put together from eight bits, and the bits taken out of it.
Weighted(x) == 128 * x[1] + 64 * x[2] + 32 * x[3] + 16 * x[4] + 8 * x[5] + 4 * x[6] + 2 * x[7] + x[8]
Digits(m, x) ==
    /\ m \in 0 .. 255
    /\ (m \div 128) % 2 = x[1] /\ (m \div 64) % 2 = x[2] /\ (m \div 32) % 2 = x[3]
    /\ (m \div 16) % 2 = x[4] /\ (m \div 8) % 2 = x[5] /\ (m \div 4) % 2 = x[6]
    /\ (m \div 2) % 2 = x[7] /\ (m \div 1) % 2 = x[8]

LEMMA SumOfBits ==
    ASSUME NEW x
    PROVE  (\A i \in 1 .. 8 : x[i] \in 0 .. 1) => Digits(Weighted(x), x)
<1>0. PICK m : m = Weighted(x)
  OBVIOUS
<1>1. HAVE \A i \in 1 .. 8 : x[i] \in 0 .. 1
<1>2. PICK a \in 0 .. 1, b \in 0 .. 1, c \in 0 .. 1, d \in 0 .. 1,
           e \in 0 .. 1, f \in 0 .. 1, g \in 0 .. 1, h \in 0 .. 1 :
                                    /\ a = x[1] /\ b = x[2] /\ c = x[3] /\ d = x[4]
                                    /\ e = x[5] /\ f = x[6] /\ g = x[7] /\ h = x[8]
  <2>1. /\ x[1] \in 0 .. 1 /\ x[2] \in 0 .. 1 /\ x[3] \in 0 .. 1 /\ x[4] \in 0 .. 1
        /\ x[5] \in 0 .. 1 /\ x[6] \in 0 .. 1 /\ x[7] \in 0 .. 1 /\ x[8] \in 0 .. 1
    BY <1>1
  <2> QED
    BY <2>1
<1>3. m = 128 * a + 64 * b + 32 * c + 16 * d + 8 * e + 4 * f + 2 * g + h
  BY <1>0, <1>2 DEF Weighted
<1>4. m \in 0 .. 255
  BY <1>3
<1>5. (m \div 128) % 2 = a
  BY <1>3
<1>6. (m \div 64) % 2 = b
  BY <1>3
<1>7. (m \div 32) % 2 = c
  BY <1>3
<1>8. (m \div 16) % 2 = d
  BY <1>3
<1>9. (m \div 8) % 2 = e
  BY <1>3
<1>10. (m \div 4) % 2 = f
  BY <1>3
<1>11. (m \div 2) % 2 = g
  BY <1>3
<1>12. (m \div 1) % 2 = h
  BY <1>3
<1> QED
  BY <1>0, <1>2, <1>4, <1>5, <1>6, <1>7, <1>8, <1>9, <1>10, <1>11, <1>12 DEF Digits

LEMMA OnIsBit ==
    ASSUME NEW bits, NEW i
    PROVE  On(bits, i) \in 0 .. 1
  BY DEF On

LEMMA ModeByteBits ==
    ASSUME NEW bits, NEW b \in Nat \ {0}
    PROVE  /\ ModeByte(bits, b) \in Byte
           /\ \A j \in 1 .. 8 : (ModeByte(bits, b) \div Weight[j]) % 2 = On(bits, 8 * (b - 1) + j)
<1>1. PICK m : m = ModeByte(bits, b)
  OBVIOUS
<1>2. PICK x \in [1 .. 8 -> 0 .. 1] : x = [j \in 1 .. 8 |-> On(bits, 8 * (b - 1) + j)]
  BY OnIsBit
<1>3. m = Weighted(x)
  <2>1. /\ On(bits, 8 * (b - 1) + 1) = x[1] /\ On(bits, 8 * (b - 1) + 2) = x[2]
        /\ On(bits, 8 * (b - 1) + 3) = x[3] /\ On(bits, 8 * (b - 1) + 4) = x[4]
        /\ On(bits, 8 * (b - 1) + 5) = x[5] /\ On(bits, 8 * (b - 1) + 6) = x[6]
        /\ On(bits, 8 * (b - 1) + 7) = x[7] /\ On(bits, 8 * (b - 1) + 8) = x[8]
    BY <1>2
  <2> QED
    BY <1>1, <2>1, ModeByteOf DEF Weighted
<1>4. Digits(m, x)
  <2>1. \A i \in 1 .. 8 : x[i] \in 0 .. 1
    OBVIOUS
  <2> QED
    BY <1>3, <2>1, SumOfBits, Zenon
<1>5. /\ Weight[1] = 128 /\ Weight[2] = 64 /\ Weight[3] = 32 /\ Weight[4] = 16
      /\ Weight[5] = 8 /\ Weight[6] = 4 /\ Weight[7] = 2 /\ Weight[8] = 1
  BY DEF Weight
<1>6. ASSUME NEW j \in 1 .. 8 PROVE (m \div Weight[j]) % 2 = x[j]
  <2>1. CASE j = 1
    BY <1>4, <1>5, <2>1 DEF Digits
  <2>2. CASE j = 2
    BY <1>4, <1>5, <2>2 DEF Digits
  <2>3. CASE j = 3
    BY <1>4, <1>5, <2>3 DEF Digits
  <2>4. CASE j = 4
    BY <1>4, <1>5, <2>4 DEF Digits
  <2>5. CASE j = 5
    BY <1>4, <1>5, <2>5 DEF Digits
  <2>6. CASE j = 6
    BY <1>4, <1>5, <2>6 DEF Digits
  <2>7. CASE j = 7
    BY <1>4, <1>5, <2>7 DEF Digits
  <2>8. CASE j = 8
    BY <1>4, <1>5, <2>8 DEF Digits
  <2> QED
    BY <2>1, <2>2, <2>3, <2>4, <2>5, <2>6, <2>7, <2>8
<1> QED
  <2>1. m \in 0 .. 255
    BY <1>4 DEF Digits
  <2> QED
    BY <1>1, <1>2, <1>6, <2>1 DEF Byte

\* The mode bytes modes tell the bits: either there are none and no bit is
\* set, or there are enough of them.
Carries(modes, bits) ==
    \/ modes = << >> /\ ~ check_complex_mode(bits)
    \/ /\ modes \in Seq(Byte)
       /\ \A b \in 1 .. (Len(bits) + 7) \div 8 : b <= Len(modes) /\ modes[b] = ModeByte(bits, b)

LEMMA BitsTold ==
    ASSUME NEW bits \in Seq(BOOLEAN), NEW modes, Carries(modes, bits), NEW i \in 1 .. Len(bits)
    PROVE  Bit(modes, i) = bits[i]
<1>1. PICK n \in Nat : n = Len(bits) /\ DOMAIN bits = 1 .. n
  OBVIOUS
<1>2. bits[i] \in BOOLEAN /\ i \in 1 .. n /\ i \in Nat
  BY <1>1
<1>3. PICK b \in Nat \ {0}, j \in 1 .. 8 : b = (i + 7) \div 8 /\ j = 1 + ((i - 1) % 8) /\ i = 8 * (b - 1) + j
  BY <1>2
<1>4. CASE modes = << >> /\ ~ check_complex_mode(bits)
  <2>1. bits[i] = FALSE
    BY <1>1, <1>2, <1>4 DEF check_complex_mode
  <2>2. Bit(modes, i) = FALSE
    BY <1>3, <1>4 DEF Bit
  <2> QED
    BY <2>1, <2>2
<1>5. CASE /\ modes \in Seq(Byte)
           /\ \A k \in 1 .. (Len(bits) + 7) \div 8 : k <= Len(modes) /\ modes[k] = ModeByte(bits, k)
  <2>1. b \in 1 .. (n + 7) \div 8
    BY <1>2, <1>3
  <2>2. b <= Len(modes) /\ modes[b] = ModeByte(bits, b)
    BY <1>1, <1>5, <2>1
  <2>3. (modes[b] \div Weight[j]) % 2 = On(bits, i)
    BY <1>3, <2>2, ModeByteBits
  <2>4. Bit(modes, i) = (On(bits, i) = 1)
    BY <1>3, <2>2, <2>3 DEF Bit
  <2>5. On(bits, i) = IF bits[i] THEN 1 ELSE 0
    BY <1>1, <1>2 DEF On
  <2> QED
    BY <1>2, <2>4, <2>5
<1> QED
  BY <1>4, <1>5 DEF Carries

-----------------------------------------------------------------------------
(***************************************************************************)
(* The two shapes of an instruction.                                       *)
(***************************************************************************)
LEMMA ModeByteIsByte ==
    ASSUME NEW bits, NEW b \in Nat \ {0}
    PROVE  ModeByte(bits, b) \in Byte
  BY ModeByteBits

LEMMA OpcodeBytes ==
    ASSUME NEW op \in 0 .. 127, NEW bits
    PROVE  Opcode(op, bits) \in Seq(Byte) /\ Len(Opcode(op, bits)) \in 1 .. 2
<1>1. PICK m \in Byte : m = ModeByte(bits, 1)
  BY ModeByteIsByte
<1>2. op \in Byte /\ op + 128 \in Byte
  BY DEF Byte
<1>3. CASE check_complex_mode(bits)
  <2>1. Opcode(op, bits) = << op + 128, m >>
    BY <1>1, <1>3 DEF Opcode
  <2>2. << op + 128, m >> \in Seq(Byte) /\ Len(<< op + 128, m >>) = 2
    BY <1>2, FewBytes
  <2> QED
    BY <2>1, <2>2
<1>4. CASE ~ check_complex_mode(bits)
  <2>1. Opcode(op, bits) = << op >>
    BY <1>4 DEF Opcode
  <2>2. << op >> \in Seq(Byte) /\ Len(<< op >>) = 1
    BY <1>2, FewBytes
  <2> QED
    BY <2>1, <2>2
<1> QED
  BY <1>3, <1>4

\* What the decoder makes of the opcode and the first mode byte.
LEMMA OpcodeFound ==
    ASSUME code \in Seq(Byte), NEW p \in Nat \ {0}, NEW op \in 0 .. 127, NEW bits, Holds(code, p, Opcode(op, bits))
    PROVE  /\ code[p] % 128 = op /\ p <= Len(code)
           /\ code[p] >= 128 <=> check_complex_mode(bits)
           /\ Mode(p) = IF check_complex_mode(bits) THEN << ModeByte(bits, 1) >> ELSE << >>
           /\ Body(p) = p + Len(Opcode(op, bits))
<1>1. PICK m \in Byte : m = ModeByte(bits, 1)
  BY ModeByteIsByte
<1>2. op \in Byte /\ op + 128 \in Byte
  BY DEF Byte
<1>3. CASE check_complex_mode(bits)
  <2>1. Opcode(op, bits) = << op + 128, m >>
    BY <1>1, <1>3 DEF Opcode
  <2>3. << m >> \in Seq(Byte) /\ Len(<< m >>) = 1
    BY FewBytes
  <2>4. Holds(code, p, << op + 128, m >>)
    BY <2>1
  <2>5. code[p] = op + 128 /\ Holds(code, p + 1, << m >>)
    BY <2>4, HoldsTwo
  <2>6. code[p] = op + 128 /\ p <= Len(code)
    BY <2>4, <2>5, HoldsTwo
  <2>7. code[p] >= 128 /\ code[p] % 128 = op
    BY <2>6
  <2>8. p + 1 \in Nat \ {0}
    OBVIOUS
  <2>9. Bytes(p + 1, 1) = << m >>
    BY <2>3, <2>5, <2>8, BytesHeld
  <2>10. Mode(p) = << m >>
    BY <2>7, <2>9 DEF Mode
  <2>11. Body(p) = p + 2 /\ Len(Opcode(op, bits)) = 2
    BY <2>1, <2>3, <2>10, FewBytes DEF Body
  <2> QED
    BY <1>1, <1>3, <2>6, <2>7, <2>10, <2>11
<1>4. CASE ~ check_complex_mode(bits)
  <2>1. Opcode(op, bits) = << op >>
    BY <1>4 DEF Opcode
  <2>2. code[p] = op /\ p <= Len(code)
    BY <2>1, HoldsByte
  <2>3. ~ (code[p] >= 128) /\ code[p] % 128 = op
    BY <2>2
  <2>4. Mode(p) = << >>
    BY <2>3 DEF Mode
  <2>5. Body(p) = p + 1 /\ Len(Opcode(op, bits)) = 1
    BY <2>1, <2>4 DEF Body
  <2> QED
    BY <1>4, <2>2, <2>3, <2>4, <2>5
<1> QED
  BY <1>3, <1>4

LEMMA InstructionBytes ==
    ASSUME NEW op \in 0 .. 127, NEW ops, Operable(ops)
    PROVE  /\ emit_instruction(op, ops) \in Seq(Byte) /\ Len(emit_instruction(op, ops)) >= 1
           /\ Len(emit_instruction(op, ops)) = Len(Opcode(op, Bits(ops))) + Len(Operands(ops))
<1>1. PICK a \in Seq(Byte), b \in Seq(Byte) : a = Opcode(op, Bits(ops)) /\ b = Operands(ops)
  BY OpcodeBytes, OperandsBytes
<1>2. emit_instruction(op, ops) = a \o b
  BY <1>1 DEF emit_instruction
<1>3. a \o b \in Seq(Byte) /\ Len(a \o b) = Len(a) + Len(b) /\ Len(a) >= 1 /\ Len(a) \in Nat /\ Len(b) \in Nat
  BY <1>1, Joined, OpcodeBytes, BytesFacts, SMTT(60)
<1> QED
  BY <1>1, <1>2, <1>3

\* The mode bytes carry the bits of the operands, whichever they are.
LEMMA ModesTellOps ==
    ASSUME NEW ops, Operable(ops), NEW modes, Carries(modes, Bits(ops))
    PROVE  ModesTell(modes, ops)
<1>1. Len(ops) \in Nat
  BY SequenceFacts DEF Operable
<1>2. ASSUME NEW i \in 1 .. Len(ops) PROVE Bit(modes, i) = needs_extended_encoding(ops[i])
  <2>1. Bits(ops) \in Seq(BOOLEAN) /\ Len(Bits(ops)) = Len(ops) /\ Bits(ops)[i] = needs_extended_encoding(ops[i])
    BY BitsFacts
  <2>2. Bit(modes, i) = Bits(ops)[i]
    BY <2>1, BitsTold
  <2> QED
    BY <2>1, <2>2
<1> QED
  BY <1>2 DEF ModesTell

\* emit_instruction against the loop over a fixed number of operands.
LEMMA PlainFound ==
    ASSUME code \in Seq(Byte), NEW p \in Nat \ {0}, NEW op \in 0 .. 127, NEW ops, Operable(ops), Len(ops) <= 8,
           Holds(code, p, emit_instruction(op, ops))
    PROVE  /\ code[p] % 128 = op
           /\ ReadPlain(p, Len(ops)) = [ops |-> ShownAll(ops), next |-> p + Len(emit_instruction(op, ops))]
<1>0. PICK bits : bits = Bits(ops)
  OBVIOUS
<1>1. PICK a \in Seq(Byte), b \in Seq(Byte) : a = Opcode(op, bits) /\ b = Operands(ops) /\ bits = Bits(ops)
  BY <1>0, OpcodeBytes, OperandsBytes
<1>2. Holds(code, p, a \o b)
  BY <1>1 DEF emit_instruction
<1>3. Holds(code, p, a) /\ Holds(code, p + Len(a), b)
  BY <1>2, HoldsBoth
<1>4. PICK la, lb \in Nat : la = Len(a) /\ lb = Len(b)
  BY BytesFacts
<1>5. /\ code[p] % 128 = op
      /\ Mode(p) = IF check_complex_mode(bits) THEN << ModeByte(bits, 1) >> ELSE << >>
      /\ Body(p) = p + la
  BY <1>1, <1>3, <1>4, OpcodeFound
<1>6. Carries(Mode(p), bits)
  <2>1. CASE check_complex_mode(bits)
    <3>1. PICK m \in Byte : m = ModeByte(bits, 1)
      BY ModeByteIsByte
    <3>2. Mode(p) = << m >>
      BY <1>5, <2>1, <3>1
    <3>3. << m >> \in Seq(Byte) /\ Len(<< m >>) = 1 /\ << m >>[1] = m
      BY FewBytes
    <3>4. Len(bits) = Len(ops) /\ Len(ops) \in Nat
      BY <1>1, BitsFacts, SequenceFacts DEF Operable
    <3>5. ASSUME NEW k \in 1 .. (Len(bits) + 7) \div 8 PROVE k = 1
      BY <3>4
    <3> QED
      BY <3>1, <3>2, <3>3, <3>5 DEF Carries
  <2>2. CASE ~ check_complex_mode(bits)
    BY <1>5, <2>2 DEF Carries
  <2> QED
    BY <2>1, <2>2
<1>7. ModesTell(Mode(p), ops)
  BY <1>1, <1>6, ModesTellOps
<1>8. p + la \in Nat \ {0}
  OBVIOUS
<1>9. ReadOperands(p + la, Len(ops), Mode(p)) = [ops |-> ShownAll(ops), next |-> (p + la) + lb]
  BY <1>1, <1>3, <1>4, <1>7, <1>8, OperandsFound
<1>10. Len(emit_instruction(op, ops)) = la + lb
  BY <1>1, <1>4, InstructionBytes
<1>11. (p + la) + lb = p + (la + lb)
  OBVIOUS
<1> QED
  BY <1>5, <1>9, <1>10, <1>11 DEF ReadPlain

\* A count between the mode bytes: those after the first follow it.
Extra(bits) == IF check_complex_mode(bits) /\ Len(bits) > 8 THEN ModeBytes(bits, 2) ELSE << >>
CountedForm(op, n, ops) == Opcode(op, Bits(ops)) \o << n >> \o Extra(Bits(ops)) \o Operands(ops)

LEMMA ExtraBytes ==
    ASSUME NEW bits \in Seq(BOOLEAN)
    PROVE  /\ Extra(bits) \in Seq(Byte)
           /\ check_complex_mode(bits) /\ Len(bits) > 8 =>
                 /\ Len(Extra(bits)) = (Len(bits) - 1) \div 8
                 /\ \A b \in 2 .. (Len(bits) + 7) \div 8 :
                        b - 1 <= Len(Extra(bits)) /\ Extra(bits)[b - 1] = ModeByte(bits, b)
<1>1. PICK n \in Nat : n = Len(bits)
  OBVIOUS
<1>2. CASE check_complex_mode(bits) /\ n > 8
  <2>1. Extra(bits) = ModeBytes(bits, 2)
    BY <1>1, <1>2 DEF Extra
  <2>2. PICK k \in Nat : k = (n - 1) \div 8 /\ k = ((n + 7) \div 8) - 2 + 1
    BY <1>2
  <2>3. ModeBytes(bits, 2) = [i \in 1 .. k |-> ModeByte(bits, 2 + i - 1)]
    BY <1>1, <2>2 DEF ModeBytes
  <2>4. \A i \in 1 .. k : ModeByte(bits, 2 + i - 1) \in Byte
    <3> TAKE i \in 1 .. k
    <3>1. 2 + i - 1 \in Nat \ {0}
      OBVIOUS
    <3> QED
      BY <3>1, ModeByteIsByte
  <2>5. ModeBytes(bits, 2) \in Seq(Byte) /\ Len(ModeBytes(bits, 2)) = k
    BY <2>2, <2>3, <2>4
  <2>6. ASSUME NEW b \in 2 .. (n + 7) \div 8
        PROVE  b - 1 <= k /\ ModeBytes(bits, 2)[b - 1] = ModeByte(bits, b)
    <3>1. b - 1 \in 1 .. k /\ 2 + (b - 1) - 1 = b
      BY <1>1, <2>2
    <3> QED
      BY <2>3, <3>1
  <2> QED
    BY <1>1, <2>1, <2>2, <2>5, <2>6
<1>3. CASE ~ (check_complex_mode(bits) /\ n > 8)
  <2>1. Extra(bits) = << >>
    BY <1>1, <1>3 DEF Extra
  <2>2. << >> \in Seq(Byte)
    OBVIOUS
  <2> QED
    BY <1>1, <1>3, <2>1, <2>2
<1> QED
  BY <1>2, <1>3

LEMMA CountedBytes ==
    ASSUME NEW op \in 0 .. 127, NEW n \in Byte, NEW ops, Operable(ops)
    PROVE  /\ CountedForm(op, n, ops) \in Seq(Byte) /\ Len(CountedForm(op, n, ops)) >= 1
           /\ Len(CountedForm(op, n, ops))
                = Len(Opcode(op, Bits(ops))) + 1 + Len(Extra(Bits(ops))) + Len(Operands(ops))
<1>1. PICK bits \in Seq(BOOLEAN) : bits = Bits(ops)
  BY BitsFacts
<1>2. PICK a \in Seq(Byte), b \in Seq(Byte), x \in Seq(Byte) :
         a = Opcode(op, bits) /\ b = Operands(ops) /\ x = Extra(bits)
  BY OpcodeBytes, OperandsBytes, ExtraBytes
<1>3. << n >> \in Seq(Byte) /\ Len(<< n >>) = 1
  BY FewBytes
<1>4. a \o << n >> \in Seq(Byte) /\ Len(a \o << n >>) = Len(a) + 1
  BY <1>3, Joined
<1>5. (a \o << n >>) \o x \in Seq(Byte) /\ Len((a \o << n >>) \o x) = Len(a) + 1 + Len(x)
  BY <1>4, Joined
<1>6. ((a \o << n >>) \o x) \o b \in Seq(Byte) /\ Len(((a \o << n >>) \o x) \o b) = Len(a) + 1 + Len(x) + Len(b)
  BY <1>5, Joined
<1>7. Len(a) >= 1 /\ Len(a) \in Nat /\ Len(b) \in Nat /\ Len(x) \in Nat
  <2>1. Len(a) \in 1 .. 2
    BY <1>2, OpcodeBytes
  <2>2. Len(a) \in Nat /\ Len(b) \in Nat /\ Len(x) \in Nat
    BY BytesFacts
  <2>3. \A l \in 1 .. 2 : l >= 1
    OBVIOUS
  <2> QED
    BY <2>1, <2>2, <2>3, Zenon
<1>8. CountedForm(op, n, ops) = ((a \o << n >>) \o x) \o b
  BY <1>1, <1>2 DEF CountedForm
<1> QED
  BY <1>1, <1>2, <1>6, <1>7, <1>8

\* A counted instruction against the loop over as many operands as the count
\* byte says.
LEMMA CountedFound ==
    ASSUME code \in Seq(Byte), NEW p \in Nat \ {0}, NEW op \in 0 .. 127, NEW n \in Byte, NEW ops, Operable(ops),
           SpecialCount(op, n) = Len(ops), Holds(code, p, CountedForm(op, n, ops))
    PROVE  /\ code[p] % 128 = op
           /\ Bytes(Body(p), 1) = << n >>
           /\ ReadCounted(p) = [ops |-> ShownAll(ops), next |-> p + Len(CountedForm(op, n, ops))]
<1>1. PICK bits \in Seq(BOOLEAN), k \in Nat : bits = Bits(ops) /\ k = Len(ops) /\ k = Len(bits)
  BY BitsFacts, SequenceFacts DEF Operable
<1>2. PICK a \in Seq(Byte), b \in Seq(Byte), x \in Seq(Byte) :
         a = Opcode(op, bits) /\ b = Operands(ops) /\ x = Extra(bits)
  BY OpcodeBytes, OperandsBytes, ExtraBytes
<1>3. << n >> \in Seq(Byte) /\ Len(<< n >>) = 1
  BY FewBytes
<1>4. a \o << n >> \in Seq(Byte) /\ Len(a \o << n >>) = Len(a) + 1
  BY <1>3, Joined
<1>5. (a \o << n >>) \o x \in Seq(Byte) /\ Len((a \o << n >>) \o x) = Len(a) + 1 + Len(x)
  BY <1>4, Joined
<1>6. PICK la \in Nat, lb \in Nat, lx \in Nat : la = Len(a) /\ lb = Len(b) /\ lx = Len(x)
  BY BytesFacts
<1>7. Holds(code, p, ((a \o << n >>) \o x) \o b)
  BY <1>1, <1>2 DEF CountedForm
<1>8. Holds(code, p, (a \o << n >>) \o x) /\ Holds(code, p + (la + 1 + lx), b)
  BY <1>5, <1>6, <1>7, HoldsBoth
<1>9. Holds(code, p, a \o << n >>) /\ Holds(code, p + (la + 1), x)
  BY <1>4, <1>6, <1>8, HoldsBoth
<1>10. Holds(code, p, a) /\ Holds(code, p + la, << n >>)
  BY <1>3, <1>6, <1>9, HoldsBoth
<1>11. /\ code[p] % 128 = op
       /\ code[p] >= 128 <=> check_complex_mode(bits)
       /\ Mode(p) = IF check_complex_mode(bits) THEN << ModeByte(bits, 1) >> ELSE << >>
       /\ Body(p) = p + la
  BY <1>2, <1>6, <1>10, OpcodeFound
<1>12. p + la \in Nat \ {0} /\ p + (la + 1) \in Nat \ {0} /\ p + (la + 1 + lx) \in Nat \ {0}
  OBVIOUS
<1>13. Bytes(p + la, 1) = << n >> /\ At8(p + la) = n
  BY <1>3, <1>10, <1>12, BytesHeld, At8Held
<1>14. SpecialCount(code[p] % 128, At8(Body(p))) = k
  BY <1>1, <1>11, <1>13
<1>15. x = IF code[p] >= 128 /\ k > 8 THEN Bytes(Body(p) + 1, (k - 1) \div 8) ELSE << >>
  <2>1. CASE check_complex_mode(bits) /\ k > 8
    <3>1. lx = (k - 1) \div 8
      BY <1>1, <1>2, <1>6, <2>1, ExtraBytes
    <3>2. Bytes(p + (la + 1), lx) = x
      BY <1>6, <1>9, <1>12, BytesHeld
    <3>3. Body(p) + 1 = p + (la + 1)
      BY <1>11
    <3> QED
      BY <1>11, <2>1, <3>1, <3>2, <3>3
  <2>2. CASE ~ (check_complex_mode(bits) /\ k > 8)
    BY <1>1, <1>2, <1>11, <2>2 DEF Extra
  <2> QED
    BY <2>1, <2>2
<1>16. Carries(Mode(p) \o x, bits)
  <2>1. CASE check_complex_mode(bits)
    <3>1. PICK m \in Byte : m = ModeByte(bits, 1)
      BY ModeByteIsByte
    <3>2. Mode(p) = << m >>
      BY <1>11, <2>1, <3>1
    <3>3. << m >> \in Seq(Byte) /\ Len(<< m >>) = 1 /\ << m >>[1] = m
      BY FewBytes
    <3>4. PICK y : y = << m >> \o x
      OBVIOUS
    <3>5. y \in Seq(Byte) /\ Len(y) = 1 + lx /\ y[1] = m /\ \A i \in 1 .. lx : y[1 + i] = x[i]
      <4>1. 1 \in 1 .. 1
        OBVIOUS
      <4> QED
        BY <1>6, <3>3, <3>4, <4>1, Joined
    <3>6. ASSUME NEW c \in 1 .. (k + 7) \div 8 PROVE c <= Len(y) /\ y[c] = ModeByte(bits, c)
      <4>1. CASE c = 1
        BY <3>1, <3>5, <4>1
      <4>2. CASE c # 1
        <5>1. c \in 2 .. (k + 7) \div 8 /\ k > 8
          BY <4>2
        <5>2. c - 1 <= lx /\ x[c - 1] = ModeByte(bits, c)
          BY <1>1, <1>2, <1>6, <2>1, <5>1, ExtraBytes
        <5>3. c - 1 \in 1 .. lx /\ 1 + (c - 1) = c
          BY <5>1, <5>2
        <5> QED
          BY <3>5, <5>2, <5>3
      <4> QED
        BY <4>1, <4>2
    <3> QED
      BY <1>1, <3>2, <3>4, <3>5, <3>6 DEF Carries
  <2>2. CASE ~ check_complex_mode(bits)
    <3>1. Mode(p) = << >> /\ x = << >>
      BY <1>2, <1>11, <2>2 DEF Extra
    <3> QED
      BY <2>2, <3>1 DEF Carries
  <2> QED
    BY <2>1, <2>2
<1>17. ModesTell(Mode(p) \o x, ops)
  BY <1>1, <1>16, ModesTellOps
<1>18. ReadOperands(p + (la + 1 + lx), k, Mode(p) \o x) = [ops |-> ShownAll(ops), next |-> (p + (la + 1 + lx)) + lb]
  <2>0. PICK ms : ms = Mode(p) \o x
    OBVIOUS
  <2>1. PICK q \in Nat \ {0} : q = p + (la + 1 + lx) /\ ms = Mode(p) \o x
    BY <1>12, <2>0
  <2>2. ModesTell(ms, ops) /\ Holds(code, q, Operands(ops)) /\ Len(Operands(ops)) = lb
    BY <1>2, <1>6, <1>8, <1>17, <2>1
  <2>3. ReadOperands(q, Len(ops), ms) = [ops |-> ShownAll(ops), next |-> q + Len(Operands(ops))]
    BY <2>2, OperandsFound
  <2> QED
    BY <1>1, <2>1, <2>2, <2>3
<1>19. Body(p) + 1 + lx = p + (la + 1 + lx)
  BY <1>11
<1>20. ReadCounted(p) = ReadOperands(Body(p) + 1 + lx, k, Mode(p) \o x)
  BY <1>6, <1>14, <1>15, Zenon DEF ReadCounted
<1>21. Len(CountedForm(op, n, ops)) = la + 1 + lx + lb
  BY <1>1, <1>2, <1>6, CountedBytes
<1>22. (p + (la + 1 + lx)) + lb = p + (la + 1 + lx + lb)
  OBVIOUS
<1> QED
  BY <1>11, <1>13, <1>18, <1>19, <1>20, <1>21, <1>22

-----------------------------------------------------------------------------
(***************************************************************************)
(* Every way an instruction is written is one of the two shapes.           *)
(***************************************************************************)
LEMMA NothingMore ==
    ASSUME NEW a \in Seq(Byte)
    PROVE  a \o << >> = a /\ << >> \o a = a
  BY EmptySeq, ConcatEmptySeq

LEMMA ByteAgain ==
    ASSUME NEW n \in Byte
    PROVE  n % 256 = n
<1>1. \A m \in 0 .. 255 : m % 256 = m
  OBVIOUS
<1> QED
  BY <1>1, Zenon DEF Byte

LEMMA CountedWritten ==
    ASSUME NEW op \in 0 .. 127, NEW n \in Byte, NEW ops, Operable(ops), Len(ops) <= 8
    PROVE  emit_counted(op, n, ops) = CountedForm(op, n, ops)
<1>1. PICK a \in Seq(Byte), bits \in Seq(BOOLEAN) : a = Opcode(op, bits) /\ bits = Bits(ops) /\ Len(bits) = Len(ops)
  BY BitsFacts, OpcodeBytes
<1>2. ~ (Len(bits) > 8)
  <2>1. Len(bits) \in Nat
    OBVIOUS
  <2> QED
    BY <1>1, <2>1
<1>3. Extra(bits) = << >>
  BY <1>2 DEF Extra
<1>4. << n >> \in Seq(Byte)
  BY FewBytes
<1>5. a \o << n >> \in Seq(Byte)
  BY <1>4, Joined
<1>6. (a \o << n >>) \o << >> = a \o << n >>
  BY <1>5, NothingMore
<1>7. n % 256 = n
  BY ByteAgain
<1> QED
  BY <1>1, <1>3, <1>6, <1>7 DEF emit_counted, CountedForm

LEMMA FirstModeByte ==
    ASSUME NEW bits, NEW n \in 1 .. 8, Len(bits) = n
    PROVE  ModeBytes(bits, 1) = << ModeByte(bits, 1) >> /\ ModeBytes(bits, 2) = << >>
<1>1. ((n + 7) \div 8) - 1 + 1 = 1 /\ ((n + 7) \div 8) - 2 + 1 = 0
  OBVIOUS
<1>2. ModeBytes(bits, 1) = [i \in 1 .. 1 |-> ModeByte(bits, 1 + i - 1)]
  BY <1>1 DEF ModeBytes
<1>3. [i \in 1 .. 1 |-> ModeByte(bits, 1 + i - 1)] = << ModeByte(bits, 1) >>
  <2>1. \A i \in 1 .. 1 : 1 + i - 1 = 1
    OBVIOUS
  <2>2. [i \in 1 .. 1 |-> ModeByte(bits, 1 + i - 1)] = [i \in 1 .. 1 |-> ModeByte(bits, 1)]
    BY <2>1
  <2>3. [i \in 1 .. 1 |-> ModeByte(bits, 1)] = << ModeByte(bits, 1) >>
    OBVIOUS
  <2> QED
    BY <2>2, <2>3
<1>4. ModeBytes(bits, 2) = [i \in 1 .. 0 |-> ModeByte(bits, 2 + i - 1)]
  BY <1>1 DEF ModeBytes
<1>5. [i \in 1 .. 0 |-> ModeByte(bits, 2 + i - 1)] = << >>
  OBVIOUS
<1> QED
  BY <1>2, <1>3, <1>4, <1>5

LEMMA TwoInOne ==
    ASSUME NEW x, NEW y
    PROVE  << x >> \o << y >> = << x, y >>
<1>1. << x >> \in Seq({x, y}) /\ << y >> \in Seq({x, y}) /\ << x, y >> \in Seq({x, y})
  OBVIOUS
<1>2. Len(<< x >>) = 1 /\ Len(<< y >>) = 1 /\ Len(<< x, y >>) = 2 /\ << x >>[1] = x /\ << y >>[1] = y
  OBVIOUS
<1>3. PICK s : s = << x >> \o << y >>
  OBVIOUS
<1>4. s \in Seq({x, y}) /\ Len(s) = 2 /\ \A i \in 1 .. 2 : s[i] = IF i <= 1 THEN << x >>[i] ELSE << y >>[i - 1]
  BY <1>1, <1>2, <1>3, ConcatProperties
<1>5. s[1] = x /\ s[2] = y
  BY <1>2, <1>4
<1>6. \A i \in 1 .. 2 : s[i] = << x, y >>[i]
  BY <1>5
<1> QED
  BY <1>1, <1>2, <1>3, <1>4, <1>6, SeqEqual

\* A set bit belongs to an operand.
LEMMA SetBit ==
    ASSUME NEW bits \in Seq(BOOLEAN), check_complex_mode(bits)
    PROVE  Len(bits) \in Nat \ {0}
  BY DEF check_complex_mode

LEMMA VarWritten ==
    ASSUME NEW op \in 0 .. 127, NEW ops, Operable(ops), Room(ops)
    PROVE  /\ Len(ops) \in Byte
           /\ emit_var_instruction(op, ops) = CountedForm(op, Len(ops), ops)
<1>1. PICK bits \in Seq(BOOLEAN), n \in Nat : bits = Bits(ops) /\ Len(bits) = n /\ n = Len(ops)
  BY BitsFacts, SequenceFacts DEF Operable
<1>2. n <= 255 /\ (n > 8 => ~ check_complex_mode(bits))
  BY <1>1 DEF Room
<1>3. n \in Byte /\ n % 256 = n
  BY <1>2 DEF Byte
<1>4. PICK a \in Seq(Byte) : a = Opcode(op, bits)
  BY OpcodeBytes
<1>5. (IF check_complex_mode(bits) THEN << op + 128 >> \o ModeBytes(bits, 1) ELSE << op >>) = a
  <2>1. CASE check_complex_mode(bits)
    <3>1. n \in 1 .. 8
      <4>1. n \in Nat \ {0}
        BY <1>1, <2>1, SetBit, Zenon
      <4> QED
        BY <1>2, <2>1, <4>1
    <3>2. << op + 128 >> \o ModeBytes(bits, 1) = << op + 128, ModeByte(bits, 1) >>
      BY <1>1, <3>1, FirstModeByte, TwoInOne
    <3> QED
      BY <1>4, <2>1, <3>2 DEF Opcode
  <2>2. CASE ~ check_complex_mode(bits)
    BY <1>4, <2>2 DEF Opcode
  <2> QED
    BY <2>1, <2>2
<1>6. Extra(bits) = << >>
  BY <1>1, <1>2 DEF Extra
<1>7. a \o << n >> \in Seq(Byte)
  BY <1>3, FewBytes, Joined
<1>8. (a \o << n >>) \o << >> = a \o << n >>
  BY <1>7, NothingMore
<1>9. emit_var_instruction(op, ops) = a \o << n >> \o Operands(ops)
  BY <1>1, <1>3, <1>5, Zenon DEF emit_var_instruction
<1>10. CountedForm(op, n, ops) = a \o << n >> \o Operands(ops)
  BY <1>1, <1>4, <1>6, <1>8 DEF CountedForm
<1> QED
  BY <1>1, <1>3, <1>9, <1>10

LEMMA FormatWritten ==
    ASSUME NEW ops, Operable(ops), Len(ops) % 3 = 1, Len(ops) \div 3 <= 255, NEW c, c = (Len(ops) - 1) \div 3
    PROVE  c \in Byte /\ SpecialCount(52, c) = Len(ops) /\ gen_make_format(ops) = CountedForm(52, c, ops)
<1>1. PICK bits \in Seq(BOOLEAN), n \in Nat : bits = Bits(ops) /\ Len(bits) = n /\ n = Len(ops)
  BY BitsFacts, SequenceFacts DEF Operable
<1>2. c \in Byte /\ 3 * c + 1 = n
  <2>1. n % 3 = 1 /\ n \div 3 <= 255 /\ c = (n - 1) \div 3
    BY <1>1
  <2>2. PICK m \in 0 .. 255 : n = 3 * m + 1
    <3>1. n = 3 * (n \div 3) + 1 /\ n \div 3 \in 0 .. 255
      BY <2>1
    <3> QED
      BY <3>1
  <2>3. c = m
    BY <2>1, <2>2
  <2> QED
    BY <2>2, <2>3 DEF Byte
<1>3. SpecialCount(52, c) = n
  BY <1>2 DEF SpecialCount
<1>4. (IF check_complex_mode(bits) THEN ModeBytes(bits, 2) ELSE << >>) = Extra(bits)
  <2>1. CASE check_complex_mode(bits) /\ ~ (n > 8)
    <3>1. n \in 1 .. 8
      <4>1. n \in Nat \ {0}
        BY <1>1, <2>1, SetBit, Zenon
      <4> QED
        BY <2>1, <4>1
    <3> QED
      BY <1>1, <2>1, <3>1, FirstModeByte DEF Extra
  <2>2. CASE ~ (check_complex_mode(bits) /\ ~ (n > 8))
    BY <1>1, <2>2 DEF Extra
  <2> QED
    BY <2>1, <2>2
<1>5. gen_make_format(ops) = CountedForm(52, c, ops)
  BY <1>1, <1>4, Zenon DEF gen_make_format, CountedForm
<1> QED
  BY <1>1, <1>2, <1>3, <1>5

\* The operands but the last.
LEMMA Front1 ==
    ASSUME NEW s, IsSequence(s), NEW n \in Nat \ {0}, n = Len(s)
    PROVE  /\ IsSequence(Front(s)) /\ Len(Front(s)) = n - 1
           /\ \A i \in 1 .. n - 1 : Front(s)[i] = s[i]
<1>1. PICK T : s \in Seq(T)
  BY DEF IsSequence
<1>2. Front(s) = [i \in 1 .. n - 1 |-> s[i]]
  <2>1. Front(s) = SubSeq(s, 1, n - 1)
    BY DEF Front
  <2>2. SubSeq(s, 1, n - 1) = [i \in 1 .. (1 + (n - 1)) - 1 |-> s[i + 1 - 1]]
    OBVIOUS
  <2>3. (1 + (n - 1)) - 1 = n - 1
    OBVIOUS
  <2>4. [i \in 1 .. n - 1 |-> s[i + 1 - 1]] = [i \in 1 .. n - 1 |-> s[i]]
    OBVIOUS
  <2> QED
    BY <2>1, <2>2, <2>3, <2>4
<1>3. PICK f : f = [i \in 1 .. n - 1 |-> s[i]]
  OBVIOUS
<1>4. f \in Seq({f[i] : i \in 1 .. n - 1}) /\ Len(f) = n - 1 /\ DOMAIN f = 1 .. n - 1
  BY <1>3
<1> QED
  BY <1>2, <1>3, <1>4 DEF IsSequence

LEMMA LastApart ==
    ASSUME NEW ops, Operable(ops), NEW n \in Nat \ {0}, n = Len(ops)
    PROVE  /\ Operable(Front(ops)) /\ Len(Front(ops)) = n - 1
           /\ Operands(ops) = Operands(Front(ops)) \o emit_operand(ops[n])
           /\ Bits(ops) = Append(Bits(Front(ops)), needs_extended_encoding(ops[n]))
<1>1. PICK f : f = Front(ops)
  OBVIOUS
<1>2. /\ IsSequence(f) /\ Len(f) = n - 1 /\ \A i \in 1 .. n - 1 : f[i] = ops[i]
      /\ DOMAIN f = 1 .. n - 1 /\ DOMAIN ops = 1 .. n
  BY <1>1, Front1, SequenceFacts DEF Operable
<1>3. Operable(f)
  <2>1. \A i \in 1 .. n - 1 : i \in 1 .. n
    OBVIOUS
  <2> QED
    BY <1>2, <2>1 DEF Operable
<1>4. PICK e, d : e = Emitted(ops) /\ d = Emitted(f)
  OBVIOUS
<1>5. /\ e[0] = << >> /\ \A k \in 1 .. n : e[k] = e[k - 1] \o emit_operand(ops[k])
      /\ d[0] = << >> /\ \A k \in 1 .. n - 1 : d[k] = d[k - 1] \o emit_operand(f[k])
  BY <1>2, <1>3, <1>4, EmittedSteps
<1>6. \A k \in 0 .. n - 1 : e[k] = d[k]
  <2> DEFINE T == {k \in Nat : e[k] = d[k]}
  <2>1. 0 \in T
    BY <1>5
  <2>2. ASSUME NEW k \in 1 .. n - 1, k - 1 \in T PROVE k \in T
    <3>1. k \in 1 .. n /\ k \in Nat /\ f[k] = ops[k] /\ e[k - 1] = d[k - 1]
      BY <1>2, <2>2
    <3>2. e[k] = d[k]
      BY <1>5, <3>1
    <3> QED
      BY <3>1, <3>2
  <2>3. n - 1 \in Nat
    OBVIOUS
  <2>4. \A k \in 0 .. n - 1 : k \in T
    <3> HIDE DEF T
    <3> QED
      BY <2>1, <2>2, <2>3, Stepwise
  <2> QED
    BY <2>4
<1>7. e[n] = d[n - 1] \o emit_operand(ops[n])
  <2>1. n \in 1 .. n /\ n - 1 \in 0 .. n - 1
    OBVIOUS
  <2>2. e[n] = e[n - 1] \o emit_operand(ops[n])
    BY <1>5, <2>1
  <2>3. e[n - 1] = d[n - 1]
    BY <1>6, <2>1
  <2> QED
    BY <2>2, <2>3
<1>8. Operands(ops) = Operands(f) \o emit_operand(ops[n])
  BY <1>2, <1>4, <1>7 DEF Operands
<1>9. Bits(ops) = Append(Bits(f), needs_extended_encoding(ops[n]))
  <2>1. PICK bs : bs = Bits(f)
    OBVIOUS
  <2>2. bs \in Seq(BOOLEAN) /\ Len(bs) = n - 1 /\ \A i \in 1 .. n - 1 : bs[i] = needs_extended_encoding(ops[i])
    BY <1>2, <1>3, <2>1, BitsFacts
  <2>3. Bits(ops) = [i \in 1 .. n |-> needs_extended_encoding(ops[i])]
    BY <1>2 DEF Bits
  <2>4. Append(bs, needs_extended_encoding(ops[n]))
          = [i \in 1 .. n |-> IF i = n THEN needs_extended_encoding(ops[n]) ELSE bs[i]]
    <3>1. Append(bs, needs_extended_encoding(ops[n]))
            = [i \in 1 .. Len(bs) + 1 |-> IF i = Len(bs) + 1 THEN needs_extended_encoding(ops[n]) ELSE bs[i]]
      BY <2>2
    <3>2. Len(bs) + 1 = n
      BY <2>2
    <3> QED
      BY <3>1, <3>2
  <2>5. \A i \in 1 .. n : (IF i = n THEN needs_extended_encoding(ops[n]) ELSE bs[i]) = needs_extended_encoding(ops[i])
    <3> TAKE i \in 1 .. n
    <3>1. CASE i = n
      BY <3>1
    <3>2. CASE i # n
      <4>1. i \in 1 .. n - 1
        BY <3>2
      <4> QED
        BY <2>2, <3>2, <4>1, Zenon
    <3> QED
      BY <3>1, <3>2
  <2> QED
    BY <2>1, <2>3, <2>4, <2>5
<1> QED
  BY <1>1, <1>2, <1>3, <1>8, <1>9

\* The end of a range, as the operand it is written like.
EndOf(o) == IF Extent(o) > 0 THEN Rda(o.n + o.size - 1) ELSE o
EndOps(ops) == [ops EXCEPT ![Len(ops)] = EndOf(@)]

LEMMA RdaIsDirect ==
    ASSUME NEW m \in 0 .. 221
    PROVE  IsDirect(Rda(m)) /\ Shown(Rda(m)) = Rda(m) /\ compute_operand_value(Rda(m)) = RdaValue(m)
<1>1. Rda(m) \in Variable
  BY DEF Variable, Slots, LastSlot
<1>2. Rda(m) = [k |-> "RDA", n |-> m]
  BY DEF Rda
<1>3. Rda(m).k = "RDA" /\ Rda(m).n = m /\ DOMAIN Rda(m) = {"k", "n"}
  BY <1>2
<1>4. Extent(Rda(m)) = 0
  BY <1>3 DEF Extent
<1> QED
  BY <1>1, <1>3, <1>4 DEF IsDirect, Shown, Named, compute_operand_value

LEMMA EndWritten ==
    ASSUME NEW o, IsDirect(o)
    PROVE  /\ IsDirect(EndOf(o))
           /\ compute_range_end_value(o) = compute_operand_value(EndOf(o))
           /\ Shown(EndOf(o)) = IF Extent(o) > 0 THEN EndOf(o) ELSE Shown(o)
<1>1. CASE HasExtent(o)
  <2>1. PICK k \in {"RDA", "GROUP"}, n \in 0 .. 221, z \in 1 .. 222 :
         o = [k |-> k, n |-> n, size |-> z] /\ n + z <= 222
    BY <1>1, ExtentForm
  <2>2. Extent(o) = z /\ o.n = n /\ o.size = z
    BY <2>1 DEF Extent
  <2>3. PICK m \in 0 .. 221 : m = n + z - 1
    BY <2>1
  <2>4. EndOf(o) = Rda(m) /\ Extent(o) > 0
    BY <2>2, <2>3 DEF EndOf
  <2>5. compute_range_end_value(o) = RdaValue(m)
    BY <2>2, <2>3, <2>4 DEF compute_range_end_value
  <2> QED
    BY <2>4, <2>5, RdaIsDirect
<1>2. CASE ~ HasExtent(o)
  <2>1. Extent(o) = 0
    <3>1. CASE IsEdge(o)
      <4>1. DOMAIN o = {"k", "n"}
        BY <3>1 DEF IsEdge, Edge
      <4> QED
        BY <4>1 DEF Extent
    <3>2. CASE o \in Variable
      <4>1. DOMAIN o = {"k", "n"}
        BY <3>2, Kinds DEF RegI, RegD, RegP, Rda, Pev, Gev
      <4> QED
        BY <4>1 DEF Extent
    <3> QED
      BY <1>2, <3>1, <3>2 DEF IsDirect
  <2> QED
    BY <2>1 DEF EndOf, compute_range_end_value
<1> QED
  BY <1>1, <1>2

LEMMA DirectBytes ==
    ASSUME NEW o, IsDirect(o), NEW v, v = compute_operand_value(o)
    PROVE  /\ emit_operand(o) = IF v >= 256 THEN emit_word_be(v) ELSE << v >>
           /\ needs_extended_encoding(o) = (v >= 256)
<1>1. o.k # "STR" /\ o.k # "at" /\ o.k # "const" /\ v \in Nat
  BY Direct, ValueRange
<1>2. v > 255 <=> v >= 256
  BY <1>1
<1>3. emit_operand(o) = IF v > 255 THEN emit_word_be(v) ELSE << v >>
  BY <1>1 DEF emit_operand
<1>4. needs_extended_encoding(o) = (v > 255)
  BY <1>1 DEF needs_extended_encoding
<1> QED
  BY <1>2, <1>3, <1>4

\* A range is written like an instruction with the end of the range last.
LEMMA RangeWritten ==
    ASSUME NEW op \in 0 .. 127, NEW ops, Operable(ops), NEW n \in Nat \ {0}, n = Len(ops), ~ IsText(ops[n])
    PROVE  /\ Operable(EndOps(ops)) /\ Len(EndOps(ops)) = n
           /\ emit_range_instruction(op, ops) = emit_instruction(op, EndOps(ops))
           /\ ShownAll(EndOps(ops)) = IF Extent(ops[n]) > 0 THEN [ShownAll(ops) EXCEPT ![n] = EndOf(ops[n])]
                                                            ELSE ShownAll(ops)
<1>1. DOMAIN ops = 1 .. n /\ IsSequence(ops) /\ \A i \in 1 .. n : IsOperand(ops[i])
  BY SequenceFacts DEF Operable
<1>2. PICK o : o = ops[n]
  OBVIOUS
<1>3. IsDirect(o) \/ IsConst(o) \/ IsAt(o)
  <2>1. n \in 1 .. n
    OBVIOUS
  <2> QED
    BY <1>1, <1>2, <2>1 DEF IsOperand
<1>4. ops = [i \in 1 .. n |-> ops[i]]
  BY <1>1 DEF IsSequence
<1>5. CASE IsConst(o) \/ IsAt(o)
  <2>1. o.k \in {"at", "const"} /\ Extent(o) = 0
    <3>1. CASE IsConst(o)
      <4>1. DOMAIN o = {"k", "n", "base"} /\ o.k = "const"
        BY <3>1 DEF IsConst, Const
      <4> QED
        BY <4>1 DEF Extent
    <3>2. CASE IsAt(o)
      <4>1. DOMAIN o = {"k", "n", "base", "idx"} /\ o.k = "at"
        BY <3>2 DEF IsAt, At
      <4> QED
        BY <4>1 DEF Extent
    <3> QED
      BY <1>5, <3>1, <3>2
  <2>2. EndOf(o) = o
    BY <2>1 DEF EndOf
  <2>3. EndOps(ops) = ops
    BY <1>2, <1>4, <2>2 DEF EndOps
  <2>4. emit_range_instruction(op, ops) = emit_instruction(op, ops)
    BY <1>2, <2>1 DEF emit_range_instruction, Last
  <2> QED
    BY <1>2, <2>1, <2>3, <2>4
<1>6. CASE IsDirect(o)
  <2>1. PICK v, x : v = EndOf(o) /\ x = compute_operand_value(v)
    OBVIOUS
  <2>2. IsDirect(v) /\ compute_range_end_value(o) = x
    BY <1>6, <2>1, EndWritten
  <2>3. /\ emit_operand(v) = IF x >= 256 THEN emit_word_be(x) ELSE << x >>
        /\ needs_extended_encoding(v) = (x >= 256)
    BY <2>1, <2>2, DirectBytes
  <2>4. PICK es : es = EndOps(ops)
    OBVIOUS
  <2>5. es = [i \in 1 .. n |-> IF i = n THEN v ELSE ops[i]]
    BY <1>1, <1>2, <1>4, <2>1, <2>4 DEF EndOps
  <2>6. IsSequence(es) /\ Len(es) = n /\ DOMAIN es = 1 .. n /\ es[n] = v
    <3>1. es \in Seq({es[i] : i \in 1 .. n}) /\ DOMAIN es = 1 .. n
      BY <2>5
    <3> QED
      BY <2>5, <3>1 DEF IsSequence
  <2>7. Operable(es)
    <3>1. ASSUME NEW i \in 1 .. n PROVE IsOperand(es[i])
      <4>1. CASE i = n
        BY <2>2, <2>6, <4>1 DEF IsOperand
      <4>2. CASE i # n
        BY <1>1, <2>5, <4>2
      <4> QED
        BY <4>1, <4>2
    <3> QED
      BY <2>6, <3>1 DEF Operable
  <2>8. Front(es) = Front(ops)
    <3>1. /\ IsSequence(Front(es)) /\ Len(Front(es)) = n - 1 /\ \A i \in 1 .. n - 1 : Front(es)[i] = es[i]
          /\ IsSequence(Front(ops)) /\ Len(Front(ops)) = n - 1 /\ \A i \in 1 .. n - 1 : Front(ops)[i] = ops[i]
      BY <1>1, <2>6, Front1
    <3>2. \A i \in 1 .. n - 1 : es[i] = ops[i]
      BY <2>5
    <3>3. PICK a, b : a = Front(es) /\ b = Front(ops)
      OBVIOUS
    <3>4. a = [i \in 1 .. n - 1 |-> a[i]] /\ b = [i \in 1 .. n - 1 |-> b[i]]
      BY <3>1, <3>3 DEF IsSequence
    <3>5. \A i \in 1 .. n - 1 : a[i] = b[i]
      BY <3>1, <3>2, <3>3
    <3> QED
      BY <3>3, <3>4, <3>5
  <2>9. PICK f : f = Front(ops)
    OBVIOUS
  <2>10. Operands(es) = Operands(f) \o emit_operand(v) /\ Bits(es) = Append(Bits(f), needs_extended_encoding(v))
    BY <2>6, <2>7, <2>8, <2>9, LastApart
  <2>11. o.k \notin {"at", "const"}
    BY <1>6, Direct
  <2>12. emit_range_instruction(op, ops)
           = Opcode(op, Append(Bits(f), x >= 256)) \o Operands(f) \o (IF x >= 256 THEN emit_word_be(x) ELSE << x >>)
    BY <1>2, <2>2, <2>9, <2>11 DEF emit_range_instruction, Last
  <2>13. PICK a, b, c : a = Opcode(op, Bits(es)) /\ b = Operands(f) /\ c = emit_operand(v)
    OBVIOUS
  <2>14. emit_range_instruction(op, ops) = (a \o b) \o c
    BY <2>3, <2>10, <2>12, <2>13
  <2>15. emit_instruction(op, es) = a \o (b \o c)
    BY <2>10, <2>13 DEF emit_instruction
  <2>16. a \in Seq(Byte) /\ b \in Seq(Byte) /\ c \in Seq(Byte)
    <3>1. Operable(f)
      BY <2>9, LastApart
    <3>2. IsOperand(v)
      BY <2>2 DEF IsOperand
    <3>3. b \in Seq(Byte)
      BY <2>13, <3>1, OperandsBytes
    <3>4. c \in Seq(Byte)
      BY <2>13, <3>2, OperandBytes DEF Written
    <3>5. a \in Seq(Byte)
      BY <2>13, OpcodeBytes
    <3> QED
      BY <3>3, <3>4, <3>5
  <2>17. emit_range_instruction(op, ops) = emit_instruction(op, es)
    <3>1. (a \o b) \o c = a \o (b \o c)
      BY <2>16, ConcatAssociative
    <3> QED
      BY <2>14, <2>15, <3>1
  <2>18. ShownAll(es) = IF Extent(o) > 0 THEN [ShownAll(ops) EXCEPT ![n] = v] ELSE ShownAll(ops)
    <3>1. Shown(v) = IF Extent(o) > 0 THEN v ELSE Shown(o)
      BY <1>6, <2>1, EndWritten
    <3>2. ShownAll(es) = [i \in 1 .. n |-> IF i = n THEN Shown(v) ELSE Shown(ops[i])]
      BY <2>5 DEF ShownAll
    <3>3. ShownAll(ops) = [i \in 1 .. n |-> Shown(ops[i])]
      BY <1>1 DEF ShownAll
    <3>4. CASE Extent(o) > 0
      BY <3>1, <3>2, <3>3, <3>4
    <3>5. CASE ~ (Extent(o) > 0)
      BY <1>2, <3>1, <3>2, <3>3, <3>5
    <3> QED
      BY <3>4, <3>5
  <2> QED
    BY <1>2, <2>1, <2>4, <2>6, <2>7, <2>17, <2>18
<1> QED
  BY <1>3, <1>5, <1>6

-----------------------------------------------------------------------------
\* decode_instruction, by the branch an opcode takes.
LEMMA PlainBranch ==
    ASSUME NEW p, NEW op, code[p] % 128 = op, op \in Known, op \notin Variadic, op \notin Special
    PROVE  decode_instruction(p)
             = Trailing(op, ReadPlain(p, FixedCount(op)), IF op \in HasOffset THEN 2 ELSE 0)
<1>1. op \notin {77, 81, 98, 52} /\ op # 75 /\ op \notin {8, 9} /\ op \notin {20, 21} /\ op # 10
  BY DEF Special
<1> QED
  BY <1>1, Zenon DEF decode_instruction

LEMMA VariadicBranch ==
    ASSUME NEW p, NEW op, code[p] % 128 = op, op \in Variadic
    PROVE  decode_instruction(p) = Trailing(op, ReadCounted(p), IF op \in HasOffset THEN 2 ELSE 0)
<1>1. op \in Known /\ op \notin {77, 81, 98, 52} /\ op # 75 /\ op \notin {8, 9} /\ op \notin {20, 21} /\ op # 10
  BY DEF Variadic, Known
<1> QED
  BY <1>1, Zenon DEF decode_instruction

LEMMA BlockBranch ==
    ASSUME NEW p, NEW op, code[p] % 128 = op, op \in {77, 81, 98, 52}
    PROVE  decode_instruction(p) = Instr(op, ReadCounted(p), Bytes(Body(p), 1), ReadCounted(p).next)
<1>1. op \in Known /\ op \notin Variadic /\ op # 75 /\ op \notin {8, 9} /\ op \notin {20, 21} /\ op # 10
  BY DEF Variadic, Known, Special
<1> QED
  BY <1>1, Zenon DEF decode_instruction

LEMMA OtherBranches ==
    ASSUME NEW p, NEW op, code[p] % 128 = op
    PROVE  /\ op = 75 => decode_instruction(p) = GotoTable(ReadPlain(p, 1))
           /\ op = 10 => decode_instruction(p) = Attributes(ReadPlain(p, 1))
           /\ op = 8 => decode_instruction(p) = Trailing(op, ReadPlain(p, 5), 1)
           /\ op = 9 => decode_instruction(p) = Trailing(op, ReadPlain(p, 6), 1)
           /\ op \in {20, 21} => decode_instruction(p) = Trailing(op, ReadPlain(p, op - 19), 3)
<1>1. CASE op = 75
  <2>1. op \in Known /\ op \notin Variadic /\ op \notin {77, 81, 98, 52} /\ op \notin {8, 9} /\ op \notin {20, 21} /\ op # 10
    BY <1>1 DEF Variadic, Known, Special
  <2>2. decode_instruction(p) = GotoTable(ReadPlain(p, 1))
    BY <1>1, <2>1 DEF decode_instruction
  <2> QED
    BY <1>1, <2>2
<1>2. CASE op = 10
  <2>1. op \in Known /\ op \notin Variadic /\ op \notin {77, 81, 98, 52} /\ op \notin {8, 9} /\ op \notin {20, 21} /\ op # 75
    BY <1>2 DEF Variadic, Known, Special
  <2>2. decode_instruction(p) = Attributes(ReadPlain(p, 1))
    BY <1>2, <2>1, SMTT(60) DEF decode_instruction
  <2> QED
    BY <1>2, <2>2
<1>3. CASE op \in {8, 9}
  <2>1. op \in Known /\ op \notin Variadic /\ op \notin {77, 81, 98, 52} /\ op \notin {20, 21} /\ op # 75 /\ op # 10
    BY <1>3 DEF Variadic, Known, Special
  <2>2. decode_instruction(p) = Trailing(op, ReadPlain(p, IF op = 9 THEN 6 ELSE 5), 1)
    BY <1>3, <2>1, Zenon DEF decode_instruction
  <2> QED
    BY <1>3, <2>1, <2>2
<1>4. CASE op \in {20, 21}
  <2>1. op \in Known /\ op \notin Variadic /\ op \notin {77, 81, 98, 52} /\ op \notin {8, 9} /\ op # 75 /\ op # 10
    BY <1>4 DEF Variadic, Known, Special
  <2>2. decode_instruction(p) = Trailing(op, ReadPlain(p, op - 19), 3)
    BY <1>4, <2>1, Zenon DEF decode_instruction
  <2> QED
    BY <1>4, <2>1, <2>2
<1> QED
  BY <1>1, <1>2, <1>3, <1>4

\* What a decoded instruction says.
DecodesTo(p, op, ops, imm, n) == decode_instruction(p) = [op |-> op, ops |-> ops, imm |-> imm, next |-> p + n]

LEMMA TrailingFound ==
    ASSUME code \in Seq(Byte), NEW p \in Nat \ {0}, NEW ops, NEW t \in Seq(Byte), Holds(code, p, t), NEW op
    PROVE  Trailing(op, [ops |-> ops, next |-> p], Len(t)) = [op |-> op, ops |-> ops, imm |-> t, next |-> p + Len(t)]
<1>1. Bytes(p, Len(t)) = t
  BY BytesHeld
<1>2. p + Len(t) - 1 <= Len(code)
  BY DEF Holds
<1> QED
  BY <1>1, <1>2 DEF Trailing, Instr

\* Operands and other bytes behind them.
PlainForm(op, ops, t) == emit_instruction(op, ops) \o t
LEMMA PlainTrailing ==
    ASSUME code \in Seq(Byte), NEW p \in Nat \ {0}, NEW op \in 0 .. 127, NEW ops, Operable(ops), Len(ops) <= 8,
           NEW t \in Seq(Byte), Holds(code, p, PlainForm(op, ops, t))
    PROVE  /\ code[p] % 128 = op /\ PlainForm(op, ops, t) \in Seq(Byte) /\ Len(PlainForm(op, ops, t)) >= 1
           /\ Trailing(op, ReadPlain(p, Len(ops)), Len(t))
                = [op |-> op, ops |-> ShownAll(ops), imm |-> t, next |-> p + Len(PlainForm(op, ops, t))]
<1>1. PICK a, n, e : a = emit_instruction(op, ops) /\ n = Len(ops) /\ e = PlainForm(op, ops, t)
  OBVIOUS
<1>2. a \in Seq(Byte) /\ Len(a) >= 1
  BY <1>1, InstructionBytes
<1>3. Len(a) \in Nat /\ Len(t) \in Nat
  BY <1>2, BytesFacts
<1>4. e \in Seq(Byte) /\ Len(e) = Len(a) + Len(t)
  BY <1>1, <1>2, Joined DEF PlainForm
<1>5. Holds(code, p, a) /\ Holds(code, p + Len(a), t)
  BY <1>1, <1>2, HoldsBoth DEF PlainForm
<1>6. code[p] % 128 = op /\ ReadPlain(p, n) = [ops |-> ShownAll(ops), next |-> p + Len(a)]
  BY <1>1, <1>5, PlainFound
<1>7. Trailing(op, [ops |-> ShownAll(ops), next |-> p + Len(a)], Len(t))
        = [op |-> op, ops |-> ShownAll(ops), imm |-> t, next |-> (p + Len(a)) + Len(t)]
  <2>1. p + Len(a) \in Nat \ {0}
    BY <1>3
  <2> QED
    BY <1>5, <2>1, TrailingFound
<1>8. (p + Len(a)) + Len(t) = p + Len(e) /\ Len(e) >= 1
  BY <1>2, <1>3, <1>4
<1> QED
  BY <1>1, <1>4, <1>6, <1>7, <1>8

\* A count, operands and other bytes behind them.
CountedTail(op, n, ops, t) == CountedForm(op, n, ops) \o t
LEMMA CountedTrailing ==
    ASSUME code \in Seq(Byte), NEW p \in Nat \ {0}, NEW op \in 0 .. 127, NEW n \in Byte, NEW ops, Operable(ops),
           SpecialCount(op, n) = Len(ops), NEW t \in Seq(Byte),
           Holds(code, p, CountedTail(op, n, ops, t))
    PROVE  /\ code[p] % 128 = op /\ CountedTail(op, n, ops, t) \in Seq(Byte) /\ Len(CountedTail(op, n, ops, t)) >= 1
           /\ Trailing(op, ReadCounted(p), Len(t))
                = [op |-> op, ops |-> ShownAll(ops), imm |-> t, next |-> p + Len(CountedTail(op, n, ops, t))]
<1>1. PICK a, e : a = CountedForm(op, n, ops) /\ e = CountedTail(op, n, ops, t)
  OBVIOUS
<1>2. a \in Seq(Byte) /\ Len(a) >= 1
  BY <1>1, CountedBytes
<1>3. Len(a) \in Nat /\ Len(t) \in Nat
  BY <1>2, BytesFacts
<1>4. e \in Seq(Byte) /\ Len(e) = Len(a) + Len(t)
  BY <1>1, <1>2, Joined DEF CountedTail
<1>5. Holds(code, p, a) /\ Holds(code, p + Len(a), t)
  BY <1>1, <1>2, HoldsBoth DEF CountedTail
<1>6. code[p] % 128 = op /\ ReadCounted(p) = [ops |-> ShownAll(ops), next |-> p + Len(a)]
  BY <1>1, <1>5, CountedFound
<1>7. Trailing(op, [ops |-> ShownAll(ops), next |-> p + Len(a)], Len(t))
        = [op |-> op, ops |-> ShownAll(ops), imm |-> t, next |-> (p + Len(a)) + Len(t)]
  <2>1. p + Len(a) \in Nat \ {0}
    BY <1>3
  <2> QED
    BY <1>5, <2>1, TrailingFound
<1>8. (p + Len(a)) + Len(t) = p + Len(e) /\ Len(e) >= 1
  BY <1>2, <1>3, <1>4
<1> QED
  BY <1>1, <1>4, <1>6, <1>7, <1>8

LEMMA PlainDecoded ==
    ASSUME code \in Seq(Byte), NEW p \in Nat \ {0}, NEW op \in 0 .. 127, NEW ops, Operable(ops), Len(ops) <= 8,
           op \in Known, op \notin Variadic, op \notin Special, FixedCount(op) = Len(ops),
           NEW t \in Seq(Byte), Len(t) = IF op \in HasOffset THEN 2 ELSE 0,
           NEW e, e = PlainForm(op, ops, t), Holds(code, p, e)
    PROVE  DecodesTo(p, op, ShownAll(ops), t, Len(e))
<1>1. /\ code[p] % 128 = op
      /\ Trailing(op, ReadPlain(p, Len(ops)), Len(t))
           = [op |-> op, ops |-> ShownAll(ops), imm |-> t, next |-> p + Len(e)]
  BY PlainTrailing
<1>2. decode_instruction(p) = Trailing(op, ReadPlain(p, FixedCount(op)), IF op \in HasOffset THEN 2 ELSE 0)
  BY <1>1, PlainBranch
<1> QED
  BY <1>1, <1>2 DEF DecodesTo

LEMMA VariadicDecoded ==
    ASSUME code \in Seq(Byte), NEW p \in Nat \ {0}, NEW op \in Variadic, NEW ops, Operable(ops), Len(ops) \in Byte,
           NEW t \in Seq(Byte), Len(t) = IF op \in HasOffset THEN 2 ELSE 0,
           NEW e, e = CountedTail(op, Len(ops), ops, t), Holds(code, p, e)
    PROVE  DecodesTo(p, op, ShownAll(ops), t, Len(e))
<1>1. op \in 0 .. 127 /\ op # 81 /\ op \notin {77, 98} /\ op # 52
  BY DEF Variadic
<1>2. SpecialCount(op, Len(ops)) = Len(ops)
  BY <1>1, Zenon DEF SpecialCount
<1>3. /\ code[p] % 128 = op
      /\ Trailing(op, ReadCounted(p), Len(t))
           = [op |-> op, ops |-> ShownAll(ops), imm |-> t, next |-> p + Len(e)]
  BY <1>1, <1>2, CountedTrailing
<1>4. decode_instruction(p) = Trailing(op, ReadCounted(p), IF op \in HasOffset THEN 2 ELSE 0)
  BY <1>3, VariadicBranch
<1> QED
  BY <1>3, <1>4 DEF DecodesTo

LEMMA BlockDecoded ==
    ASSUME code \in Seq(Byte), NEW p \in Nat \ {0}, NEW op \in {77, 81, 98, 52}, NEW n \in Byte, NEW ops, Operable(ops),
           SpecialCount(op, n) = Len(ops), NEW e, e = CountedForm(op, n, ops), Holds(code, p, e)
    PROVE  DecodesTo(p, op, ShownAll(ops), << n >>, Len(e))
<1>0. op \in 0 .. 127
  OBVIOUS
<1>1. /\ code[p] % 128 = op /\ Bytes(Body(p), 1) = << n >>
      /\ ReadCounted(p) = [ops |-> ShownAll(ops), next |-> p + Len(e)]
  BY <1>0, CountedFound, ZenonT(60)
<1>2. decode_instruction(p) = Instr(op, ReadCounted(p), Bytes(Body(p), 1), ReadCounted(p).next)
  BY <1>1, BlockBranch
<1> QED
  BY <1>1, <1>2 DEF DecodesTo, Instr

\* SEND and DEFINE_FIELD: a fixed number of bytes behind the operands.
LEMMA SendDecoded ==
    ASSUME code \in Seq(Byte), NEW p \in Nat \ {0}, NEW op \in {20, 21}, NEW ops, Operable(ops), Len(ops) = op - 19,
           NEW t \in Seq(Byte), Len(t) = 3, NEW e, e = PlainForm(op, ops, t), Holds(code, p, e)
    PROVE  DecodesTo(p, op, ShownAll(ops), t, Len(e))
<1>1. Len(ops) <= 8 /\ op \in 0 .. 127
  OBVIOUS
<1>2. /\ code[p] % 128 = op
      /\ Trailing(op, ReadPlain(p, Len(ops)), Len(t))
           = [op |-> op, ops |-> ShownAll(ops), imm |-> t, next |-> p + Len(e)]
  BY <1>1, PlainTrailing, ZenonT(60)
<1>3. decode_instruction(p) = Trailing(op, ReadPlain(p, op - 19), 3)
  BY <1>2, OtherBranches
<1> QED
  BY <1>2, <1>3 DEF DecodesTo

LEMMA FieldDecoded ==
    ASSUME code \in Seq(Byte), NEW p \in Nat \ {0}, NEW op \in {8, 9}, NEW ops, Operable(ops), Len(ops) = op - 3,
           NEW t \in Seq(Byte), Len(t) = 1, NEW e, e = PlainForm(op, ops, t), Holds(code, p, e)
    PROVE  DecodesTo(p, op, ShownAll(ops), t, Len(e))
<1>1. Len(ops) <= 8 /\ op \in 0 .. 127
  OBVIOUS
<1>2. /\ code[p] % 128 = op
      /\ Trailing(op, ReadPlain(p, Len(ops)), Len(t))
           = [op |-> op, ops |-> ShownAll(ops), imm |-> t, next |-> p + Len(e)]
  BY <1>1, PlainTrailing
<1>3. decode_instruction(p) = Trailing(op, ReadPlain(p, Len(ops)), 1)
  <2>1. CASE op = 8
    BY <1>2, <2>1, OtherBranches
  <2>2. CASE op = 9
    BY <1>2, <2>2, OtherBranches
  <2> QED
    BY <2>1, <2>2
<1> QED
  BY <1>2, <1>3 DEF DecodesTo

\* GOTO_DEPENDING_ON: its table behind the operand.
GotoForm(ops, m, t) == (emit_instruction(75, ops) \o << m >>) \o t
LEMMA GotoDecoded ==
    ASSUME code \in Seq(Byte), NEW p \in Nat \ {0}, NEW ops, Operable(ops), Len(ops) = 1,
           NEW m \in Byte, NEW t \in Seq(Byte), Len(t) = 2 * m, Holds(code, p, GotoForm(ops, m, t))
    PROVE  /\ DecodesTo(p, 75, ShownAll(ops), t, Len(GotoForm(ops, m, t)))
           /\ GotoForm(ops, m, t) \in Seq(Byte) /\ Len(GotoForm(ops, m, t)) >= 1
<1>0. 75 \in 0 .. 127 /\ Len(ops) <= 8
  OBVIOUS
<1>1. PICK a, b, e : a = emit_instruction(75, ops) /\ b = << m >> /\ e = GotoForm(ops, m, t)
  OBVIOUS
<1>2. a \in Seq(Byte) /\ Len(a) >= 1 /\ b \in Seq(Byte) /\ Len(b) = 1
  BY <1>0, <1>1, InstructionBytes, FewBytes
<1>3. Len(a) \in Nat /\ Len(t) \in Nat
  BY <1>2, BytesFacts
<1>4. PICK d : d = a \o b
  OBVIOUS
<1>5. e = d \o t /\ Holds(code, p, d \o t)
  BY <1>1, <1>4 DEF GotoForm
<1>6. d \in Seq(Byte) /\ Len(d) = Len(a) + 1
  <2>1. d \in Seq(Byte) /\ Len(d) = Len(a) + Len(b)
    BY <1>2, <1>4, Joined
  <2> QED
    BY <1>2, <2>1
<1>7. /\ e \in Seq(Byte) /\ Len(e) = Len(d) + Len(t)
      /\ Holds(code, p, a \o b) /\ Holds(code, p + Len(d), t)
  <2>1. e \in Seq(Byte) /\ Len(e) = Len(d) + Len(t)
    BY <1>5, <1>6, Joined
  <2>2. Holds(code, p, d) /\ Holds(code, p + Len(d), t)
    BY <1>5, <1>6, HoldsBoth
  <2> QED
    BY <1>4, <2>1, <2>2
<1>8. PICK q : q = p + Len(a)
  OBVIOUS
<1>9. q \in Nat \ {0} /\ p + Len(d) = q + 1
  BY <1>3, <1>6, <1>8
<1>10. Holds(code, p, a) /\ Holds(code, q, b) /\ Holds(code, q + 1, t)
  <2>1. Holds(code, p, a) /\ Holds(code, p + Len(a), b)
    BY <1>2, <1>7, HoldsBoth
  <2> QED
    BY <1>7, <1>8, <1>9, <2>1
<1>11. code[p] % 128 = 75 /\ ReadPlain(p, 1) = [ops |-> ShownAll(ops), next |-> q]
  BY <1>0, <1>1, <1>8, <1>10, PlainFound
<1>12. At8(q) = m
  BY <1>1, <1>9, <1>10, At8Held
<1>13. Bytes(q + 1, 2 * m) = t
  BY <1>9, <1>10, BytesHeld
<1>14. GotoTable([ops |-> ShownAll(ops), next |-> q]) = [op |-> 75, ops |-> ShownAll(ops), imm |-> t, next |-> q + 1 + Len(t)]
  <2>1. (q + 1) + Len(t) - 1 <= Len(code) /\ Len(code) \in Nat
    BY <1>10, BytesFacts DEF Holds
  <2>2. q + 2 * m <= Len(code) /\ ~ (q > Len(code))
    BY <1>9, <2>1 DEF Byte
  <2> QED
    BY <1>12, <1>13, <2>2 DEF GotoTable, Instr
<1>15. q + 1 + Len(t) = p + Len(e) /\ Len(e) >= 1
  BY <1>2, <1>3, <1>6, <1>7, <1>8
<1>16. decode_instruction(p) = GotoTable(ReadPlain(p, 1))
  BY <1>11, OtherBranches
<1> QED
  BY <1>1, <1>7, <1>11, <1>14, <1>15, <1>16 DEF DecodesTo

LEMMA HoldsAt ==
    ASSUME code \in Seq(Byte), NEW p \in Nat \ {0}, NEW t \in Seq(Byte), Holds(code, p, t), NEW i \in 1 .. Len(t)
    PROVE  At8(p + i - 1) = t[i]
<1>1. p + Len(t) - 1 <= Len(code) /\ code[p + i - 1] = t[i]
  BY DEF Holds
<1>2. Len(t) \in Nat /\ Len(code) \in Nat
  BY BytesFacts
<1> QED
  BY <1>1, <1>2 DEF At8

\* SET_ATTRIBUTE without a text, and with one.
LEMMA AttributesDecoded ==
    ASSUME code \in Seq(Byte), NEW p \in Nat \ {0}, NEW ops, Operable(ops), Len(ops) = 1,
           NEW t \in Seq(Byte), Len(t) = 4, ~ HasForm(t), Holds(code, p, PlainForm(10, ops, t))
    PROVE  DecodesTo(p, 10, ShownAll(ops), t, Len(PlainForm(10, ops, t)))
<1>0. 10 \in 0 .. 127 /\ Len(ops) <= 8
  OBVIOUS
<1>1. PICK a, e : a = emit_instruction(10, ops) /\ e = PlainForm(10, ops, t)
  OBVIOUS
<1>2. a \in Seq(Byte) /\ Len(a) >= 1
  BY <1>0, <1>1, InstructionBytes
<1>3. Len(a) \in Nat
  BY <1>2, BytesFacts
<1>4. Holds(code, p, a) /\ Holds(code, p + Len(a), t)
  BY <1>1, <1>2, HoldsBoth DEF PlainForm
<1>5. PICK q : q = p + Len(a)
  OBVIOUS
<1>6. q \in Nat \ {0} /\ q + 2 - 1 = q + 1
  BY <1>3, <1>5
<1>7. ReadPlain(p, 1) = [ops |-> ShownAll(ops), next |-> q]
  BY <1>0, <1>1, <1>4, <1>5, PlainFound
<1>8. At8(q + 1) = t[2]
  <2>1. At8(q + 2 - 1) = t[2]
    BY <1>4, <1>5, <1>6, HoldsAt
  <2> QED
    BY <1>6, <2>1
<1>9. t[2] \in 0 .. 255
  <2>1. 2 \in 1 .. Len(t)
    OBVIOUS
  <2>2. t[2] \in Byte
    BY <2>1, BytesFacts
  <2> QED
    BY <2>2 DEF Byte
<1>10. (t[2] \div 32) % 2 = 0
  <2>1. (t[2] \div 32) % 2 # 1
    BY DEF HasForm
  <2>2. ASSUME NEW v \in 0 .. 255, (v \div 32) % 2 # 1 PROVE (v \div 32) % 2 = 0
    BY <2>2
  <2> QED
    BY <1>9, <2>1, <2>2
<1>11. Attributes([ops |-> ShownAll(ops), next |-> q])
         = [op |-> 10, ops |-> ShownAll(ops), imm |-> t, next |-> q + 4]
  <2>1. Bytes(q, Len(t)) = t
    BY <1>4, <1>5, <1>6, BytesHeld
  <2> QED
    BY <1>8, <1>10, <2>1 DEF Attributes, Instr
<1>12. code[p] % 128 = 10 /\ q + 4 = p + Len(e)
  <2>1. code[p] % 128 = 10
    BY <1>0, <1>1, <1>4, PlainFound
  <2>2. Len(e) = Len(a) + Len(t)
    BY <1>1, <1>2, Joined DEF PlainForm
  <2> QED
    BY <1>3, <1>5, <2>1, <2>2
<1>13. decode_instruction(p) = Attributes(ReadPlain(p, 1))
  BY <1>12, OtherBranches
<1> QED
  BY <1>1, <1>7, <1>11, <1>12, <1>13 DEF DecodesTo

AttributeForm(ops, t, text) == PlainForm(10, ops, t) \o (<< Len(text) >> \o text)
LEMMA FormDecoded ==
    ASSUME code \in Seq(Byte), NEW p \in Nat \ {0}, NEW ops, Operable(ops), Len(ops) = 1,
           NEW t \in Seq(Byte), Len(t) = 4, HasForm(t), NEW text \in Seq(Byte), Len(text) <= 255,
           Holds(code, p, AttributeForm(ops, t, text))
    PROVE  /\ DecodesTo(p, 10, Append(ShownAll(ops), Text(text)), t, Len(AttributeForm(ops, t, text)))
           /\ AttributeForm(ops, t, text) \in Seq(Byte) /\ Len(AttributeForm(ops, t, text)) >= 1
<1>0. 10 \in 0 .. 127 /\ Len(ops) <= 8
  OBVIOUS
<1>1. PICK a, b, c, e, n : /\ a = emit_instruction(10, ops) /\ b = PlainForm(10, ops, t) /\ n = Len(text)
                           /\ c = << n >> /\ e = AttributeForm(ops, t, text)
  OBVIOUS
<1>2. n \in Byte
  <2>1. n \in Nat /\ n <= 255
    BY <1>1, BytesFacts
  <2> QED
    BY <2>1 DEF Byte
<1>3. a \in Seq(Byte) /\ Len(a) >= 1 /\ c \in Seq(Byte) /\ Len(c) = 1
  BY <1>0, <1>1, <1>2, InstructionBytes, FewBytes
<1>4. Len(a) \in Nat
  BY <1>3, BytesFacts
<1>5. b = a \o t /\ b \in Seq(Byte) /\ Len(b) = Len(a) + 4
  <2>1. b = a \o t
    BY <1>1 DEF PlainForm
  <2>2. b \in Seq(Byte) /\ Len(b) = Len(a) + Len(t)
    BY <1>3, <2>1, Joined
  <2> QED
    BY <2>1, <2>2
<1>6. PICK d : d = c \o text
  OBVIOUS
<1>6a. d \in Seq(Byte) /\ Len(d) = 1 + n
  <2>1. d \in Seq(Byte) /\ Len(d) = Len(c) + Len(text)
    BY <1>3, <1>6, Joined
  <2> QED
    BY <1>1, <1>3, <2>1
<1>7. e = b \o d /\ e \in Seq(Byte) /\ Len(e) = Len(b) + Len(d)
  <2>1. e = b \o d
    BY <1>1, <1>6 DEF AttributeForm
  <2> QED
    BY <1>5, <1>6a, <2>1, Joined
<1>8. PICK q : q = p + Len(a)
  OBVIOUS
<1>9. q \in Nat \ {0} /\ q + 4 \in Nat \ {0} /\ p + Len(b) = q + 4 /\ q + 2 - 1 = q + 1 /\ (q + 4) + 1 \in Nat \ {0}
  BY <1>4, <1>5, <1>8
<1>10. Holds(code, p, b) /\ Holds(code, q + 4, d)
  <2>1. Holds(code, p, b \o d)
    BY <1>1, <1>7
  <2>2. Holds(code, p, b) /\ Holds(code, p + Len(b), d)
    BY <1>5, <1>6a, <2>1, HoldsBoth
  <2> QED
    BY <1>9, <2>2
<1>11. Holds(code, p, a) /\ Holds(code, q, t)
  <2>1. Holds(code, p, a \o t)
    BY <1>5, <1>10
  <2> QED
    BY <1>3, <1>8, <2>1, HoldsBoth
<1>12. Holds(code, q + 4, c) /\ Holds(code, (q + 4) + 1, text)
  <2>1. Holds(code, q + 4, c \o text)
    BY <1>6, <1>10
  <2>2. Holds(code, q + 4, c) /\ Holds(code, (q + 4) + Len(c), text)
    BY <1>3, <1>9, <2>1, HoldsBoth
  <2> QED
    BY <1>3, <2>2
<1>13. ReadPlain(p, 1) = [ops |-> ShownAll(ops), next |-> q]
  BY <1>0, <1>1, <1>8, <1>11, PlainFound
<1>14. At8(q + 1) = t[2] /\ At8(q + 4) = n
  <2>1. At8(q + 2 - 1) = t[2]
    BY <1>9, <1>11, HoldsAt
  <2>2. At8(q + 4) = n
    BY <1>1, <1>9, <1>12, At8Held
  <2> QED
    BY <1>9, <2>1, <2>2
<1>15. (t[2] \div 32) % 2 # 0
  BY DEF HasForm
<1>16. ~ (q + 4 > Len(code)) /\ ~ ((q + 4) + n > Len(code))
  <2>1. (q + 4) + Len(d) - 1 <= Len(code) /\ Len(code) \in Nat
    BY <1>10, BytesFacts DEF Holds
  <2> QED
    BY <1>2, <1>6a, <1>9, <2>1 DEF Byte
<1>17. Bytes(q, 4) = t /\ Bytes((q + 4) + 1, n) = text
  BY <1>1, <1>9, <1>11, <1>12, BytesHeld
<1>18. Attributes([ops |-> ShownAll(ops), next |-> q])
         = [op |-> 10, ops |-> Append(ShownAll(ops), Text(text)), imm |-> t, next |-> (q + 4) + 1 + n]
  BY <1>14, <1>15, <1>16, <1>17 DEF Attributes, Instr
<1>19. (q + 4) + 1 + n = p + Len(e) /\ Len(e) >= 1
  BY <1>2, <1>4, <1>5, <1>6a, <1>7, <1>8 DEF Byte
<1>20. code[p] % 128 = 10
  BY <1>0, <1>1, <1>11, PlainFound
<1>21. decode_instruction(p) = Attributes(ReadPlain(p, 1))
  BY <1>20, OtherBranches
<1> QED
  BY <1>1, <1>7, <1>13, <1>18, <1>19, <1>21 DEF DecodesTo

-----------------------------------------------------------------------------
\* The mode byte of the first four operands is that of all of them, when the
\* others do not need the long form.
LEMMA FirstFour ==
    ASSUME NEW ops, Operable(ops), NEW n \in 5 .. 6, n = Len(ops),
           \A i \in 5 .. n : ~ needs_extended_encoding(ops[i]), NEW op
    PROVE  Opcode(op, Bits(SubSeq(ops, 1, 4))) = Opcode(op, Bits(ops))
<1>1. DOMAIN ops = 1 .. n /\ IsSequence(ops) /\ \A i \in 1 .. n : IsOperand(ops[i])
  BY SequenceFacts DEF Operable
<1>2. PICK f : f = SubSeq(ops, 1, 4)
  OBVIOUS
<1>3. Len(f) = 4 /\ DOMAIN f = 1 .. 4 /\ \A i \in 1 .. 4 : f[i] = ops[i]
  BY <1>1, <1>2 DEF IsSequence
<1>4. PICK a, b : a = Bits(f) /\ b = Bits(ops)
  OBVIOUS
<1>5. a = [i \in 1 .. 4 |-> needs_extended_encoding(ops[i])] /\ b = [i \in 1 .. n |-> needs_extended_encoding(ops[i])]
  <2>1. a = [i \in 1 .. 4 |-> needs_extended_encoding(f[i])]
    BY <1>3, <1>4, Zenon DEF Bits
  <2>2. a = [i \in 1 .. 4 |-> needs_extended_encoding(ops[i])]
    BY <1>3, <2>1
  <2>3. b = [i \in 1 .. n |-> needs_extended_encoding(ops[i])]
    BY <1>1, <1>4, Zenon DEF Bits
  <2> QED
    BY <2>2, <2>3
<1>6. Len(a) = 4 /\ Len(b) = n
  BY <1>5
<1>7. \A i \in 1 .. 4 : a[i] <=> b[i]
  BY <1>5
<1>8. \A i \in 5 .. n : ~ b[i]
  BY <1>5
<1>9. check_complex_mode(a) = check_complex_mode(b)
  <2>1. DOMAIN a = 1 .. 4 /\ DOMAIN b = 1 .. n
    BY <1>5
  <2>2. \A i \in 1 .. n : i \in 1 .. 4 \/ i \in 5 .. n
    OBVIOUS
  <2>3. \A i \in 1 .. 4 : i \in 1 .. n
    OBVIOUS
  <2> QED
    BY <1>7, <1>8, <2>1, <2>2, <2>3 DEF check_complex_mode
<1>10. \A i \in 1 .. 8 : On(a, i) = On(b, i)
  <2>1. ASSUME NEW i \in 1 .. 8 PROVE On(a, i) = On(b, i)
    <3>1. CASE i \in 1 .. 4
      BY <1>6, <1>7, <3>1 DEF On
    <3>2. CASE i \in 5 .. n
      BY <1>6, <1>8, <3>2 DEF On
    <3>3. CASE i > n
      BY <1>6, <3>3 DEF On
    <3> QED
      BY <3>1, <3>2, <3>3
  <2> QED
    BY <2>1
<1>11. ModeByte(a, 1) = ModeByte(b, 1)
  <2>1. \A x : ModeByte(x, 1) = 128 * On(x, 1) + 64 * On(x, 2) + 32 * On(x, 3) + 16 * On(x, 4)
                                  + 8 * On(x, 5) + 4 * On(x, 6) + 2 * On(x, 7) + On(x, 8)
    <3>1. ASSUME NEW x
          PROVE  ModeByte(x, 1) = 128 * On(x, 1) + 64 * On(x, 2) + 32 * On(x, 3) + 16 * On(x, 4)
                                    + 8 * On(x, 5) + 4 * On(x, 6) + 2 * On(x, 7) + On(x, 8)
      BY ModeByteOf
    <3> QED
      BY <3>1
  <2> QED
    BY <1>10, <2>1
<1> QED
  BY <1>2, <1>4, <1>9, <1>11, Zenon DEF Opcode

LEMMA FieldWritten ==
    ASSUME NEW ops, Operable(ops), NEW n \in 5 .. 6, n = Len(ops),
           \A i \in 5 .. n : ~ needs_extended_encoding(ops[i])
    PROVE  gen_define_field(ops) = PlainForm(3 + n, ops, << 1 >>)
<1>1. (IF n = 6 THEN 9 ELSE 8) = 3 + n
  <2>1. ASSUME NEW k \in 5 .. 6 PROVE (IF k = 6 THEN 9 ELSE 8) = 3 + k
    <3>1. CASE k = 6
      BY <3>1
    <3>2. CASE k = 5
      BY <3>2
    <3> QED
      BY <3>1, <3>2
  <2> QED
    BY <2>1
<1>2. Opcode(3 + n, Bits(SubSeq(ops, 1, 4))) = Opcode(3 + n, Bits(ops))
  BY FirstFour
<1>3. gen_define_field(ops) = Opcode(3 + n, Bits(SubSeq(ops, 1, 4))) \o Operands(ops) \o << 1 >>
  BY <1>1, Zenon DEF gen_define_field
<1> QED
  BY <1>2, <1>3, Zenon DEF PlainForm, emit_instruction

\* SET_ATTRIBUTE is written like an instruction with its first operand.
LEMMA OneOperand ==
    ASSUME NEW o, IsOperand(o)
    PROVE  Operable(<< o >>) /\ Len(<< o >>) = 1 /\ Operands(<< o >>) = emit_operand(o) /\ ShownAll(<< o >>) = << Shown(o) >>
<1>1. PICK s : s = << o >>
  OBVIOUS
<1>2. Len(s) = 1 /\ DOMAIN s = 1 .. 1 /\ s[1] = o /\ IsSequence(s)
  <2>1. Len(s) = 1 /\ DOMAIN s = 1 .. 1 /\ s[1] = o
    BY <1>1
  <2>2. s \in Seq({s[i] : i \in DOMAIN s})
    BY <1>1
  <2> QED
    BY <2>1, <2>2 DEF IsSequence
<1>3. Operable(s)
  BY <1>2 DEF Operable
<1>4. Emitted(s)[0] = << >> /\ Emitted(s)[1] = Emitted(s)[0] \o emit_operand(o)
  <2>1. 1 \in 1 .. Len(s) /\ 1 - 1 = 0
    BY <1>2
  <2> QED
    BY <1>2, <1>3, <2>1, EmittedSteps
<1>5. << >> \o emit_operand(o) = emit_operand(o)
  BY OperandBytes, NothingMore DEF Written
<1>6. Operands(s) = emit_operand(o)
  BY <1>2, <1>4, <1>5 DEF Operands
<1>7. ShownAll(s) = << Shown(o) >>
  BY <1>2 DEF ShownAll
<1> QED
  BY <1>1, <1>2, <1>3, <1>6, <1>7

LEMMA AttributeWritten ==
    ASSUME NEW ops, Operable(ops), NEW n \in 1 .. 2, n = Len(ops), NEW t \in Seq(Byte)
    PROVE  /\ Operable(<< ops[1] >>) /\ Len(<< ops[1] >>) = 1 /\ ShownAll(<< ops[1] >>) = << Shown(ops[1]) >>
           /\ n = 1 => gen_set_attribute(ops, t) = PlainForm(10, << ops[1] >>, t)
           /\ n = 2 => gen_set_attribute(ops, t) = AttributeForm(<< ops[1] >>, t, ops[2].n)
<1>1. PICK o, s : o = ops[1] /\ s = << o >>
  OBVIOUS
<1>2. IsOperand(o)
  BY <1>1, SequenceFacts DEF Operable
<1>3. Operable(s) /\ Len(s) = 1 /\ Operands(s) = emit_operand(o) /\ ShownAll(s) = << Shown(o) >>
  BY <1>1, <1>2, OneOperand
<1>4. Opcode(10, Bits(s)) \o emit_operand(o) \o t = PlainForm(10, s, t)
  BY <1>3, Zenon DEF PlainForm, emit_instruction
<1>5. PICK f : f = PlainForm(10, s, t)
  OBVIOUS
<1>6. f \o << >> = f
  <2>1. 10 \in 0 .. 127
    OBVIOUS
  <2>2. emit_instruction(10, s) \in Seq(Byte)
    BY <1>3, <2>1, InstructionBytes
  <2>3. f \in Seq(Byte)
    BY <1>5, <2>2, Joined DEF PlainForm
  <2> QED
    BY <2>3, NothingMore
<1>7. n = 1 => gen_set_attribute(ops, t) = f
  <2>1. ASSUME n = 1 PROVE gen_set_attribute(ops, t) = f
    <3>1. Len(ops) # 2
      BY <2>1
    <3>2. gen_set_attribute(ops, t) = Opcode(10, Bits(s)) \o emit_operand(o) \o t \o << >>
      BY <1>1, <3>1, Zenon DEF gen_set_attribute
    <3> QED
      BY <1>4, <1>5, <1>6, <3>2, Zenon
  <2> QED
    BY <2>1
<1>8. n = 2 => gen_set_attribute(ops, t) = AttributeForm(s, t, ops[2].n)
  <2>1. ASSUME n = 2 PROVE gen_set_attribute(ops, t) = AttributeForm(s, t, ops[2].n)
    <3>1. Len(ops) = 2
      BY <2>1
    <3>2. gen_set_attribute(ops, t) = Opcode(10, Bits(s)) \o emit_operand(o) \o t \o (<< Len(ops[2].n) >> \o ops[2].n)
      BY <1>1, <3>1, Zenon DEF gen_set_attribute
    <3> QED
      BY <1>4, <3>2, Zenon DEF AttributeForm
  <2> QED
    BY <2>1
<1> QED
  BY <1>1, <1>3, <1>5, <1>7, <1>8

-----------------------------------------------------------------------------
\* An opcode with n operands and m other bytes behind them.
Row(op, n, m) == /\ op \in 0 .. 127 /\ op \in Known /\ op \notin Variadic /\ op \notin Special
                 /\ FixedCount(op) = n /\ n \in 0 .. 8 /\ m = IF op \in HasOffset THEN 2 ELSE 0

LEMMA Rows ==
    ASSUME NEW op \in Int, NEW n \in 0 .. 5,
           \/ n = 0 /\ op \in {0, 72, 74, 85, 25, 26, 27, 28, 33, 36, 12, 19, 23, 101, 63}
           \/ n = 2 /\ op \in {38, 37, 39, 40, 41, 42, 43, 50, 79, 82, 83, 84, 86, 30, 68, 46, 47, 48, 49, 109, 11,
                               14, 16, 22}
           \/ n = 3 /\ op \in {44, 45, 51, 56, 78, 87, 69, 66, 15, 17}
           \/ n = 4 /\ op \in {55, 108}
           \/ n = 5 /\ op \in {88, 67}
           \/ n = 1 /\ op \in {57, 58, 59, 99, 100, 76, 80, 90, 24, 29, 31, 32, 34, 35, 64, 65, 103, 106, 110, 13, 18,
                               102}
    PROVE  Row(op, n, 0)
<1>1. op \in 0 .. 127 /\ op \notin Variadic /\ op \notin Special /\ op \notin HasOffset
  BY DEF Variadic, Special, HasOffset
<1>2. op \in Known
  BY DEF Known, OperandCount, NoOperand
<1>3. FixedCount(op) = n
  BY DEF FixedCount, OperandCount, NoOperand
<1> QED
  BY <1>1, <1>2, <1>3 DEF Row

LEMMA JumpRows ==
    ASSUME NEW op \in Int, NEW n \in 0 .. 5,
           (n = 0 /\ op = 7) \/ (n = 2 /\ op \in {1, 2, 3, 4, 5, 6})
    PROVE  Row(op, n, 2)
<1>1. op \in 0 .. 127 /\ op \notin Variadic /\ op \notin Special /\ op \in HasOffset
  BY DEF Variadic, Special, HasOffset
<1>2. op \in Known
  BY DEF Known, OperandCount, NoOperand
<1>3. FixedCount(op) = n
  BY DEF FixedCount, OperandCount, NoOperand
<1> QED
  BY <1>1, <1>2, <1>3 DEF Row

LEMMA FixedRows ==
    ASSUME NEW v \in DOMAIN FixedVerb
    PROVE  Row(FixedVerb[v][1], FixedVerb[v][2], 0)
<1>1. v \in {"MOVE_ABS", "ADD", "SUBTRACT", "MULTIPLY", "AND", "OR", "XOR", "TEST", "SWAP", "FILL", "PUSH", "POP",
             "SUBSTR", "INSTR", "UPPERCASE", "LENGTH", "FORMAT", "OPEN_WINDOW", "OPEN", "NOTE", "POINT", "DELETE",
             "CONNECT", "RECEIVE", "RESTORE", "RELEASE", "ERROR", "TRIGGER_FUNCTION", "SORT", "LOOKUP",
             "NAVIGATE_FIRST", "NAVIGATE_NEXT", "NAVIGATE_BACK", "NAVIGATE_LAST", "PURGE_CACHE", "REFRESH", "WAIT",
             "DISCONNECT"}
  BY DEF FixedVerb
<1>2. \/ FixedVerb[v] \in {<< op, 2 >> : op \in {38, 40, 41, 42, 46, 47, 48, 49, 39, 50, 11, 83, 84, 22, 79}}
      \/ FixedVerb[v] \in {<< op, 3 >> : op \in {45, 56, 51, 87}}
      \/ FixedVerb[v] \in {<< op, 1 >> : op \in {58, 59, 57, 31, 110, 18, 80, 76, 90}}
      \/ FixedVerb[v] \in {<< op, 0 >> : op \in {27, 25, 26, 28, 36, 101, 63, 19}}
      \/ FixedVerb[v] = << 55, 4 >>
      \/ FixedVerb[v] = << 88, 5 >>
  BY <1>1 DEF FixedVerb
<1> QED
  BY <1>2, Rows

LEMMA PassRows ==
    ASSUME NEW v \in DOMAIN PassVerb
    PROVE  Row(PassVerb[v], FixedCount(PassVerb[v]), 0)
<1>1. PassVerb[v] \in {35, 23, 102, 103, 65, 24}
  BY DEF PassVerb
<1> QED
  BY <1>1, Rows DEF Row

-----------------------------------------------------------------------------
\* What a statement should be found as, and that it is found so wherever it is
\* written.
Means(s, op, ops, imm) ==
    /\ MeantOpcode(s) = op /\ ShownOperands(s) = ops
    /\ s.imm # << >> => imm = s.imm
    /\ op \in {77, 81, 98} => imm = << SlotCount(s) >>
Legible(e) == e \in Seq(Byte) /\ Len(e) >= 1
FoundAt(s, p) ==
    Holds(code, p, Generate(s)) =>
        \E op, ops, imm : Means(s, op, ops, imm) /\ DecodesTo(p, op, ops, imm, Len(Generate(s)))
Sound(s) == Legible(Generate(s)) /\ \A p \in Nat \ {0} : FoundAt(s, p)

LEMMA Lengthened ==
    ASSUME NEW a \in Seq(Byte), Len(a) >= 1, NEW b \in Seq(Byte)
    PROVE  Legible(a \o b)
<1>1. a \o b \in Seq(Byte) /\ Len(a \o b) = Len(a) + Len(b)
  BY Joined
<1>2. Len(a) \in Nat /\ Len(b) \in Nat
  BY BytesFacts
<1> QED
  BY <1>1, <1>2 DEF Legible

LEMMA PlainBytes ==
    ASSUME NEW op \in 0 .. 127, NEW ops, Operable(ops), NEW t \in Seq(Byte)
    PROVE  Legible(PlainForm(op, ops, t))
<1>1. emit_instruction(op, ops) \in Seq(Byte) /\ Len(emit_instruction(op, ops)) >= 1
  BY InstructionBytes
<1> QED
  BY <1>1, Lengthened DEF PlainForm

LEMMA PlainSound ==
    ASSUME code \in Seq(Byte), NEW s, NEW op, NEW ops, Operable(ops), NEW t \in Seq(Byte), Row(op, Len(ops), Len(t)),
           Generate(s) = PlainForm(op, ops, t), Means(s, op, ShownAll(ops), t)
    PROVE  Sound(s)
<1>1. /\ op \in 0 .. 127 /\ op \in Known /\ op \notin Variadic /\ op \notin Special
      /\ FixedCount(op) = Len(ops) /\ Len(ops) <= 8 /\ Len(t) = IF op \in HasOffset THEN 2 ELSE 0
  BY SMTT(60) DEF Row
<1>2. ASSUME NEW p \in Nat \ {0}, Holds(code, p, Generate(s))
      PROVE  DecodesTo(p, op, ShownAll(ops), t, Len(Generate(s)))
  BY <1>1, <1>2, PlainDecoded
<1>3. Legible(Generate(s))
  BY <1>1, PlainBytes
<1> QED
  BY <1>2, <1>3 DEF Sound, FoundAt

LEMMA SendSound ==
    ASSUME code \in Seq(Byte), NEW s, NEW op \in {20, 21}, NEW ops, Operable(ops), Len(ops) = op - 19,
           NEW t \in Seq(Byte), Len(t) = 3,
           Generate(s) = PlainForm(op, ops, t), Means(s, op, ShownAll(ops), t)
    PROVE  Sound(s)
<1>1. ASSUME NEW p \in Nat \ {0}, Holds(code, p, Generate(s))
      PROVE  DecodesTo(p, op, ShownAll(ops), t, Len(Generate(s)))
  BY <1>1, SendDecoded
<1>2. op \in 0 .. 127
  OBVIOUS
<1>3. Legible(Generate(s))
  BY <1>2, PlainBytes
<1> QED
  BY <1>1, <1>3 DEF Sound, FoundAt

LEMMA FieldSound ==
    ASSUME code \in Seq(Byte), NEW s, NEW op \in {8, 9}, NEW ops, Operable(ops), Len(ops) = op - 3,
           NEW t \in Seq(Byte), Len(t) = 1,
           Generate(s) = PlainForm(op, ops, t), Means(s, op, ShownAll(ops), t)
    PROVE  Sound(s)
<1>1. ASSUME NEW p \in Nat \ {0}, Holds(code, p, Generate(s))
      PROVE  DecodesTo(p, op, ShownAll(ops), t, Len(Generate(s)))
  BY <1>1, FieldDecoded
<1>2. op \in 0 .. 127
  OBVIOUS
<1>3. Legible(Generate(s))
  BY <1>2, PlainBytes
<1> QED
  BY <1>1, <1>3 DEF Sound, FoundAt

LEMMA AttributesSound ==
    ASSUME code \in Seq(Byte), NEW s, NEW ops, Operable(ops), Len(ops) = 1, NEW t \in Seq(Byte), Len(t) = 4, ~ HasForm(t),
           Generate(s) = PlainForm(10, ops, t), Means(s, 10, ShownAll(ops), t)
    PROVE  Sound(s)
<1>1. ASSUME NEW p \in Nat \ {0}, Holds(code, p, Generate(s))
      PROVE  DecodesTo(p, 10, ShownAll(ops), t, Len(Generate(s)))
  BY <1>1, AttributesDecoded
<1>2. 10 \in 0 .. 127
  OBVIOUS
<1>3. Legible(Generate(s))
  BY <1>2, PlainBytes
<1> QED
  BY <1>1, <1>3 DEF Sound, FoundAt

LEMMA FormSound ==
    ASSUME code \in Seq(Byte), NEW s, NEW ops, Operable(ops), Len(ops) = 1, NEW t \in Seq(Byte), Len(t) = 4, HasForm(t),
           NEW text \in Seq(Byte), Len(text) <= 255,
           Generate(s) = AttributeForm(ops, t, text), Means(s, 10, Append(ShownAll(ops), Text(text)), t)
    PROVE  Sound(s)
<1>1. ASSUME NEW p \in Nat \ {0}, Holds(code, p, Generate(s))
      PROVE  DecodesTo(p, 10, Append(ShownAll(ops), Text(text)), t, Len(Generate(s)))
  BY <1>1, FormDecoded
<1>2. Legible(PlainForm(10, ops, t))
  <2>1. 10 \in 0 .. 127
    OBVIOUS
  <2> QED
    BY <2>1, PlainBytes
<1>3. PICK a, n, b : a = PlainForm(10, ops, t) /\ n = Len(text) /\ b = << n >> \o text
  OBVIOUS
<1>4. b \in Seq(Byte)
  <2>1. n \in Nat /\ n <= 255
    BY <1>3, BytesFacts
  <2>2. n \in Byte
    BY <2>1 DEF Byte
  <2>3. << n >> \in Seq(Byte)
    BY <2>2, FewBytes
  <2> QED
    BY <1>3, <2>3, Joined
<1>5. Legible(a \o b)
  BY <1>2, <1>3, <1>4, Lengthened DEF Legible
<1>6. Generate(s) = a \o b
  BY <1>3, Zenon DEF AttributeForm
<1>7. Legible(Generate(s))
  BY <1>5, <1>6
<1> QED
  BY <1>1, <1>7 DEF Sound, FoundAt

LEMMA GotoSound ==
    ASSUME code \in Seq(Byte), NEW s, NEW ops, Operable(ops), Len(ops) = 1, NEW m \in Byte,
           NEW t \in Seq(Byte), Len(t) = 2 * m,
           Generate(s) = GotoForm(ops, m, t), Means(s, 75, ShownAll(ops), t)
    PROVE  Sound(s)
<1>1. ASSUME NEW p \in Nat \ {0}, Holds(code, p, Generate(s))
      PROVE  DecodesTo(p, 75, ShownAll(ops), t, Len(Generate(s)))
  BY <1>1, GotoDecoded
<1>2. PICK a, b : a = emit_instruction(75, ops) /\ b = a \o << m >>
  OBVIOUS
<1>3. Legible(b)
  <2>1. 75 \in 0 .. 127
    OBVIOUS
  <2>2. a \in Seq(Byte) /\ Len(a) >= 1
    BY <1>2, <2>1, InstructionBytes
  <2>3. << m >> \in Seq(Byte)
    BY FewBytes
  <2> QED
    BY <1>2, <2>2, <2>3, Lengthened
<1>4. Legible(b \o t)
  BY <1>3, Lengthened DEF Legible
<1>5. Generate(s) = b \o t
  BY <1>2, Zenon DEF GotoForm
<1>6. Legible(Generate(s))
  BY <1>4, <1>5
<1> QED
  BY <1>1, <1>6 DEF Sound, FoundAt

LEMMA VariadicSound ==
    ASSUME code \in Seq(Byte), NEW s, NEW op \in Variadic, NEW ops, Operable(ops), Len(ops) \in Byte,
           NEW t \in Seq(Byte), Len(t) = IF op \in HasOffset THEN 2 ELSE 0,
           Generate(s) = CountedTail(op, Len(ops), ops, t), Means(s, op, ShownAll(ops), t)
    PROVE  Sound(s)
<1>1. ASSUME NEW p \in Nat \ {0}, Holds(code, p, Generate(s))
      PROVE  DecodesTo(p, op, ShownAll(ops), t, Len(Generate(s)))
  BY <1>1, VariadicDecoded
<1>2. op \in 0 .. 127
  BY DEF Variadic
<1>3. PICK n, a : n = Len(ops) /\ a = CountedForm(op, n, ops)
  OBVIOUS
<1>4. a \in Seq(Byte) /\ Len(a) >= 1
  BY <1>2, <1>3, CountedBytes
<1>5. Legible(a \o t)
  BY <1>4, Lengthened
<1>6. Generate(s) = a \o t
  BY <1>3, Zenon DEF CountedTail
<1>7. Legible(Generate(s))
  BY <1>5, <1>6
<1> QED
  BY <1>1, <1>7 DEF Sound, FoundAt

LEMMA BlockSound ==
    ASSUME code \in Seq(Byte), NEW s, NEW op \in {77, 81, 98, 52}, NEW n \in Byte, NEW ops, Operable(ops),
           SpecialCount(op, n) = Len(ops), Generate(s) = CountedForm(op, n, ops), Means(s, op, ShownAll(ops), << n >>)
    PROVE  Sound(s)
<1>1. ASSUME NEW p \in Nat \ {0}, Holds(code, p, Generate(s))
      PROVE  DecodesTo(p, op, ShownAll(ops), << n >>, Len(Generate(s)))
  BY <1>1, BlockDecoded
<1>2. op \in 0 .. 127
  OBVIOUS
<1>3. Legible(Generate(s))
  BY <1>2, CountedBytes DEF Legible
<1> QED
  BY <1>1, <1>3 DEF Sound, FoundAt

-----------------------------------------------------------------------------
\* gen_verb's branches.  No verb is in two of them.
Others == {"MOVE", "CLEAR", "SAVE", "SEND", "CALL", "GOTO_DEPENDING_ON", "SET_ATTRIBUTE", "MAKE_FORMAT", "DEFINE_FIELD"}

LEMMA VerbsApart ==
    ASSUME NEW v
    PROVE  /\ v \in DOMAIN FixedVerb => v \notin DOMAIN PassVerb /\ v \notin DOMAIN VarVerb /\ v \notin DOMAIN ByCount /\ v \notin Others
           /\ v \in DOMAIN PassVerb => v \notin DOMAIN VarVerb /\ v \notin DOMAIN ByCount /\ v \notin Others
           /\ v \in DOMAIN VarVerb => v \notin DOMAIN ByCount /\ v \notin Others
           /\ v \in DOMAIN ByCount => v \notin Others
<1>1. DOMAIN PassVerb = {"KILL", "CANCEL", "ERASE", "SET_CURSOR", "STOP", "NAVIGATE"}
  BY DEF PassVerb
<1>2. DOMAIN VarVerb = {"STRING", "EDIT", "LINK", "TRANSFER"}
  BY DEF VarVerb
<1>3. DOMAIN ByCount = {"DIVIDE", "EXIT", "RETURN", "FETCH", "CLOSE", "CLOSE_WINDOW", "OPEN_ERROR_WINDOW", "SOUND",
                        "SET_KEY", "SET_FUNCTION", "READ", "WRITE", "CJEQ", "CJNE", "CJLT", "CJGT", "CJLE", "CJGE",
                        "JUMP"}
  BY DEF ByCount
<1>4. DOMAIN FixedVerb = {"MOVE_ABS", "ADD", "SUBTRACT", "MULTIPLY", "AND", "OR", "XOR", "TEST", "SWAP", "FILL", "PUSH",
             "POP", "SUBSTR", "INSTR", "UPPERCASE", "LENGTH", "FORMAT", "OPEN_WINDOW", "OPEN", "NOTE", "POINT", "DELETE",
             "CONNECT", "RECEIVE", "RESTORE", "RELEASE", "ERROR", "TRIGGER_FUNCTION", "SORT", "LOOKUP",
             "NAVIGATE_FIRST", "NAVIGATE_NEXT", "NAVIGATE_BACK", "NAVIGATE_LAST", "PURGE_CACHE", "REFRESH", "WAIT",
             "DISCONNECT"}
  BY DEF FixedVerb
<1> QED
  BY <1>1, <1>2, <1>3, <1>4 DEF Others

LEMMA OthersApart ==
    ASSUME NEW v \in Others
    PROVE  v \notin DOMAIN FixedVerb /\ v \notin DOMAIN PassVerb /\ v \notin DOMAIN VarVerb /\ v \notin DOMAIN ByCount
  BY VerbsApart

\* The operands a reader should be shown, but for the end of a range.
LEMMA ShownFacts ==
    ASSUME NEW ops, Operable(ops)
    PROVE  Len(ShownAll(ops)) = Len(ops) /\ DOMAIN ShownAll(ops) = 1 .. Len(ops)
<1>1. Len(ops) \in Nat /\ DOMAIN ops = 1 .. Len(ops)
  BY SequenceFacts DEF Operable
<1> QED
  BY <1>1 DEF ShownAll

LEMMA AsShown ==
    ASSUME NEW s, Operable(s.ops), << s.verb, Len(s.ops) >> \notin {<< "SAVE", 3 >>, << "CLEAR", 2 >>}
    PROVE  ShownOperands(s) = ShownAll(s.ops)
<1>1. PICK ops : ops = ShownAll(s.ops)
  OBVIOUS
<1>2. << s.verb, Len(ops) >> \notin {<< "SAVE", 3 >>, << "CLEAR", 2 >>}
  BY <1>1, ShownFacts
<1>3. ops = [i \in DOMAIN s.ops |-> Shown(s.ops[i])]
  BY <1>1, Zenon DEF ShownAll
<1> QED
  BY <1>1, <1>2, <1>3, Zenon DEF ShownOperands

\* The end of a range is shown as its last slot.
LEMMA EndShown ==
    ASSUME NEW s, Operable(s.ops), NEW n \in Nat \ {0}, n = Len(s.ops), ~ IsText(s.ops[n]),
           << s.verb, n >> \in {<< "SAVE", 3 >>, << "CLEAR", 2 >>}
    PROVE  ShownOperands(s) = ShownAll(EndOps(s.ops))
<1>1. PICK ops, end : ops = ShownAll(s.ops) /\ end = s.ops[n]
  OBVIOUS
<1>2. Len(ops) = n /\ DOMAIN ops = 1 .. n
  BY <1>1, ShownFacts
<1>3. ops # << >>
  BY <1>2
<1>4. ops = [i \in DOMAIN s.ops |-> Shown(s.ops[i])] /\ end = Last(s.ops)
  BY <1>1, Zenon DEF ShownAll, Last
<1>5. ShownAll(EndOps(s.ops)) = IF Extent(end) > 0 THEN [ops EXCEPT ![n] = EndOf(end)] ELSE ops
  <2>1. 0 \in 0 .. 127
    OBVIOUS
  <2> QED
    BY <1>1, <2>1, RangeWritten
<1>6. CASE Extent(end) > 0
  <2>1. EndOf(end) = Rda(end.n + end.size - 1)
    BY <1>6 DEF EndOf
  <2>2. ShownOperands(s) = [ops EXCEPT ![n] = Rda(end.n + end.size - 1)]
    BY <1>2, <1>3, <1>4, <1>6, Zenon DEF ShownOperands
  <2> QED
    BY <1>5, <1>6, <2>1, <2>2
<1>7. CASE ~ (Extent(end) > 0)
  <2>1. ShownOperands(s) = ops
    BY <1>4, <1>7, Zenon DEF ShownOperands
  <2> QED
    BY <1>5, <1>7, <2>1
<1> QED
  BY <1>6, <1>7

\* The statements with no other bytes.
LEMMA NoOtherBytes ==
    ASSUME NEW s, s.imm \in Seq(Byte), Len(s.imm) = 0, NEW op \in 0 .. 127, NEW ops, Operable(ops)
    PROVE  s.imm = << >> /\ emit_instruction(op, ops) = PlainForm(op, ops, s.imm)
<1>1. s.imm = << >>
  BY EmptySeq
<1>2. emit_instruction(op, ops) \in Seq(Byte)
  BY InstructionBytes
<1> QED
  BY <1>1, <1>2, NothingMore DEF PlainForm

\* Agreed, by the verb.
LEMMA AgreedFacts ==
    ASSUME NEW s, Agreed(s)
    PROVE  /\ Operable(s.ops) /\ s.imm \in Seq(Byte)
           /\ s.verb \in DOMAIN FixedVerb => Len(s.ops) = FixedVerb[s.verb][2] /\ Len(s.imm) = 0
           /\ s.verb \in DOMAIN PassVerb => Len(s.ops) = FixedCount(PassVerb[s.verb]) /\ Len(s.imm) = 0
           /\ s.verb \in DOMAIN VarVerb => Room(s.ops) /\ Len(s.imm) = 0
           /\ s.verb \in DOMAIN ByCount =>
                 /\ Len(s.ops) < Len(ByCount[s.verb]) /\ ByCount[s.verb][Len(s.ops) + 1] # 0
                 /\ Len(s.ops) = FixedCount(ByCount[s.verb][Len(s.ops) + 1])
                 /\ Len(s.imm) = IF s.verb \in Jumps THEN 2 ELSE 0
           /\ \/ s.verb \in DOMAIN FixedVerb \/ s.verb \in DOMAIN PassVerb \/ s.verb \in DOMAIN VarVerb
              \/ s.verb \in DOMAIN ByCount \/ s.verb \in Others
<1>1. Operable(s.ops) /\ s.imm \in Seq(Byte)
  BY DEF Agreed, Operable
<1>2. \/ s.verb \in DOMAIN FixedVerb /\ Len(s.ops) = FixedVerb[s.verb][2] /\ Len(s.imm) = 0
      \/ s.verb \in DOMAIN PassVerb /\ Len(s.ops) = FixedCount(PassVerb[s.verb]) /\ Len(s.imm) = 0
      \/ s.verb \in DOMAIN VarVerb /\ Room(s.ops) /\ Len(s.imm) = 0
      \/ /\ s.verb \in DOMAIN ByCount /\ Len(s.ops) < Len(ByCount[s.verb]) /\ ByCount[s.verb][Len(s.ops) + 1] # 0
         /\ Len(s.ops) = FixedCount(ByCount[s.verb][Len(s.ops) + 1]) /\ Len(s.imm) = IF s.verb \in Jumps THEN 2 ELSE 0
      \/ s.verb \in Others
  BY Zenon DEF Agreed, Others, Handled
<1> QED
  BY <1>1, <1>2, VerbsApart, Zenon

LEMMA FixedSound ==
    ASSUME code \in Seq(Byte), NEW s, Agreed(s), s.verb \in DOMAIN FixedVerb
    PROVE  Sound(s)
<1>1. Operable(s.ops) /\ s.imm \in Seq(Byte) /\ Len(s.ops) = FixedVerb[s.verb][2] /\ Len(s.imm) = 0
  BY AgreedFacts
<1>2. PICK op : op = FixedVerb[s.verb][1]
  OBVIOUS
<1>3. s.verb \notin DOMAIN PassVerb /\ s.verb \notin DOMAIN VarVerb /\ s.verb \notin DOMAIN ByCount /\ s.verb \notin Others
  BY VerbsApart
<1>4. /\ s.verb # "MOVE" /\ s.verb # "CLEAR" /\ s.verb # "SAVE" /\ s.verb # "SEND" /\ s.verb # "CALL" /\ s.verb # "GOTO_DEPENDING_ON"
      /\ s.verb # "SET_ATTRIBUTE" /\ s.verb # "MAKE_FORMAT" /\ s.verb # "DEFINE_FIELD"
  BY <1>3 DEF Others
<1>5. Row(op, Len(s.ops), Len(s.imm))
  BY <1>1, <1>2, FixedRows
<1>6. Generate(s) = emit_instruction(op, s.ops)
  BY <1>2, <1>3, <1>4, Zenon DEF Generate, Handled
<1>7. MeantOpcode(s) = op
  BY <1>2, <1>3, <1>4, Zenon DEF MeantOpcode, Handled
<1>8. ShownOperands(s) = ShownAll(s.ops)
  BY <1>1, <1>4, AsShown
<1>9. op \in 0 .. 127 /\ op \notin {77, 81, 98}
  BY <1>5 DEF Row, Special
<1>10. Generate(s) = PlainForm(op, s.ops, s.imm)
  BY <1>1, <1>6, <1>9, NoOtherBytes
<1>11. Means(s, op, ShownAll(s.ops), s.imm)
  BY <1>7, <1>8, <1>9 DEF Means
<1> QED
  BY <1>1, <1>5, <1>10, <1>11, PlainSound

LEMMA PassSound ==
    ASSUME code \in Seq(Byte), NEW s, Agreed(s), s.verb \in DOMAIN PassVerb
    PROVE  Sound(s)
<1>1. Operable(s.ops) /\ s.imm \in Seq(Byte) /\ Len(s.ops) = FixedCount(PassVerb[s.verb]) /\ Len(s.imm) = 0
  BY AgreedFacts
<1>2. PICK op : op = PassVerb[s.verb]
  OBVIOUS
<1>3. s.verb \notin DOMAIN FixedVerb /\ s.verb \notin DOMAIN VarVerb /\ s.verb \notin DOMAIN ByCount /\ s.verb \notin Others
  BY VerbsApart
<1>4. /\ s.verb # "MOVE" /\ s.verb # "CLEAR" /\ s.verb # "SAVE" /\ s.verb # "SEND" /\ s.verb # "CALL" /\ s.verb # "GOTO_DEPENDING_ON"
      /\ s.verb # "SET_ATTRIBUTE" /\ s.verb # "MAKE_FORMAT" /\ s.verb # "DEFINE_FIELD"
  BY <1>3 DEF Others
<1>5. Row(op, Len(s.ops), Len(s.imm))
  BY <1>1, <1>2, PassRows
<1>6. Generate(s) = emit_instruction(op, s.ops)
  BY <1>2, <1>3, <1>4, Zenon DEF Generate, Handled
<1>7. MeantOpcode(s) = op
  BY <1>2, <1>3, <1>4, Zenon DEF MeantOpcode, Handled
<1>8. ShownOperands(s) = ShownAll(s.ops)
  BY <1>1, <1>4, AsShown
<1>9. op \in 0 .. 127 /\ op \notin {77, 81, 98}
  BY <1>5 DEF Row, Special
<1>10. Generate(s) = PlainForm(op, s.ops, s.imm)
  BY <1>1, <1>6, <1>9, NoOtherBytes
<1>11. Means(s, op, ShownAll(s.ops), s.imm)
  BY <1>7, <1>8, <1>9 DEF Means
<1> QED
  BY <1>1, <1>5, <1>10, <1>11, PlainSound

\* The opcodes chosen by the number of operands.
Chosen(t, m) == \A i \in 1 .. Len(t) : t[i] # 0 => Row(t[i], FixedCount(t[i]), m)
LEMMA ChosenRows ==
    ASSUME NEW v \in DOMAIN ByCount
    PROVE  Chosen(ByCount[v], IF v \in Jumps THEN 2 ELSE 0)
<1>1. /\ ByCount["DIVIDE"] = << 0, 0, 43, 44 >> /\ ByCount["EXIT"] = << 74, 100 >> /\ ByCount["RETURN"] = << 72, 99 >>
      /\ ByCount["FETCH"] = << 0, 29, 30 >> /\ ByCount["CLOSE"] = << 0, 13 >> /\ ByCount["CLOSE_WINDOW"] = << 33, 34 >>
      /\ ByCount["OPEN_ERROR_WINDOW"] = << 0, 106, 109 >> /\ ByCount["SOUND"] = << 85, 86, 86 >> /\ ByCount["SET_KEY"] = << 0, 0, 0, 66 >>
      /\ ByCount["SET_FUNCTION"] = << 0, 0, 68, 69, 108 >> /\ ByCount["READ"] = << 0, 0, 14, 15 >> /\ ByCount["WRITE"] = << 0, 0, 16, 17 >>
  BY DEF ByCount
<1>2. /\ ByCount["CJEQ"] = << 0, 0, 1 >> /\ ByCount["CJNE"] = << 0, 0, 2 >> /\ ByCount["CJLT"] = << 0, 0, 3 >> /\ ByCount["CJGT"] = << 0, 0, 4 >>
      /\ ByCount["CJLE"] = << 0, 0, 5 >> /\ ByCount["CJGE"] = << 0, 0, 6 >> /\ ByCount["JUMP"] = << 7 >>
  BY DEF ByCount
<1>3. ASSUME NEW op \in {13, 14, 15, 16, 17, 29, 30, 33, 34, 43, 44, 66, 68, 69, 72, 74, 85, 86, 99, 100, 106, 108, 109} PROVE Row(op, FixedCount(op), 0)
  BY Rows DEF Row
<1>4. ASSUME NEW op \in 1 .. 7 PROVE Row(op, FixedCount(op), 2)
  BY JumpRows DEF Row
<1>5. Chosen(<< 0, 0, 43, 44 >>, 0)
  BY <1>3 DEF Chosen
<1>6. Chosen(<< 74, 100 >>, 0)
  BY <1>3 DEF Chosen
<1>7. Chosen(<< 72, 99 >>, 0)
  BY <1>3 DEF Chosen
<1>8. Chosen(<< 0, 29, 30 >>, 0)
  BY <1>3 DEF Chosen
<1>9. Chosen(<< 0, 13 >>, 0)
  BY <1>3 DEF Chosen
<1>10. Chosen(<< 33, 34 >>, 0)
  BY <1>3 DEF Chosen
<1>11. Chosen(<< 0, 106, 109 >>, 0)
  BY <1>3 DEF Chosen
<1>12. Chosen(<< 85, 86, 86 >>, 0)
  BY <1>3 DEF Chosen
<1>13. Chosen(<< 0, 0, 0, 66 >>, 0)
  BY <1>3 DEF Chosen
<1>14. Chosen(<< 0, 0, 68, 69, 108 >>, 0)
  BY <1>3 DEF Chosen
<1>15. Chosen(<< 0, 0, 14, 15 >>, 0)
  BY <1>3 DEF Chosen
<1>16. Chosen(<< 0, 0, 16, 17 >>, 0)
  BY <1>3 DEF Chosen
<1>17. Chosen(<< 7 >>, 2) /\ \A j \in 1 .. 6 : Chosen(<< 0, 0, j >>, 2)
  BY <1>4 DEF Chosen
<1>18. CASE v \in Jumps
  BY <1>2, <1>17, <1>18 DEF Jumps
<1>19. CASE v \notin Jumps
  <2>1. v \in {"DIVIDE", "EXIT", "RETURN", "FETCH", "CLOSE", "CLOSE_WINDOW", "OPEN_ERROR_WINDOW",
                 "SOUND", "SET_KEY", "SET_FUNCTION", "READ", "WRITE"}
    BY <1>19 DEF ByCount, Jumps
  <2> QED
    BY <1>1, <1>5, <1>6, <1>7, <1>8, <1>9, <1>10, <1>11, <1>12, <1>13, <1>14, <1>15, <1>16, <1>19, <2>1, SMTT(60)
<1> QED
  BY <1>18, <1>19

LEMMA CountRows ==
    ASSUME NEW v \in DOMAIN ByCount, NEW n \in Nat, n < Len(ByCount[v]), NEW op, op = ByCount[v][n + 1], op # 0,
           n = FixedCount(op)
    PROVE  Row(op, n, IF v \in Jumps THEN 2 ELSE 0)
<1>1. PICK t : t = ByCount[v]
  OBVIOUS
<1>2. Len(t) \in Nat
  <2>1. \A u \in DOMAIN ByCount : Len(ByCount[u]) \in Nat
    BY DEF ByCount
  <2> QED
    BY <1>1, <2>1
<1>3. n + 1 \in 1 .. Len(t)
  BY <1>1, <1>2
<1> QED
  BY <1>1, <1>3, ChosenRows DEF Chosen

LEMMA CountSound ==
    ASSUME code \in Seq(Byte), NEW s, Agreed(s), s.verb \in DOMAIN ByCount
    PROVE  Sound(s)
<1>1. PICK n, op, t : n = Len(s.ops) /\ op = ByCount[s.verb][n + 1] /\ t = s.imm
  OBVIOUS
<1>2. /\ Operable(s.ops) /\ t \in Seq(Byte) /\ n < Len(ByCount[s.verb]) /\ op # 0
      /\ n = FixedCount(op) /\ Len(t) = IF s.verb \in Jumps THEN 2 ELSE 0
  BY <1>1, AgreedFacts
<1>3. s.verb \notin DOMAIN FixedVerb /\ s.verb \notin DOMAIN PassVerb /\ s.verb \notin DOMAIN VarVerb /\ s.verb \notin Others
  BY VerbsApart
<1>4. /\ s.verb # "MOVE" /\ s.verb # "CLEAR" /\ s.verb # "SAVE" /\ s.verb # "SEND" /\ s.verb # "CALL" /\ s.verb # "GOTO_DEPENDING_ON"
      /\ s.verb # "SET_ATTRIBUTE" /\ s.verb # "MAKE_FORMAT" /\ s.verb # "DEFINE_FIELD"
  BY <1>3 DEF Others
<1>5. Row(op, n, Len(t))
  <2>1. n \in Nat
    BY <1>1, <1>2, SequenceFacts DEF Operable
  <2> QED
    BY <1>1, <1>2, <2>1, CountRows
<1>6. Generate(s) = emit_instruction(op, s.ops) \o s.imm
  BY <1>1, <1>3, <1>4, Zenon DEF Generate, Handled
<1>7. MeantOpcode(s) = op
  BY <1>1, <1>3, <1>4, Zenon DEF MeantOpcode, Handled
<1>8. ShownOperands(s) = ShownAll(s.ops)
  BY <1>2, <1>4, AsShown
<1>9. op \in 0 .. 127 /\ op \notin {77, 81, 98}
  BY <1>5 DEF Row, Special
<1>10. Generate(s) = PlainForm(op, s.ops, t)
  BY <1>1, <1>6, Zenon DEF PlainForm
<1>11. Means(s, op, ShownAll(s.ops), t)
  BY <1>1, <1>7, <1>8, <1>9 DEF Means
<1> QED
  BY <1>1, <1>2, <1>5, <1>10, <1>11, PlainSound

LEMMA VarSound ==
    ASSUME code \in Seq(Byte), NEW s, Agreed(s), s.verb \in DOMAIN VarVerb
    PROVE  Sound(s)
<1>1. Operable(s.ops) /\ s.imm \in Seq(Byte) /\ Room(s.ops) /\ Len(s.imm) = 0
  BY AgreedFacts
<1>2. PICK op : op = VarVerb[s.verb]
  OBVIOUS
<1>3. s.verb \notin DOMAIN FixedVerb /\ s.verb \notin DOMAIN PassVerb /\ s.verb \notin DOMAIN ByCount /\ s.verb \notin Others
  BY VerbsApart
<1>4. /\ s.verb # "MOVE" /\ s.verb # "CLEAR" /\ s.verb # "SAVE" /\ s.verb # "SEND" /\ s.verb # "CALL" /\ s.verb # "GOTO_DEPENDING_ON"
      /\ s.verb # "SET_ATTRIBUTE" /\ s.verb # "MAKE_FORMAT" /\ s.verb # "DEFINE_FIELD"
  BY <1>3 DEF Others
<1>5. op \in {54, 53, 71, 73}
  BY <1>2 DEF VarVerb
<1>6. op \in 0 .. 127 /\ op \in Variadic /\ op \notin HasOffset /\ op \notin {77, 81, 98}
  BY <1>5 DEF Variadic, HasOffset
<1>7. Generate(s) = emit_var_instruction(op, s.ops)
  BY <1>2, <1>3, <1>4, Zenon DEF Generate, Handled
<1>8. MeantOpcode(s) = op
  BY <1>2, <1>3, <1>4, Zenon DEF MeantOpcode, Handled
<1>9. ShownOperands(s) = ShownAll(s.ops)
  BY <1>1, <1>4, AsShown
<1>10. Len(s.ops) \in Byte /\ Generate(s) = CountedForm(op, Len(s.ops), s.ops)
  BY <1>1, <1>6, <1>7, VarWritten
<1>11. Generate(s) = CountedTail(op, Len(s.ops), s.ops, s.imm)
  <2>1. s.imm = << >>
    BY <1>1, EmptySeq
  <2>2. CountedForm(op, Len(s.ops), s.ops) \in Seq(Byte)
    BY <1>1, <1>6, <1>10, CountedBytes
  <2> QED
    BY <1>10, <2>1, <2>2, NothingMore DEF CountedTail
<1>12. Means(s, op, ShownAll(s.ops), s.imm)
  BY <1>6, <1>8, <1>9 DEF Means
<1>13. Len(s.imm) = IF op \in HasOffset THEN 2 ELSE 0
  BY <1>1, <1>6
<1> QED
  BY <1>1, <1>6, <1>10, <1>11, <1>12, <1>13, VariadicSound

-----------------------------------------------------------------------------
\* The verbs with a generator of their own.
LEMMA OwnFacts ==
    ASSUME NEW s, Agreed(s), s.verb \in Others
    PROVE  /\ s.verb = "MOVE" => Len(s.ops) = 2 /\ Len(s.imm) = 0
           /\ s.verb = "CLEAR" => Len(s.imm) = 0 /\ (Len(s.ops) = 1 \/ (Len(s.ops) = 2 /\ ~ IsText(s.ops[2])))
           /\ s.verb = "SAVE" => Len(s.imm) = 0 /\ (Len(s.ops) = 2 \/ (Len(s.ops) = 3 /\ ~ IsText(s.ops[3])))
           /\ s.verb = "SEND" => Len(s.ops) \in {1, 2} /\ Len(s.imm) = 3
           /\ s.verb = "CALL" => Room(s.ops) /\ Len(s.imm) = 2
           /\ s.verb = "GOTO_DEPENDING_ON" => Len(s.ops) = 1 /\ Len(s.imm) % 2 = 0 /\ Len(s.imm) \div 2 <= 255
           /\ s.verb = "SET_ATTRIBUTE" =>
                 /\ Len(s.imm) = 4
                 /\ \/ Len(s.ops) = 1 /\ ~ HasForm(s.imm)
                    \/ Len(s.ops) = 2 /\ IsText(s.ops[2]) /\ HasForm(s.imm)
           /\ s.verb = "MAKE_FORMAT" => Len(s.ops) % 3 = 1 /\ Len(s.ops) \div 3 <= 255 /\ Len(s.imm) = 0
           /\ s.verb = "DEFINE_FIELD" =>
                 /\ Len(s.ops) \in {5, 6} /\ Len(s.imm) = 0
                 /\ \A i \in 5 .. Len(s.ops) : ~ needs_extended_encoding(s.ops[i])
<1>1. s.verb \notin DOMAIN FixedVerb /\ s.verb \notin DOMAIN PassVerb /\ s.verb \notin DOMAIN VarVerb /\ ~ Handled(s)
  BY OthersApart DEF Handled
<1> QED
  BY <1>1 DEF Agreed

LEMMA OperandExtent ==
    ASSUME NEW o, IsOperand(o)
    PROVE  \/ Extent(o) = 0
           \/ Extent(o) > 0 /\ Extent(o) \in Byte
<1>1. CASE HasExtent(o)
  <2>1. PICK k \in {"RDA", "GROUP"}, n \in 0 .. 221, z \in 1 .. 222 :
         o = [k |-> k, n |-> n, size |-> z] /\ n + z <= 222
    BY <1>1, ExtentForm
  <2>2. Extent(o) = z
    BY <2>1 DEF Extent
  <2> QED
    BY <2>2 DEF Byte
<1>2. CASE IsEdge(o)
  <2>1. DOMAIN o = {"k", "n"}
    BY <1>2 DEF IsEdge, Edge
  <2> QED
    BY <2>1 DEF Extent
<1>3. CASE o \in Variable
  <2>1. DOMAIN o = {"k", "n"}
    BY <1>3, Kinds DEF RegI, RegD, RegP, Rda, Pev, Gev
  <2> QED
    BY <2>1 DEF Extent
<1>4. CASE IsText(o)
  <2>1. DOMAIN o = {"k", "n"}
    BY <1>4 DEF IsText, Text
  <2> QED
    BY <2>1 DEF Extent
<1>5. CASE IsConst(o)
  <2>1. DOMAIN o = {"k", "n", "base"}
    BY <1>5 DEF IsConst, Const
  <2> QED
    BY <2>1 DEF Extent
<1>6. CASE IsAt(o)
  <2>1. DOMAIN o = {"k", "n", "base", "idx"}
    BY <1>6 DEF IsAt, At
  <2> QED
    BY <2>1 DEF Extent
<1> QED
  BY <1>1, <1>2, <1>3, <1>4, <1>5, <1>6 DEF IsOperand, IsDirect

LEMMA MoveSound ==
    ASSUME code \in Seq(Byte), NEW s, Agreed(s), s.verb = "MOVE"
    PROVE  Sound(s)
<1>1. /\ s.verb # "CLEAR" /\ s.verb # "SAVE" /\ s.verb # "SEND" /\ s.verb # "CALL" /\ s.verb # "GOTO_DEPENDING_ON"
      /\ s.verb # "SET_ATTRIBUTE" /\ s.verb # "MAKE_FORMAT" /\ s.verb # "DEFINE_FIELD" /\ s.verb \in Others
  BY DEF Others
<1>2. /\ s.verb \notin DOMAIN FixedVerb /\ s.verb \notin DOMAIN PassVerb /\ s.verb \notin DOMAIN VarVerb
      /\ s.verb \notin DOMAIN ByCount
  BY <1>1, OthersApart
<1>3. Operable(s.ops) /\ s.imm \in Seq(Byte) /\ Len(s.ops) = 2 /\ Len(s.imm) = 0
  BY <1>1, AgreedFacts, OwnFacts
<1>4. PICK z : z = Extent(s.ops[1])
  OBVIOUS
<1>5. z = 0 \/ (z > 0 /\ z \in Byte)
  <2>1. 1 \in DOMAIN s.ops
    BY <1>3, SequenceFacts DEF Operable
  <2>2. IsOperand(s.ops[1])
    BY <1>3, <2>1 DEF Operable
  <2> QED
    BY <1>4, <2>2, OperandExtent
<1>6. ShownOperands(s) = ShownAll(s.ops)
  BY <1>1, <1>3, AsShown
<1>7. s.imm = << >>
  BY <1>3, EmptySeq
<1>8. CASE Block(s.ops)
  <2>0. z > 0
    BY <1>4, <1>8, Zenon DEF Block
  <2>1. Generate(s) = emit_counted(98, z, s.ops)
    BY <1>1, <1>2, <1>4, <1>8, Zenon DEF Generate, Handled
  <2>2. MeantOpcode(s) = 98
    BY <1>1, <1>2, <1>4, <1>8, Zenon DEF MeantOpcode, Handled
  <2>3. SlotCount(s) = z
    <3>1. s.verb \in {"CLEAR", "MOVE"}
      OBVIOUS
    <3> QED
      BY <1>1, <1>4, <2>0, <3>1, Zenon DEF SlotCount
  <2>4. 98 \in 0 .. 127 /\ z \in Byte /\ Len(s.ops) <= 8 /\ 98 \in {77, 81, 98, 52}
    BY <1>3, <1>5, <2>0
  <2>5. Generate(s) = CountedForm(98, z, s.ops)
    <3>1. 98 \in 0 .. 127 /\ z \in Byte /\ Operable(s.ops) /\ Len(s.ops) <= 8
      BY <1>3, <2>4
    <3>2. emit_counted(98, z, s.ops) = CountedForm(98, z, s.ops)
      BY <3>1, CountedWritten
    <3> QED
      BY <2>1, <3>2
  <2>6. SpecialCount(98, z) = Len(s.ops)
    BY <1>3 DEF SpecialCount
  <2>7. Means(s, 98, ShownAll(s.ops), << z >>)
    BY <1>6, <1>7, <2>2, <2>3 DEF Means
  <2> QED
    BY <1>3, <2>4, <2>5, <2>6, <2>7, BlockSound
<1>9. CASE ~ Block(s.ops)
  <2>1. Generate(s) = emit_instruction(37, s.ops)
    BY <1>1, <1>2, <1>4, <1>9, Zenon DEF Generate, Handled
  <2>2. MeantOpcode(s) = 37
    BY <1>1, <1>2, <1>4, <1>9, Zenon DEF MeantOpcode, Handled
  <2>3. Row(37, Len(s.ops), Len(s.imm))
    BY <1>3, Rows
  <2>4. 37 \in 0 .. 127
    OBVIOUS
  <2>5. Generate(s) = PlainForm(37, s.ops, s.imm)
    BY <1>3, <2>1, <2>4, NoOtherBytes
  <2>6. Means(s, 37, ShownAll(s.ops), s.imm)
    BY <1>6, <2>2 DEF Means
  <2> QED
    BY <1>3, <2>3, <2>5, <2>6, PlainSound
<1> QED
  BY <1>8, <1>9

LEMMA ClearSound ==
    ASSUME code \in Seq(Byte), NEW s, Agreed(s), s.verb = "CLEAR"
    PROVE  Sound(s)
<1>1. /\ s.verb # "MOVE" /\ s.verb # "SAVE" /\ s.verb # "SEND" /\ s.verb # "CALL"
      /\ s.verb # "GOTO_DEPENDING_ON" /\ s.verb # "SET_ATTRIBUTE" /\ s.verb # "MAKE_FORMAT" /\ s.verb # "DEFINE_FIELD"
      /\ s.verb \in Others
  BY DEF Others
<1>2. /\ s.verb \notin DOMAIN FixedVerb /\ s.verb \notin DOMAIN PassVerb /\ s.verb \notin DOMAIN VarVerb
      /\ s.verb \notin DOMAIN ByCount
  BY <1>1, OthersApart
<1>3. /\ Operable(s.ops) /\ s.imm \in Seq(Byte)
      /\ Len(s.imm) = 0 /\ (Len(s.ops) = 1 \/ (Len(s.ops) = 2 /\ ~ IsText(s.ops[2])))
  BY <1>1, AgreedFacts, OwnFacts
<1>4. s.imm = << >>
  BY <1>3, EmptySeq
<1>5. CASE Len(s.ops) = 2
  <2>1. Generate(s) = emit_range_instruction(82, s.ops)
    BY <1>1, <1>2, <1>5, Zenon DEF Generate, Handled
  <2>2. MeantOpcode(s) = 82
    <3>1. MeantOpcode(s) = 80 + Len(s.ops)
      BY <1>1, <1>2, Zenon DEF MeantOpcode, Handled
    <3> QED
      BY <1>5, <3>1
  <2>3. ~ IsText(s.ops[2]) /\ << s.verb, 2 >> \in {<< "SAVE", 3 >>, << "CLEAR", 2 >>}
    BY <1>3, <1>5
  <2>4. PICK es : es = EndOps(s.ops)
    OBVIOUS
  <2>5. 82 \in 0 .. 127
    OBVIOUS
  <2>6. Operable(es) /\ Len(es) = 2 /\ emit_range_instruction(82, s.ops) = emit_instruction(82, es)
    <3>1. PICK ops, n : ops = s.ops /\ n = 2
      OBVIOUS
    <3>2. n \in Nat \ {0} /\ n = Len(ops) /\ ~ IsText(ops[n]) /\ Operable(ops)
      BY <1>3, <1>5, <2>3, <3>1
    <3>3. Operable(EndOps(ops)) /\ Len(EndOps(ops)) = n
      BY <2>5, <3>2, RangeWritten
    <3>4. emit_range_instruction(82, ops) = emit_instruction(82, EndOps(ops))
      BY <2>5, <3>2, RangeWritten
    <3> QED
      BY <2>4, <3>1, <3>3, <3>4
  <2>7. ShownOperands(s) = ShownAll(es)
    <3>1. 2 \in Nat \ {0}
      OBVIOUS
    <3> QED
      BY <1>3, <1>5, <2>3, <2>4, <3>1, EndShown
  <2>8. Row(82, Len(es), Len(s.imm))
    BY <1>3, <2>6, Rows
  <2>9. Generate(s) = PlainForm(82, es, s.imm)
    BY <1>3, <2>1, <2>5, <2>6, NoOtherBytes
  <2>10. Means(s, 82, ShownAll(es), s.imm)
    BY <2>2, <2>7 DEF Means
  <2> QED
    BY <1>3, <2>6, <2>8, <2>9, <2>10, PlainSound
<1>6. CASE Len(s.ops) = 1
  <2>1. PICK z, n : z = Extent(s.ops[1]) /\ n = IF z > 0 THEN z ELSE 1
    OBVIOUS
  <2>2. (z = 0 \/ (z > 0 /\ z \in Byte)) /\ n \in Byte
    <3>1. 1 \in DOMAIN s.ops
      BY <1>3, <1>6, SequenceFacts DEF Operable
    <3>2. IsOperand(s.ops[1])
      BY <1>3, <3>1 DEF Operable
    <3>3. z = 0 \/ (z > 0 /\ z \in Byte)
      BY <2>1, <3>2, OperandExtent
    <3>4. 1 \in Byte
      BY DEF Byte
    <3> QED
      BY <2>1, <3>3, <3>4
  <2>3. << s.verb, Len(s.ops) >> \notin {<< "SAVE", 3 >>, << "CLEAR", 2 >>} /\ Len(s.ops) # 2
    BY <1>6
  <2>4. ShownOperands(s) = ShownAll(s.ops)
    BY <1>3, <2>3, AsShown
  <2>5. MeantOpcode(s) = 81
    <3>1. MeantOpcode(s) = 80 + Len(s.ops)
      BY <1>1, <1>2, Zenon DEF MeantOpcode, Handled
    <3> QED
      BY <1>6, <3>1
  <2>6. SlotCount(s) = n
    <3>1. s.verb \in {"CLEAR", "MOVE"}
      OBVIOUS
    <3> QED
      BY <1>1, <2>1, <3>1, Zenon DEF SlotCount
  <2>7. 81 \in 0 .. 127 /\ Len(s.ops) <= 8 /\ 81 \in {77, 81, 98, 52}
    BY <1>6
  <2>8. Generate(s) = CountedForm(81, n, s.ops)
    <3>1. CASE z > 0
      <4>1. Generate(s) = emit_counted(81, z, s.ops)
        BY <1>1, <1>2, <2>1, <2>3, <3>1, Zenon DEF Generate, Handled
      <4>2. z \in Byte /\ n = z
        BY <2>1, <2>2, <3>1
      <4>3. emit_counted(81, z, s.ops) = CountedForm(81, z, s.ops)
        BY <1>3, <2>7, <4>2, CountedWritten
      <4> QED
        BY <4>1, <4>2, <4>3
    <3>2. CASE ~ (z > 0)
      <4>1. Generate(s) = emit_var_instruction(81, s.ops)
        BY <1>1, <1>2, <2>1, <2>3, <3>2, Zenon DEF Generate, Handled
      <4>2. n = Len(s.ops)
        BY <1>6, <2>1, <3>2
      <4>3. Room(s.ops)
        BY <1>6 DEF Room
      <4>4. emit_var_instruction(81, s.ops) = CountedForm(81, Len(s.ops), s.ops)
        BY <1>3, <2>7, <4>3, VarWritten
      <4> QED
        BY <4>1, <4>2, <4>4
    <3> QED
      BY <3>1, <3>2
  <2>9. SpecialCount(81, n) = Len(s.ops)
    BY <1>6 DEF SpecialCount
  <2>10. Means(s, 81, ShownAll(s.ops), << n >>)
    BY <1>4, <2>4, <2>5, <2>6 DEF Means
  <2> QED
    BY <1>3, <2>2, <2>7, <2>8, <2>9, <2>10, BlockSound
<1> QED
  BY <1>3, <1>5, <1>6

LEMMA SaveSound ==
    ASSUME code \in Seq(Byte), NEW s, Agreed(s), s.verb = "SAVE"
    PROVE  Sound(s)
<1>1. /\ s.verb # "MOVE" /\ s.verb # "CLEAR" /\ s.verb # "SEND" /\ s.verb # "CALL"
      /\ s.verb # "GOTO_DEPENDING_ON" /\ s.verb # "SET_ATTRIBUTE" /\ s.verb # "MAKE_FORMAT" /\ s.verb # "DEFINE_FIELD"
      /\ s.verb \in Others
  BY DEF Others
<1>2. /\ s.verb \notin DOMAIN FixedVerb /\ s.verb \notin DOMAIN PassVerb /\ s.verb \notin DOMAIN VarVerb
      /\ s.verb \notin DOMAIN ByCount
  BY <1>1, OthersApart
<1>3. /\ Operable(s.ops) /\ s.imm \in Seq(Byte)
      /\ Len(s.imm) = 0 /\ (Len(s.ops) = 2 \/ (Len(s.ops) = 3 /\ ~ IsText(s.ops[3])))
  BY <1>1, AgreedFacts, OwnFacts
<1>4. s.imm = << >>
  BY <1>3, EmptySeq
<1>5. CASE Len(s.ops) = 3
  <2>1. Generate(s) = emit_range_instruction(78, s.ops)
    BY <1>1, <1>2, <1>5, Zenon DEF Generate, Handled
  <2>2. MeantOpcode(s) = 78
    <3>1. MeantOpcode(s) = 75 + Len(s.ops)
      BY <1>1, <1>2, Zenon DEF MeantOpcode, Handled
    <3> QED
      BY <1>5, <3>1
  <2>3. ~ IsText(s.ops[3]) /\ << s.verb, 3 >> \in {<< "SAVE", 3 >>, << "CLEAR", 2 >>}
    BY <1>3, <1>5
  <2>4. PICK es : es = EndOps(s.ops)
    OBVIOUS
  <2>5. 78 \in 0 .. 127
    OBVIOUS
  <2>6. Operable(es) /\ Len(es) = 3 /\ emit_range_instruction(78, s.ops) = emit_instruction(78, es)
    <3>1. PICK ops, n : ops = s.ops /\ n = 3
      OBVIOUS
    <3>2. n \in Nat \ {0} /\ n = Len(ops) /\ ~ IsText(ops[n]) /\ Operable(ops)
      BY <1>3, <1>5, <2>3, <3>1
    <3>3. Operable(EndOps(ops)) /\ Len(EndOps(ops)) = n
      BY <2>5, <3>2, RangeWritten
    <3>4. emit_range_instruction(78, ops) = emit_instruction(78, EndOps(ops))
      BY <2>5, <3>2, RangeWritten
    <3> QED
      BY <2>4, <3>1, <3>3, <3>4
  <2>7. ShownOperands(s) = ShownAll(es)
    <3>1. 3 \in Nat \ {0}
      OBVIOUS
    <3> QED
      BY <1>3, <1>5, <2>3, <2>4, <3>1, EndShown
  <2>8. Row(78, Len(es), Len(s.imm))
    BY <1>3, <2>6, Rows
  <2>9. Generate(s) = PlainForm(78, es, s.imm)
    BY <1>3, <2>1, <2>5, <2>6, NoOtherBytes
  <2>10. Means(s, 78, ShownAll(es), s.imm)
    BY <2>2, <2>7 DEF Means
  <2> QED
    BY <1>3, <2>6, <2>8, <2>9, <2>10, PlainSound
<1>6. CASE Len(s.ops) = 2
  <2>1. PICK z, n : z = Extent(s.ops[2]) /\ n = IF z > 0 THEN z ELSE 1
    OBVIOUS
  <2>2. n \in Byte
    <3>1. 2 \in DOMAIN s.ops
      BY <1>3, <1>6, SequenceFacts DEF Operable
    <3>2. IsOperand(s.ops[2])
      BY <1>3, <3>1 DEF Operable
    <3>3. z = 0 \/ (z > 0 /\ z \in Byte)
      BY <2>1, <3>2, OperandExtent
    <3>4. 1 \in Byte
      BY DEF Byte
    <3> QED
      BY <2>1, <3>3, <3>4
  <2>3. << s.verb, Len(s.ops) >> \notin {<< "SAVE", 3 >>, << "CLEAR", 2 >>} /\ Len(s.ops) # 3
    BY <1>6
  <2>4. ShownOperands(s) = ShownAll(s.ops)
    BY <1>3, <2>3, AsShown
  <2>5. MeantOpcode(s) = 77
    <3>1. MeantOpcode(s) = 75 + Len(s.ops)
      BY <1>1, <1>2, Zenon DEF MeantOpcode, Handled
    <3> QED
      BY <1>6, <3>1
  <2>6. SlotCount(s) = n
    <3>1. s.verb \notin {"CLEAR", "MOVE"}
      OBVIOUS
    <3> QED
      BY <1>1, <1>6, <2>1, <3>1, Zenon DEF SlotCount
  <2>7. 77 \in 0 .. 127 /\ Len(s.ops) <= 8 /\ 77 \in {77, 81, 98, 52}
    BY <1>6
  <2>8. Generate(s) = CountedForm(77, n, s.ops)
    <3>1. Generate(s) = emit_counted(77, n, s.ops)
      BY <1>1, <1>2, <2>1, <2>3, Zenon DEF Generate, Handled
    <3>2. emit_counted(77, n, s.ops) = CountedForm(77, n, s.ops)
      BY <1>3, <2>2, <2>7, CountedWritten
    <3> QED
      BY <3>1, <3>2
  <2>9. SpecialCount(77, n) = Len(s.ops)
    BY <1>6 DEF SpecialCount
  <2>10. Means(s, 77, ShownAll(s.ops), << n >>)
    BY <1>4, <2>4, <2>5, <2>6 DEF Means
  <2> QED
    BY <1>3, <2>2, <2>7, <2>8, <2>9, <2>10, BlockSound
<1> QED
  BY <1>3, <1>5, <1>6

LEMMA SendVerbSound ==
    ASSUME code \in Seq(Byte), NEW s, Agreed(s), s.verb = "SEND"
    PROVE  Sound(s)
<1>1. /\ s.verb # "MOVE" /\ s.verb # "CLEAR" /\ s.verb # "SAVE" /\ s.verb # "CALL"
      /\ s.verb # "GOTO_DEPENDING_ON" /\ s.verb # "SET_ATTRIBUTE" /\ s.verb # "MAKE_FORMAT" /\ s.verb # "DEFINE_FIELD"
      /\ s.verb \in Others
  BY DEF Others
<1>2. /\ s.verb \notin DOMAIN FixedVerb /\ s.verb \notin DOMAIN PassVerb /\ s.verb \notin DOMAIN VarVerb
      /\ s.verb \notin DOMAIN ByCount
  BY <1>1, OthersApart
<1>3. /\ Operable(s.ops) /\ s.imm \in Seq(Byte)
      /\ Len(s.ops) \in {1, 2} /\ Len(s.imm) = 3
  BY <1>1, AgreedFacts, OwnFacts
<1>4. PICK op : op = 19 + Len(s.ops)
  OBVIOUS
<1>5. op \in {20, 21} /\ Len(s.ops) = op - 19
  <2>1. ASSUME NEW k \in {1, 2} PROVE 19 + k \in {20, 21} /\ k = (19 + k) - 19
    <3>1. CASE k = 1
      BY <3>1
    <3>2. CASE k = 2
      BY <3>2
    <3> QED
      BY <3>1, <3>2
  <2>2. Len(s.ops) \in {1, 2}
    BY <1>3
  <2> QED
    BY <1>4, <2>1, <2>2
<1>6. Generate(s) = emit_instruction(op, s.ops) \o s.imm
  BY <1>1, <1>2, <1>4, Zenon DEF Generate, Handled
<1>7. MeantOpcode(s) = op
  BY <1>1, <1>2, <1>4, Zenon DEF MeantOpcode, Handled
<1>8. ShownOperands(s) = ShownAll(s.ops)
  BY <1>1, <1>3, AsShown
<1>9. Generate(s) = PlainForm(op, s.ops, s.imm)
  BY <1>6, Zenon DEF PlainForm
<1>10. Means(s, op, ShownAll(s.ops), s.imm)
  BY <1>5, <1>7, <1>8 DEF Means
<1> QED
  BY <1>3, <1>5, <1>9, <1>10, SendSound

LEMMA CallSound ==
    ASSUME code \in Seq(Byte), NEW s, Agreed(s), s.verb = "CALL"
    PROVE  Sound(s)
<1>1. /\ s.verb # "MOVE" /\ s.verb # "CLEAR" /\ s.verb # "SAVE" /\ s.verb # "SEND"
      /\ s.verb # "GOTO_DEPENDING_ON" /\ s.verb # "SET_ATTRIBUTE" /\ s.verb # "MAKE_FORMAT" /\ s.verb # "DEFINE_FIELD"
      /\ s.verb \in Others
  BY DEF Others
<1>2. /\ s.verb \notin DOMAIN FixedVerb /\ s.verb \notin DOMAIN PassVerb /\ s.verb \notin DOMAIN VarVerb
      /\ s.verb \notin DOMAIN ByCount
  BY <1>1, OthersApart
<1>3. /\ Operable(s.ops) /\ s.imm \in Seq(Byte)
      /\ Room(s.ops) /\ Len(s.imm) = 2
  BY <1>1, AgreedFacts, OwnFacts
<1>4. 70 \in 0 .. 127 /\ 70 \in Variadic /\ 70 \in HasOffset
  BY DEF Variadic, HasOffset
<1>5. Generate(s) = emit_var_instruction(70, s.ops) \o s.imm
  BY <1>1, <1>2, Zenon DEF Generate, Handled, gen_proc_call
<1>6. MeantOpcode(s) = 70
  <2>1. MeantOpcode(s) = [CALL |-> 70, GOTO_DEPENDING_ON |-> 75, SET_ATTRIBUTE |-> 10,
                          MAKE_FORMAT |-> 52, START |-> 64][s.verb]
    BY <1>1, <1>2, Zenon DEF MeantOpcode, Handled
  <2> QED
    BY <2>1
<1>7. ShownOperands(s) = ShownAll(s.ops)
  BY <1>1, <1>3, AsShown
<1>8. Len(s.ops) \in Byte /\ emit_var_instruction(70, s.ops) = CountedForm(70, Len(s.ops), s.ops)
  BY <1>3, <1>4, VarWritten
<1>9. Generate(s) = CountedTail(70, Len(s.ops), s.ops, s.imm)
  BY <1>5, <1>8, Zenon DEF CountedTail
<1>10. Means(s, 70, ShownAll(s.ops), s.imm)
  BY <1>6, <1>7 DEF Means
<1>11. Len(s.imm) = IF 70 \in HasOffset THEN 2 ELSE 0
  BY <1>3, <1>4
<1> QED
  BY <1>3, <1>4, <1>8, <1>9, <1>10, <1>11, VariadicSound

LEMMA GotoVerbSound ==
    ASSUME code \in Seq(Byte), NEW s, Agreed(s), s.verb = "GOTO_DEPENDING_ON"
    PROVE  Sound(s)
<1>1. /\ s.verb # "MOVE" /\ s.verb # "CLEAR" /\ s.verb # "SAVE" /\ s.verb # "SEND"
      /\ s.verb # "CALL" /\ s.verb # "SET_ATTRIBUTE" /\ s.verb # "MAKE_FORMAT" /\ s.verb # "DEFINE_FIELD"
      /\ s.verb \in Others
  BY DEF Others
<1>2. /\ s.verb \notin DOMAIN FixedVerb /\ s.verb \notin DOMAIN PassVerb /\ s.verb \notin DOMAIN VarVerb
      /\ s.verb \notin DOMAIN ByCount
  BY <1>1, OthersApart
<1>3. /\ Operable(s.ops) /\ s.imm \in Seq(Byte)
      /\ Len(s.ops) = 1 /\ Len(s.imm) % 2 = 0 /\ Len(s.imm) \div 2 <= 255
  BY <1>1, AgreedFacts, OwnFacts
<1>4. PICK m : m = Len(s.imm) \div 2
  OBVIOUS
<1>5. m \in Byte /\ Len(s.imm) = 2 * m
  <2>1. ASSUME NEW k \in Nat, k % 2 = 0, k \div 2 <= 255 PROVE k \div 2 \in 0 .. 255 /\ k = 2 * (k \div 2)
    BY <2>1
  <2>2. Len(s.imm) \in Nat
    BY <1>3, BytesFacts
  <2> QED
    BY <1>3, <1>4, <2>1, <2>2 DEF Byte
<1>6. Generate(s) = emit_instruction(75, s.ops) \o << m >> \o s.imm
  BY <1>1, <1>2, <1>4, Zenon DEF Generate, Handled
<1>7. MeantOpcode(s) = 75
  <2>1. MeantOpcode(s) = [CALL |-> 70, GOTO_DEPENDING_ON |-> 75, SET_ATTRIBUTE |-> 10,
                          MAKE_FORMAT |-> 52, START |-> 64][s.verb]
    BY <1>1, <1>2, Zenon DEF MeantOpcode, Handled
  <2> QED
    BY <2>1
<1>8. ShownOperands(s) = ShownAll(s.ops)
  BY <1>1, <1>3, AsShown
<1>9. Generate(s) = GotoForm(s.ops, m, s.imm)
  BY <1>6, Zenon DEF GotoForm
<1>10. Means(s, 75, ShownAll(s.ops), s.imm)
  BY <1>7, <1>8 DEF Means
<1> QED
  BY <1>3, <1>5, <1>9, <1>10, GotoSound

LEMMA AttributeVerbSound ==
    ASSUME code \in Seq(Byte), NEW s, Agreed(s), s.verb = "SET_ATTRIBUTE"
    PROVE  Sound(s)
<1>1. /\ s.verb # "MOVE" /\ s.verb # "CLEAR" /\ s.verb # "SAVE" /\ s.verb # "SEND"
      /\ s.verb # "CALL" /\ s.verb # "GOTO_DEPENDING_ON" /\ s.verb # "MAKE_FORMAT" /\ s.verb # "DEFINE_FIELD"
      /\ s.verb \in Others
  BY DEF Others
<1>2. /\ s.verb \notin DOMAIN FixedVerb /\ s.verb \notin DOMAIN PassVerb /\ s.verb \notin DOMAIN VarVerb
      /\ s.verb \notin DOMAIN ByCount
  BY <1>1, OthersApart
<1>3. /\ Operable(s.ops) /\ s.imm \in Seq(Byte)
      /\ Len(s.imm) = 4
      /\ \/ Len(s.ops) = 1 /\ ~ HasForm(s.imm)
         \/ Len(s.ops) = 2 /\ IsText(s.ops[2]) /\ HasForm(s.imm)
  BY <1>1, AgreedFacts, OwnFacts
<1>4. Generate(s) = gen_set_attribute(s.ops, s.imm)
  BY <1>1, <1>2, Zenon DEF Generate, Handled
<1>5. MeantOpcode(s) = 10
  <2>1. MeantOpcode(s) = [CALL |-> 70, GOTO_DEPENDING_ON |-> 75, SET_ATTRIBUTE |-> 10,
                          MAKE_FORMAT |-> 52, START |-> 64][s.verb]
    BY <1>1, <1>2, Zenon DEF MeantOpcode, Handled
  <2> QED
    BY <2>1
<1>6. ShownOperands(s) = ShownAll(s.ops)
  BY <1>1, <1>3, AsShown
<1>7. PICK first : first = << s.ops[1] >>
  OBVIOUS
<1>8. /\ Operable(first) /\ Len(first) = 1 /\ ShownAll(first) = << Shown(s.ops[1]) >>
      /\ Len(s.ops) = 1 => Generate(s) = PlainForm(10, first, s.imm)
      /\ Len(s.ops) = 2 => Generate(s) = AttributeForm(first, s.imm, s.ops[2].n)
  <2>1. Len(s.ops) \in 1 .. 2
    BY <1>3
  <2> QED
    BY <1>3, <1>4, <1>7, <2>1, AttributeWritten
<1>9. DOMAIN s.ops = 1 .. Len(s.ops)
  BY <1>3, SequenceFacts DEF Operable
<1>10. CASE Len(s.ops) = 1
  <2>1. ShownAll(s.ops) = << Shown(s.ops[1]) >>
    BY <1>9, <1>10 DEF ShownAll
  <2>2. Means(s, 10, ShownAll(first), s.imm)
    BY <1>5, <1>6, <1>8, <2>1 DEF Means
  <2>3. ~ HasForm(s.imm)
    BY <1>3, <1>10
  <2> QED
    BY <1>3, <1>8, <1>10, <2>2, <2>3, AttributesSound
<1>11. CASE Len(s.ops) = 2
  <2>1. IsText(s.ops[2]) /\ HasForm(s.imm)
    BY <1>3, <1>11
  <2>2. PICK text : text = s.ops[2].n
    OBVIOUS
  <2>3. Shown(s.ops[2]) = Text(text) /\ text \in Seq(Byte)
    BY <2>1, <2>2, TextBytes
  <2>4. Len(text) <= 255
    BY <2>1, <2>2 DEF IsText
  <2>5. ShownAll(s.ops) = << Shown(s.ops[1]), Shown(s.ops[2]) >>
    BY <1>9, <1>11 DEF ShownAll
  <2>6. Append(ShownAll(first), Text(text)) = << Shown(s.ops[1]), Text(text) >>
    <3>1. PICK x, y : x = Shown(s.ops[1]) /\ y = Text(text)
      OBVIOUS
    <3>2. << x >> \in Seq({x, y}) /\ y \in {x, y}
      OBVIOUS
    <3>3. Append(<< x >>, y) = << x >> \o << y >>
      BY <3>2, AppendIsConcat
    <3>4. << x >> \o << y >> = << x, y >>
      BY TwoInOne
    <3> QED
      BY <1>8, <3>1, <3>3, <3>4
  <2>7. Means(s, 10, Append(ShownAll(first), Text(text)), s.imm)
    BY <1>5, <1>6, <2>3, <2>5, <2>6 DEF Means
  <2> QED
    BY <1>3, <1>8, <1>11, <2>1, <2>2, <2>3, <2>4, <2>7, FormSound
<1> QED
  BY <1>3, <1>10, <1>11

LEMMA FormatSound ==
    ASSUME code \in Seq(Byte), NEW s, Agreed(s), s.verb = "MAKE_FORMAT"
    PROVE  Sound(s)
<1>1. /\ s.verb # "MOVE" /\ s.verb # "CLEAR" /\ s.verb # "SAVE" /\ s.verb # "SEND"
      /\ s.verb # "CALL" /\ s.verb # "GOTO_DEPENDING_ON" /\ s.verb # "SET_ATTRIBUTE" /\ s.verb # "DEFINE_FIELD"
      /\ s.verb \in Others
  BY DEF Others
<1>2. /\ s.verb \notin DOMAIN FixedVerb /\ s.verb \notin DOMAIN PassVerb /\ s.verb \notin DOMAIN VarVerb
      /\ s.verb \notin DOMAIN ByCount
  BY <1>1, OthersApart
<1>3. /\ Operable(s.ops) /\ s.imm \in Seq(Byte)
      /\ Len(s.ops) % 3 = 1 /\ Len(s.ops) \div 3 <= 255 /\ Len(s.imm) = 0
  BY <1>1, AgreedFacts, OwnFacts
<1>4. PICK c : c = (Len(s.ops) - 1) \div 3
  OBVIOUS
<1>5. Generate(s) = gen_make_format(s.ops)
  BY <1>1, <1>2, Zenon DEF Generate, Handled
<1>6. MeantOpcode(s) = 52
  <2>1. MeantOpcode(s) = [CALL |-> 70, GOTO_DEPENDING_ON |-> 75, SET_ATTRIBUTE |-> 10,
                          MAKE_FORMAT |-> 52, START |-> 64][s.verb]
    BY <1>1, <1>2, Zenon DEF MeantOpcode, Handled
  <2> QED
    BY <2>1
<1>7. ShownOperands(s) = ShownAll(s.ops)
  BY <1>1, <1>3, AsShown
<1>8. c \in Byte /\ SpecialCount(52, c) = Len(s.ops) /\ Generate(s) = CountedForm(52, c, s.ops)
  BY <1>3, <1>4, <1>5, FormatWritten
<1>9. s.imm = << >>
  BY <1>3, EmptySeq
<1>10. Means(s, 52, ShownAll(s.ops), << c >>)
  BY <1>6, <1>7, <1>9 DEF Means
<1>11. 52 \in {77, 81, 98, 52}
  OBVIOUS
<1> QED
  BY <1>3, <1>8, <1>10, <1>11, BlockSound

LEMMA DefineFieldSound ==
    ASSUME code \in Seq(Byte), NEW s, Agreed(s), s.verb = "DEFINE_FIELD"
    PROVE  Sound(s)
<1>1. /\ s.verb # "MOVE" /\ s.verb # "CLEAR" /\ s.verb # "SAVE" /\ s.verb # "SEND"
      /\ s.verb # "CALL" /\ s.verb # "GOTO_DEPENDING_ON" /\ s.verb # "SET_ATTRIBUTE" /\ s.verb # "MAKE_FORMAT"
      /\ s.verb \in Others
  BY DEF Others
<1>2. /\ s.verb \notin DOMAIN FixedVerb /\ s.verb \notin DOMAIN PassVerb /\ s.verb \notin DOMAIN VarVerb
      /\ s.verb \notin DOMAIN ByCount
  BY <1>1, OthersApart
<1>3. /\ Operable(s.ops) /\ s.imm \in Seq(Byte)
      /\ Len(s.ops) \in {5, 6} /\ Len(s.imm) = 0 /\ \A i \in 5 .. Len(s.ops) : ~ needs_extended_encoding(s.ops[i])
  BY <1>1, AgreedFacts, OwnFacts
<1>4. PICK op : op = 3 + Len(s.ops)
  OBVIOUS
<1>5. op \in {8, 9} /\ Len(s.ops) = op - 3 /\ Len(s.ops) \in 5 .. 6
  <2>1. ASSUME NEW k \in {5, 6} PROVE 3 + k \in {8, 9} /\ k = (3 + k) - 3 /\ k \in 5 .. 6
    <3>1. CASE k = 5
      BY <3>1
    <3>2. CASE k = 6
      BY <3>2
    <3> QED
      BY <3>1, <3>2
  <2>2. Len(s.ops) \in {5, 6}
    BY <1>3
  <2> QED
    BY <1>4, <2>1, <2>2
<1>6. Generate(s) = gen_define_field(s.ops)
  BY <1>1, <1>2, Zenon DEF Generate, Handled
<1>7. MeantOpcode(s) = op
  BY <1>1, <1>2, <1>4, Zenon DEF MeantOpcode, Handled
<1>8. ShownOperands(s) = ShownAll(s.ops)
  BY <1>1, <1>3, AsShown
<1>9. Generate(s) = PlainForm(op, s.ops, << 1 >>)
  BY <1>3, <1>4, <1>5, <1>6, FieldWritten
<1>10. s.imm = << >>
  BY <1>3, EmptySeq
<1>11. Means(s, op, ShownAll(s.ops), << 1 >>)
  BY <1>5, <1>7, <1>8, <1>10 DEF Means
<1>12. << 1 >> \in Seq(Byte) /\ Len(<< 1 >>) = 1
  <2>1. 1 \in Byte
    BY DEF Byte
  <2> QED
    BY <2>1, FewBytes
<1> QED
  BY <1>3, <1>5, <1>9, <1>11, <1>12, FieldSound

LEMMA AgreedSound ==
    ASSUME code \in Seq(Byte), NEW s, Agreed(s)
    PROVE  Sound(s)
<1>1. \/ s.verb \in DOMAIN FixedVerb \/ s.verb \in DOMAIN PassVerb \/ s.verb \in DOMAIN VarVerb
      \/ s.verb \in DOMAIN ByCount \/ s.verb \in Others
  BY AgreedFacts
<1>2. CASE s.verb \in Others
  BY <1>2, MoveSound, ClearSound, SaveSound, SendVerbSound, CallSound, GotoVerbSound, AttributeVerbSound, FormatSound,
     DefineFieldSound DEF Others
<1> QED
  BY <1>1, <1>2, FixedSound, PassSound, VarSound, CountSound

-----------------------------------------------------------------------------
\* Lemmas about sequences whose elements are of no one set.
LEMMA TailFacts ==
    ASSUME NEW s, IsSequence(s), s # << >>
    PROVE  /\ IsSequence(Tail(s)) /\ Len(s) \in Nat \ {0} /\ Len(Tail(s)) = Len(s) - 1
           /\ Head(s) = s[1] /\ \A i \in 1 .. Len(s) - 1 : Tail(s)[i] = s[i + 1]
<1>1. PICK S : S = {s[i] : i \in DOMAIN s}
  OBVIOUS
<1>2. s \in Seq(S)
  BY <1>1 DEF IsSequence
<1>3. Tail(s) \in Seq(S) /\ Len(Tail(s)) = Len(s) - 1 /\ \A i \in 1 .. Len(Tail(s)) : Tail(s)[i] = s[i + 1]
  BY <1>2, HeadTailProperties
<1>4. Len(s) \in Nat \ {0} /\ Head(s) = s[1]
  BY <1>2
<1>5. PICK t : t = Tail(s)
  OBVIOUS
<1>6. DOMAIN t = 1 .. Len(t) /\ t = [i \in 1 .. Len(t) |-> t[i]] /\ Len(t) \in Nat
  <2>1. t \in Seq(S)
    BY <1>3, <1>5
  <2> QED
    BY <2>1
<1>7. t \in Seq({t[i] : i \in DOMAIN t})
  BY <1>6
<1> QED
  BY <1>3, <1>4, <1>5, <1>7 DEF IsSequence

LEMMA AppendFacts ==
    ASSUME NEW s, IsSequence(s), NEW x
    PROVE  /\ IsSequence(Append(s, x)) /\ Len(Append(s, x)) = Len(s) + 1
           /\ DOMAIN Append(s, x) = 1 .. Len(s) + 1
           /\ Append(s, x)[Len(s) + 1] = x /\ \A i \in 1 .. Len(s) : Append(s, x)[i] = s[i]
<1>1. PICK S : S = {s[i] : i \in DOMAIN s} \cup {x}
  OBVIOUS
<1>2. s \in Seq(S) /\ x \in S
  <2>1. PICK R : R = {s[i] : i \in DOMAIN s}
    OBVIOUS
  <2>2. s \in Seq(R) /\ R \subseteq S /\ x \in S
    BY <1>1, <2>1 DEF IsSequence
  <2> QED
    BY <2>2
<1>3. PICK t : t = Append(s, x)
  OBVIOUS
<1>4. /\ t \in Seq(S) /\ Len(t) = Len(s) + 1
      /\ t[Len(s) + 1] = x /\ \A i \in 1 .. Len(s) : t[i] = s[i]
  BY <1>2, <1>3, AppendProperties
<1>5. DOMAIN t = 1 .. Len(t) /\ t = [i \in 1 .. Len(t) |-> t[i]] /\ Len(t) \in Nat
  BY <1>4
<1>6. t \in Seq({t[i] : i \in DOMAIN t})
  BY <1>5
<1> QED
  BY <1>3, <1>4, <1>5, <1>6 DEF IsSequence

\* Bytes appended leave those before them alone, and are found behind them.
LEMMA HoldsLonger ==
    ASSUME NEW c \in Seq(Byte), NEW g \in Seq(Byte), NEW p \in Nat \ {0}, NEW b \in Seq(Byte), Holds(c, p, b)
    PROVE  Holds(c \o g, p, b)
<1>1. Len(c) \in Nat /\ Len(g) \in Nat /\ Len(b) \in Nat
  BY BytesFacts
<1>2. PICK d : d = c \o g
  OBVIOUS
<1>3. Len(d) = Len(c) + Len(g) /\ \A i \in 1 .. Len(c) : d[i] = c[i]
  BY <1>2, Joined
<1>4. p + Len(b) - 1 <= Len(c) /\ \A j \in 1 .. Len(b) : c[p + j - 1] = b[j]
  BY DEF Holds
<1>5. \A j \in 1 .. Len(b) : p + j - 1 \in 1 .. Len(c)
  BY <1>1, <1>4
<1>6. \A j \in 1 .. Len(b) : d[p + j - 1] = b[j]
  BY <1>3, <1>4, <1>5
<1>7. p + Len(b) - 1 <= Len(d)
  BY <1>1, <1>3, <1>4
<1> QED
  BY <1>2, <1>6, <1>7 DEF Holds

LEMMA HoldsAtEnd ==
    ASSUME NEW c \in Seq(Byte), NEW g \in Seq(Byte)
    PROVE  Holds(c \o g, Len(c) + 1, g)
<1>1. Len(c) \in Nat /\ Len(g) \in Nat
  BY BytesFacts
<1>2. PICK d : d = c \o g
  OBVIOUS
<1>3. Len(d) = Len(c) + Len(g) /\ \A i \in 1 .. Len(g) : d[Len(c) + i] = g[i]
  BY <1>2, Joined
<1>4. \A j \in 1 .. Len(g) : (Len(c) + 1) + j - 1 = Len(c) + j
  BY <1>1
<1>5. \A j \in 1 .. Len(g) : d[(Len(c) + 1) + j - 1] = g[j]
  BY <1>3, <1>4
<1>6. (Len(c) + 1) + Len(g) - 1 <= Len(d)
  BY <1>1, <1>3
<1> QED
  BY <1>2, <1>5, <1>6 DEF Holds

-----------------------------------------------------------------------------
\* The inductive invariant: the statements written lie in the code one behind
\* the other, without a gap, each at its place, and the decoder, which starts
\* when the last is written, stands at the place of the next one.
PosAfter(c, w, n) == IF n < Len(w) THEN w[n + 1][1] ELSE Len(c) + 1
Placed(c, w, i) ==
    /\ Agreed(w[i][2]) /\ w[i][1] \in Nat \ {0} /\ Holds(c, w[i][1], Generate(w[i][2]))
    /\ PosAfter(c, w, i) = w[i][1] + Len(Generate(w[i][2]))
Laid(c, w) == PosAfter(c, w, 0) = 1 /\ \A i \in 1 .. Len(w) : Placed(c, w, i)
AllAgreedIn(p) == IsSequence(p) /\ \A i \in DOMAIN p : Agreed(p[i])
Writing == code \in Seq(Byte) /\ AllAgreedIn(source) /\ IsSequence(written) /\ Laid(code, written)
Reading ==
    /\ IsSequence(decoded) /\ (source # << >> => decoded = << >>)
    /\ Len(decoded) <= Len(written) /\ pos = PosAfter(code, written, Len(decoded))
Steady == Writing /\ Reading /\ InStep

LEMMA GeneratedBytes ==
    ASSUME code \in Seq(Byte), NEW s, Agreed(s)
    PROVE  Generate(s) \in Seq(Byte) /\ Len(Generate(s)) >= 1
  BY AgreedSound DEF Sound, Legible

\* GenStatement keeps the statements laid.
LEMMA OneMoreLaid ==
    ASSUME code \in Seq(Byte), NEW c \in Seq(Byte), NEW w, IsSequence(w), Laid(c, w),
           NEW s, Agreed(s), NEW g \in Seq(Byte), g = Generate(s)
    PROVE  Laid(c \o g, Append(w, << Len(c) + 1, s >>))
<1>1. PICK d, v, n, x : d = c \o g /\ v = Append(w, x) /\ n = Len(w) /\ x = << Len(c) + 1, s >>
  OBVIOUS
<1>2. n \in Nat /\ Len(c) \in Nat /\ Len(g) \in Nat
  BY <1>1, SequenceFacts, BytesFacts
<1>3. Len(v) = n + 1 /\ v[n + 1] = x /\ \A i \in 1 .. n : v[i] = w[i]
  BY <1>1, AppendFacts
<1>4. d \in Seq(Byte) /\ Len(d) = Len(c) + Len(g)
  BY <1>1, Joined
<1>5. x[1] = Len(c) + 1 /\ x[2] = s
  BY <1>1
<1>6. ASSUME NEW i \in 0 .. n PROVE PosAfter(d, v, i) = PosAfter(c, w, i)
  <2>1. CASE i < n
    <3>1. i + 1 \in 1 .. n /\ i < n + 1
      BY <1>2, <2>1
    <3> QED
      BY <1>1, <1>3, <2>1, <3>1 DEF PosAfter
  <2>2. CASE i = n
    <3>1. n < n + 1 /\ ~ (n < n)
      BY <1>2
    <3> QED
      BY <1>1, <1>3, <1>5, <2>2, <3>1 DEF PosAfter
  <2> QED
    BY <1>2, <2>1, <2>2
<1>7. ASSUME NEW i \in 1 .. n PROVE Placed(d, v, i)
  <2>1. Placed(c, w, i)
    BY <1>1 DEF Laid
  <2>2. PICK e, p, q : e = w[i] /\ p = e[1] /\ q = Generate(e[2])
    OBVIOUS
  <2>3. Agreed(e[2]) /\ p \in Nat \ {0} /\ Holds(c, p, q) /\ PosAfter(c, w, i) = p + Len(q)
    BY <2>1, <2>2 DEF Placed
  <2>4. q \in Seq(Byte)
    BY <2>2, <2>3, GeneratedBytes
  <2>5. Holds(d, p, q)
    BY <1>1, <2>3, <2>4, HoldsLonger
  <2>6. PosAfter(d, v, i) = p + Len(q)
    <3>1. i \in 0 .. n
      OBVIOUS
    <3> QED
      BY <1>6, <2>3, <3>1
  <2> QED
    BY <1>3, <2>2, <2>3, <2>5, <2>6 DEF Placed
<1>8. Placed(d, v, n + 1)
  <2>1. Holds(d, Len(c) + 1, g)
    BY <1>1, HoldsAtEnd
  <2>2. PosAfter(d, v, n + 1) = Len(d) + 1
    <3>1. ~ (n + 1 < n + 1)
      BY <1>2
    <3> QED
      BY <1>3, <3>1 DEF PosAfter
  <2>3. Len(d) + 1 = (Len(c) + 1) + Len(g) /\ Len(c) + 1 \in Nat \ {0}
    BY <1>2, <1>4
  <2> QED
    BY <1>3, <1>5, <2>1, <2>2, <2>3 DEF Placed
<1>9. PosAfter(d, v, 0) = 1
  <2>1. 0 \in 0 .. n /\ PosAfter(c, w, 0) = 1
    BY <1>2 DEF Laid
  <2> QED
    BY <1>6, <2>1
<1>10. \A i \in 1 .. n + 1 : i \in 1 .. n \/ i = n + 1
  BY <1>2
<1> QED
  BY <1>1, <1>3, <1>7, <1>8, <1>9, <1>10 DEF Laid

\* DecodeInstruction reads the next statement as it was written.
LEMMA NextFound ==
    ASSUME Steady, pos <= Len(code)
    PROVE  /\ Len(decoded) + 1 \in 1 .. Len(written)
           /\ pos = written[Len(decoded) + 1][1]
           /\ \E op, ops, imm :
                 /\ Means(written[Len(decoded) + 1][2], op, ops, imm)
                 /\ decode_instruction(pos) = [op |-> op, ops |-> ops, imm |-> imm,
                                               next |-> PosAfter(code, written, Len(decoded) + 1)]
<1>1. PICK n, m : n = Len(decoded) /\ m = Len(written)
  OBVIOUS
<1>2. n \in Nat /\ m \in Nat /\ n <= m /\ code \in Seq(Byte) /\ Len(code) \in Nat /\ pos = PosAfter(code, written, n)
  BY <1>1, SequenceFacts, BytesFacts DEF Steady, Writing, Reading
<1>3. n < m
  <2>1. CASE n = m
    <3>1. pos = Len(code) + 1
      BY <1>1, <1>2, <2>1 DEF PosAfter
    <3> QED
      BY <1>2, <3>1
  <2> QED
    BY <1>2, <2>1
<1>4. n + 1 \in 1 .. m
  BY <1>2, <1>3
<1>5. PICK e, s, p : e = written[n + 1] /\ s = e[2] /\ p = e[1]
  OBVIOUS
<1>6. pos = p
  BY <1>1, <1>2, <1>3, <1>5 DEF PosAfter
<1>7. /\ Agreed(s) /\ p \in Nat \ {0} /\ Holds(code, p, Generate(s))
      /\ PosAfter(code, written, n + 1) = p + Len(Generate(s))
  <2>1. Placed(code, written, n + 1)
    BY <1>1, <1>4 DEF Steady, Writing, Laid
  <2> QED
    BY <1>5, <2>1 DEF Placed
<1>8. FoundAt(s, p)
  BY <1>2, <1>7, AgreedSound DEF Sound
<1>9. PICK op, ops, imm : Means(s, op, ops, imm) /\ DecodesTo(p, op, ops, imm, Len(Generate(s)))
  BY <1>7, <1>8 DEF FoundAt
<1>10. decode_instruction(pos) = [op |-> op, ops |-> ops, imm |-> imm, next |-> PosAfter(code, written, n + 1)]
  BY <1>6, <1>7, <1>9 DEF DecodesTo
<1> QED
  BY <1>1, <1>4, <1>5, <1>6, <1>9, <1>10

\* One decoded instruction and the statement it should be.
Step(d, w, i) ==
    /\ i \in DOMAIN w
    /\ d[i][1] = w[i][1]
    /\ d[i][2].op = MeantOpcode(w[i][2])
    /\ d[i][2].ops = ShownOperands(w[i][2])
    /\ w[i][2].imm # << >> => d[i][2].imm = w[i][2].imm
    /\ d[i][2].op \in {77, 81, 98} => d[i][2].imm = << SlotCount(w[i][2]) >>

LEMMA InStepBySteps == InStep <=> \A i \in DOMAIN decoded : Step(decoded, written, i)
  BY Zenon DEF InStep, Step

LEMMA Starts ==
    ASSUME AgreedPrograms, Init
    PROVE  Steady
<1>1. source \in Programs /\ code = << >> /\ written = << >> /\ pos = 1 /\ decoded = << >>
  BY DEF Init
<1>2. AllAgreedIn(source)
  BY <1>1, ProgramsAssumption DEF AgreedPrograms, AllAgreedIn
<1>3. code \in Seq(Byte) /\ Len(code) = 0 /\ Len(written) = 0 /\ Len(decoded) = 0 /\ DOMAIN decoded = {}
  BY <1>1
<1>4. IsSequence(written) /\ IsSequence(decoded)
  BY <1>1 DEF IsSequence
<1>5. PosAfter(code, written, 0) = 1
  BY <1>3 DEF PosAfter
<1>6. Laid(code, written)
  BY <1>3, <1>5 DEF Laid
<1>7. InStep
  BY <1>3 DEF InStep
<1>8. Writing
  BY <1>2, <1>3, <1>4, <1>6 DEF Writing
<1>9. Reading
  BY <1>1, <1>3, <1>4, <1>5 DEF Reading
<1> QED
  BY <1>7, <1>8, <1>9 DEF Steady

LEMMA GenStatementKeeps ==
    ASSUME Steady, GenStatement
    PROVE  Steady'
<1>1. /\ source # << >> /\ source' = Tail(source) /\ code' = code \o Generate(Head(source))
      /\ written' = Append(written, << Len(code) + 1, Head(source) >>) /\ pos' = pos /\ decoded' = decoded
  BY DEF GenStatement
<1>2. code \in Seq(Byte) /\ AllAgreedIn(source) /\ IsSequence(written) /\ Laid(code, written) /\ decoded = << >>
  BY <1>1 DEF Steady, Writing, Reading
<1>3. PICK s : s = Head(source)
  OBVIOUS
<1>4. /\ IsSequence(Tail(source)) /\ Len(source) \in Nat \ {0} /\ Len(Tail(source)) = Len(source) - 1
      /\ s = source[1] /\ \A i \in 1 .. Len(source) - 1 : Tail(source)[i] = source[i + 1]
  BY <1>1, <1>2, <1>3, TailFacts DEF AllAgreedIn
<1>5. \A i \in 1 .. Len(source) : Agreed(source[i])
  BY <1>2, SequenceFacts DEF AllAgreedIn
<1>6. Agreed(s)
  <2>1. 1 \in 1 .. Len(source)
    BY <1>4
  <2> QED
    BY <1>4, <1>5, <2>1
<1>7. AllAgreedIn(source')
  <2>1. PICK t, n : t = Tail(source) /\ n = Len(source)
    OBVIOUS
  <2>2. DOMAIN t = 1 .. n - 1
    BY <1>4, <2>1, SequenceFacts
  <2>3. ASSUME NEW i \in 1 .. n - 1 PROVE Agreed(t[i])
    <3>1. i + 1 \in 1 .. n /\ t[i] = source[i + 1]
      BY <1>4, <2>1
    <3> QED
      BY <1>5, <2>1, <3>1
  <2> QED
    BY <1>1, <1>4, <2>1, <2>2, <2>3 DEF AllAgreedIn
<1>8. PICK g : g = Generate(s)
  OBVIOUS
<1>9. g \in Seq(Byte)
  BY <1>2, <1>6, <1>8, GeneratedBytes
<1>10. code' = code \o g /\ written' = Append(written, << Len(code) + 1, s >>)
  BY <1>1, <1>3, <1>8
<1>11. Laid(code', written')
  <2>1. Laid(code \o g, Append(written, << Len(code) + 1, s >>))
    BY <1>2, <1>6, <1>8, <1>9, OneMoreLaid
  <2> QED
    BY <1>10, <2>1
<1>12. code' \in Seq(Byte) /\ IsSequence(written') /\ Len(written') = Len(written) + 1
  BY <1>2, <1>9, <1>10, Joined, AppendFacts
<1>13. Writing'
  BY <1>7, <1>11, <1>12 DEF Writing
<1>14. Reading'
  <2>1. Len(decoded) = 0 /\ Len(written) \in Nat
    BY <1>2, SequenceFacts
  <2>2. pos = 1
    <3>1. pos = PosAfter(code, written, 0) /\ PosAfter(code, written, 0) = 1
      BY <1>2, <2>1 DEF Steady, Reading, Laid
    <3> QED
      BY <3>1
  <2>3. PosAfter(code', written', 0) = 1
    BY <1>11 DEF Laid
  <2>4. IsSequence(decoded)
    BY DEF Steady, Reading
  <2> QED
    BY <1>1, <1>2, <1>12, <2>1, <2>2, <2>3, <2>4 DEF Reading
<1>15. InStep'
  <2>1. decoded' = << >>
    BY <1>1, <1>2
  <2> QED
    BY <2>1 DEF InStep
<1> QED
  BY <1>13, <1>14, <1>15 DEF Steady

LEMMA DecodeInstructionKeeps ==
    ASSUME Steady, DecodeInstruction
    PROVE  Steady'
<1>1. /\ source = << >> /\ pos <= Len(code) /\ decoded' = Append(decoded, << pos, decode_instruction(pos) >>)
      /\ pos' = decode_instruction(pos).next /\ source' = source /\ code' = code /\ written' = written
  BY DEF DecodeInstruction
<1>2. Writing'
  BY <1>1 DEF Steady, Writing
<1>3. PICK n, e, s : n = Len(decoded) /\ e = written[n + 1] /\ s = e[2]
  OBVIOUS
<1>4. n + 1 \in 1 .. Len(written) /\ pos = e[1]
  BY <1>1, <1>3, NextFound
<1>5. PICK op, ops, imm :
          /\ Means(s, op, ops, imm)
          /\ decode_instruction(pos) = [op |-> op, ops |-> ops, imm |-> imm, next |-> PosAfter(code, written, n + 1)]
  BY <1>1, <1>3, NextFound
<1>6. PICK d, x : d = decode_instruction(pos) /\ x = << pos, d >>
  OBVIOUS
<1>7. /\ IsSequence(decoded') /\ Len(decoded') = n + 1 /\ DOMAIN decoded' = 1 .. n + 1
      /\ decoded'[n + 1] = x /\ \A i \in 1 .. n : decoded'[i] = decoded[i]
  <2>1. IsSequence(decoded) /\ decoded' = Append(decoded, x)
    BY <1>1, <1>6 DEF Steady, Reading
  <2> QED
    BY <1>3, <2>1, AppendFacts
<1>8. n \in Nat /\ Len(written) \in Nat /\ DOMAIN written = 1 .. Len(written) /\ DOMAIN decoded = 1 .. n
  BY <1>3, SequenceFacts DEF Steady, Writing, Reading
<1>9. Reading'
  <2>1. pos' = PosAfter(code, written, n + 1)
    BY <1>1, <1>5
  <2>2. Len(decoded') <= Len(written')
    BY <1>1, <1>4, <1>7, <1>8
  <2>3. pos' = PosAfter(code', written', Len(decoded'))
    BY <1>1, <1>7, <2>1
  <2>4. source' = << >>
    BY <1>1
  <2> QED
    BY <1>7, <2>2, <2>3, <2>4 DEF Reading
<1>10. Step(decoded', written', n + 1)
  <2>1. x[1] = pos /\ x[2] = d
    BY <1>6
  <2>2. d.op = op /\ d.ops = ops /\ d.imm = imm
    BY <1>5, <1>6
  <2>3. /\ MeantOpcode(s) = op /\ ShownOperands(s) = ops /\ (s.imm # << >> => imm = s.imm)
        /\ op \in {77, 81, 98} => imm = << SlotCount(s) >>
    BY <1>5 DEF Means
  <2>4. n + 1 \in DOMAIN written
    BY <1>4, <1>8
  <2>5. decoded'[n + 1][1] = written[n + 1][1] /\ decoded'[n + 1][2] = d /\ written[n + 1][2] = s
    BY <1>3, <1>4, <1>7, <2>1
  <2> QED
    BY <1>1, <2>2, <2>3, <2>4, <2>5, Zenon DEF Step
<1>11. ASSUME NEW i \in 1 .. n PROVE Step(decoded', written', i)
  <2>1. Step(decoded, written, i)
    BY <1>8, InStepBySteps DEF Steady
  <2>2. decoded'[i] = decoded[i]
    BY <1>7
  <2> QED
    BY <1>1, <2>1, <2>2, Zenon DEF Step
<1>12. \A i \in DOMAIN decoded' : Step(decoded', written', i)
  <2>1. \A i \in 1 .. n + 1 : i \in 1 .. n \/ i = n + 1
    BY <1>8
  <2> QED
    BY <1>7, <1>10, <1>11, <2>1
<1>13. InStep'
  BY <1>12, Zenon DEF InStep, Step
<1> QED
  BY <1>2, <1>9, <1>13 DEF Steady

LEMMA AllFound ==
    ASSUME Steady
    PROVE  Complete
<1>1. SUFFICES ASSUME source = << >>, pos > Len(code)
               PROVE  Len(decoded) = Len(written)
  BY DEF Complete
<1>2. PICK n, m : n = Len(decoded) /\ m = Len(written)
  OBVIOUS
<1>3. n \in Nat /\ m \in Nat /\ n <= m /\ code \in Seq(Byte) /\ Len(code) \in Nat /\ pos = PosAfter(code, written, n)
  BY <1>2, SequenceFacts, BytesFacts DEF Steady, Writing, Reading
<1>4. CASE n < m
  <2>1. n + 1 \in 1 .. m
    BY <1>3, <1>4
  <2>2. PICK e, p, g : e = written[n + 1] /\ p = e[1] /\ g = Generate(e[2])
    OBVIOUS
  <2>3. Placed(code, written, n + 1)
    BY <1>2, <2>1 DEF Steady, Writing, Laid
  <2>4. p \in Nat \ {0} /\ Holds(code, p, g) /\ Agreed(e[2])
    BY <2>2, <2>3 DEF Placed
  <2>5. g \in Seq(Byte) /\ Len(g) >= 1
    BY <1>3, <2>2, <2>4, GeneratedBytes
  <2>6. p + Len(g) - 1 <= Len(code) /\ Len(g) \in Nat
    BY <2>4, <2>5, BytesFacts DEF Holds
  <2>7. pos = p
    BY <1>2, <1>3, <1>4, <2>2 DEF PosAfter
  <2> QED
    BY <1>1, <1>3, <2>4, <2>5, <2>6, <2>7
<1> QED
  BY <1>2, <1>3, <1>4

LEMMA SteadyAlways ==
    ASSUME AgreedPrograms
    PROVE  Spec => []Steady
<1>1. Init => Steady
  BY Starts
<1>2. Steady /\ [Next]_vars => Steady'
  <2>1. ASSUME Steady, UNCHANGED vars PROVE Steady'
    BY <2>1 DEF vars, Steady, Writing, Reading, InStep
  <2> QED
    BY <2>1, GenStatementKeeps, DecodeInstructionKeeps DEF Next
<1> QED
  BY <1>1, <1>2, PTL DEF Spec

\* The decoder stays in step with the compiler: whatever statements the two
\* sides agree on are compiled, in whatever order, each instruction found is
\* the statement written there, with its operands and counts.
THEOREM DecoderInStep ==
    ASSUME AgreedPrograms
    PROVE  Spec => []InStep
<1>1. Steady => InStep
  BY DEF Steady
<1> QED
  BY <1>1, SteadyAlways, PTL

\* The decoder ends with the last statement of such a program, no sooner.
THEOREM DecoderComplete ==
    ASSUME AgreedPrograms
    PROVE  Spec => []Complete
<1>1. Steady => Complete
  BY AllFound
<1> QED
  BY <1>1, SteadyAlways, PTL
=============================================================================
