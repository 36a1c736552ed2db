--------------------------- MODULE CompilerProofs ---------------------------
(***************************************************************************)
(* Theorems about the compiler, for any programs and any sequence of       *)
(* compilations in one process.                                            *)
(***************************************************************************)
EXTENDS Compiler, FiniteSetTheorems, TLAPS

(***************************************************************************)
(* The semantic analysis.                                                  *)
(***************************************************************************)

LEMMA SequenceFacts ==
    ASSUME NEW s, IsSequence(s)
    PROVE  /\ Len(s) \in Nat /\ DOMAIN s = 1 .. Len(s)
           /\ s = << >> <=> Len(s) = 0
  BY DEF IsSequence

LEMMA PutFacts ==
    ASSUME NEW f, NEW x, NEW v
    PROVE  /\ DOMAIN Put(f, x, v) = DOMAIN f \cup {x}
           /\ Put(f, x, v)[x] = v
           /\ \A y \in DOMAIN f \ {x} : Put(f, x, v)[y] = f[y]
  BY DEF Put

LEMMA CountTo ==
    ASSUME NEW m \in Nat
    PROVE  IsFiniteSet(1 .. m) /\ Cardinality(1 .. m) = m
<1>1. IsFiniteSet(1 .. m)
  BY FS_Interval
<1>2. Cardinality(1 .. m) = IF 1 > m THEN 0 ELSE m - 1 + 1
  BY FS_Interval
<1> QED
  BY <1>1, <1>2

\* The errors of an operand list are a finite set.
LEMMA ExprFaultsFinite ==
    ASSUME NEW operands, NEW n \in Nat, IsSequence(operands), n <= Len(operands),
           \A i \in DOMAIN operands : IsOperand(operands[i])
    PROVE  IsFiniteSet(ExprFaults(operands, n))
<1> DEFINE Long == {k \in 1 .. n : operands[k].k = "long"}
           Names == {{i} \X DOMAIN operands[i].names : i \in 1 .. n}
<1>1. IsFiniteSet(1 .. n)
  BY FS_Interval
<1>2. IsFiniteSet({<< i, 0 >> : i \in Long})
  <2>1. IsFiniteSet(Long)
    BY <1>1, FS_Subset
  <2>2. IsFiniteSet(Long \X {0})
    BY <2>1, FS_Product, FS_Singleton
  <2>3. {<< i, 0 >> : i \in Long} \subseteq Long \X {0}
    OBVIOUS
  <2> QED
    BY <2>2, <2>3, FS_Subset
<1>3. IsFiniteSet(UNION Names)
  <2>1. IsFiniteSet(Names)
    <3>1. [i \in 1 .. n |-> {i} \X DOMAIN operands[i].names] \in Surjection(1 .. n, Names)
      BY DEF Surjection
    <3> QED
      BY <1>1, <3>1, FS_Surjection
  <2>2. ASSUME NEW T \in Names PROVE IsFiniteSet(T)
    <3>1. PICK i \in 1 .. n : T = {i} \X DOMAIN operands[i].names
      OBVIOUS
    <3>2. i \in DOMAIN operands
      BY SequenceFacts
    <3>3. IsSequence(operands[i].names)
      BY <3>2 DEF IsOperand
    <3>4. /\ Len(operands[i].names) \in Nat
          /\ DOMAIN operands[i].names = 1 .. Len(operands[i].names)
      BY <3>3, SequenceFacts
    <3>5. IsFiniteSet(DOMAIN operands[i].names)
      <4> DEFINE m == Len(operands[i].names)
      <4>1. IsFiniteSet(1 .. m)
        <5>1. m \in Int
          BY <3>4
        <5> HIDE DEF m
        <5> QED
          BY <5>1, FS_Interval
      <4> QED
        BY <3>4, <4>1
    <3> QED
      BY <3>1, <3>5, FS_Singleton, FS_Product
  <2> HIDE DEF Names
  <2> QED
    BY <2>1, <2>2, FS_UNION
<1>4. {x \in UNION Names : ~ Declared(operands[x[1]].names[x[2]])} \subseteq UNION Names
  OBVIOUS
<1>5. IsFiniteSet({x \in UNION Names : ~ Declared(operands[x[1]].names[x[2]])})
  <2> HIDE DEF Names
  <2> QED
    BY <1>3, <1>4, FS_Subset
<1> QED
  BY <1>2, <1>5, FS_Union DEF ExprFaults
-----------------------------------------------------------------------------
(* The program and the place in it.                                        *)

LEMMA ProgramFacts ==
    ASSUME ast \in Programs
    PROVE  /\ IsSequence(ast.children) /\ Len(ast.children) \in Nat
           /\ DOMAIN ast.children = 1 .. Len(ast.children)
           /\ ast.long \in BOOLEAN
           /\ \A i \in DOMAIN ast.children : IsChild(ast.children[i])
           /\ \A i \in Children("data") :
                 /\ i \in 1 .. Len(ast.children) /\ IsSequence(ast.children[i].vars)
                 /\ Len(ast.children[i].vars) \in Nat
                 /\ DOMAIN ast.children[i].vars = 1 .. Len(ast.children[i].vars)
                 /\ \A j \in DOMAIN ast.children[i].vars : ast.children[i].vars[j].size \in Nat
           /\ \A i \in Children("proc") :
                 /\ i \in 1 .. Len(ast.children) /\ IsSequence(ast.children[i].body)
                 /\ Len(ast.children[i].body) \in Nat
                 /\ DOMAIN ast.children[i].body = 1 .. Len(ast.children[i].body)
                 /\ ast.children[i].name # None
                 /\ \A j \in DOMAIN ast.children[i].body : IsStatement(ast.children[i].body[j])
           /\ \A i \in DOMAIN ast.children : i \in Children("data") \cup Children("proc")
           /\ Children("data") \cap Children("proc") = {}
<1>1. /\ IsSequence(ast.children) /\ ast.long \in BOOLEAN
      /\ \A i \in DOMAIN ast.children : IsChild(ast.children[i])
  BY ProgramsAssumption
<1>2. Len(ast.children) \in Nat /\ DOMAIN ast.children = 1 .. Len(ast.children)
  BY <1>1, SequenceFacts
<1>3. \A i \in DOMAIN ast.children : i \in Children("data") \cup Children("proc")
  BY <1>1 DEF IsChild, Children
<1>4. ASSUME NEW i \in Children("data")
      PROVE  /\ i \in 1 .. Len(ast.children) /\ IsSequence(ast.children[i].vars)
             /\ \A j \in DOMAIN ast.children[i].vars : ast.children[i].vars[j].size \in Nat
  BY <1>1, <1>2 DEF IsChild, Children
<1>5. ASSUME NEW i \in Children("proc")
      PROVE  /\ i \in 1 .. Len(ast.children) /\ IsSequence(ast.children[i].body)
             /\ ast.children[i].name # None
             /\ \A j \in DOMAIN ast.children[i].body : IsStatement(ast.children[i].body[j])
  BY <1>1, <1>2 DEF IsChild, Children
<1>6. ASSUME NEW i \in Children("data")
      PROVE  /\ Len(ast.children[i].vars) \in Nat
             /\ DOMAIN ast.children[i].vars = 1 .. Len(ast.children[i].vars)
  BY <1>4, SequenceFacts
<1>7. ASSUME NEW i \in Children("proc")
      PROVE  /\ Len(ast.children[i].body) \in Nat
             /\ DOMAIN ast.children[i].body = 1 .. Len(ast.children[i].body)
  BY <1>5, SequenceFacts
<1>8. Children("data") \cap Children("proc") = {}
  BY DEF Children
<1> QED
  BY <1>1, <1>2, <1>3, <1>4, <1>5, <1>6, <1>7, <1>8

LEMMA DeclarationFacts ==
    ASSUME ast \in Programs
    PROVE  /\ \A d \in Declarations : /\ d = << d[1], d[2] >> /\ d[1] \in Nat /\ d[2] \in Nat
                                      /\ d[1] \in Children("data")
                                      /\ d[2] \in DOMAIN ast.children[d[1]].vars
           /\ \A i \in Children("data") : \A j \in DOMAIN ast.children[i].vars : << i, j >> \in Declarations
<1>1. ASSUME NEW d \in Declarations
      PROVE  /\ d = << d[1], d[2] >> /\ d[1] \in Children("data")
             /\ d[2] \in DOMAIN ast.children[d[1]].vars
  BY DEF Declarations
<1>2. ASSUME NEW d \in Declarations PROVE d[1] \in Nat /\ d[2] \in Nat
  BY <1>1, ProgramFacts
<1>3. ASSUME NEW i \in Children("data"), NEW j \in DOMAIN ast.children[i].vars
      PROVE  << i, j >> \in Declarations
  BY DEF Declarations
<1> QED
  BY <1>1, <1>2, <1>3
-----------------------------------------------------------------------------
(* The inductive invariant.                                                *)

SType ==
    /\ pass \in 0 .. 3
    /\ ast \in Programs \cup {None}
    /\ pass > 0 => ast \in Programs /\ error_count \in Nat

\* Where a pass can be.
Position ==
    pass \in {1, 2} =>
      /\ at \in 1 .. Len(ast.children) + 1 /\ item \in Nat /\ item >= 1
      /\ at = Len(ast.children) + 1 => current_proc = None /\ item = 1
      /\ at \in Children("data") =>
            /\ current_proc = None /\ item <= Len(ast.children[at].vars) + 1
            /\ pass = 2 => item = 1
      /\ at \in Children("proc") =>
            /\ item <= Len(ast.children[at].body) + 1
            /\ current_proc = None => item = 1
            /\ current_proc # None => pass = 2 /\ current_proc = ast.children[at].name

\* The children and the declarations the first pass has seen.
Collected(i) == pass # 1 \/ i < at
SeenDeclarations == {d \in Declarations : pass # 1 \/ Before(d, << at, item >>)}
VarOf(d) == ast.children[d[1]].vars[d[2]]
IsFirst(d) == \A e \in Declarations : NameAt(e) = NameAt(d) => d = e \/ Before(d, e)

\* The table has what has been declared, each name as it was declared first.
VarsOK ==
    pass > 0 =>
      /\ \A d \in SeenDeclarations : NameAt(d) \in DOMAIN var_table
      /\ \A n \in DOMAIN var_table :
            /\ var_table[n].slot \in Nat /\ var_table[n].size \in Nat
            /\ \E d \in SeenDeclarations :
                  NameAt(d) = n /\ IsFirst(d) /\ var_table[n].size = VarOf(d).size

IsGroup(i) == ast.children[i].vars # << >> /\ ast.children[i].name # None

\* The groups are those of the sections that have a name and a variable.
GroupsOK ==
    pass > 0 =>
      /\ IsSequence(structures)
      /\ \A g \in DOMAIN structures :
            /\ structures[g].section \in Children("data") /\ Collected(structures[g].section)
            /\ IsGroup(structures[g].section)
            /\ structures[g].name = ast.children[structures[g].section].name
      /\ \A i \in Children("data") : Collected(i) /\ IsGroup(i) =>
            \E g \in DOMAIN structures : structures[g].section = i

\* Slots are given out without gap or overlap.
SlotsOK ==
    pass > 0 =>
      /\ next_slot \in Nat
      /\ \A m, n \in DOMAIN var_table : m # n => SlotSet(m) \cap SlotSet(n) = {}
      /\ \A k \in 0 .. next_slot - 1 : \E n \in DOMAIN var_table : k \in SlotSet(n)
      /\ \A n \in DOMAIN var_table : SlotSet(n) \subseteq 0 .. next_slot - 1

\* The slots of the first k variables of section i, and how many there are.
SlotsOf(i, k) == {x \in Nat : \E j \in 1 .. k : x \in SlotSet(ast.children[i].vars[j].name)}
Elements(vs, k) == UNION {{j} \X (1 .. Slots(vs[j].size)) : j \in 1 .. k}

\* While a section of new variables is declared, its slots are the last ones,
\* as many as the variables have elements.
SectionOK ==
    pass = 1 /\ at \in Children("data") /\ item > 1 /\ AllNew(at) =>
      LET vs == ast.children[at].vars
          first == var_table[vs[1].name].slot
      IN  /\ first .. next_slot - 1 = SlotsOf(at, item - 1)
          /\ first < next_slot
          /\ IsFiniteSet(Elements(vs, item - 1))
          /\ Cardinality(Elements(vs, item - 1)) = next_slot - first
GroupSlotsOK ==
    pass > 0 => \A h \in DOMAIN structures :
      LET g == structures[h]
      IN  AllNew(g.section) => g.start_slot .. g.start_slot + g.count - 1
                                 = SlotsOf(g.section, Len(ast.children[g.section].vars))

TablesOK == VarsOK /\ GroupsOK /\ SlotsOK /\ SectionOK /\ GroupSlotsOK

-----------------------------------------------------------------------------
(* Steps that leave the program alone, and those that leave the tables.    *)

LEMMA AstKept ==
    ASSUME ast' = ast
    PROVE  /\ Declarations' = Declarations
           /\ \A k : Children(k)' = Children(k)
           /\ \A d : NameAt(d)' = NameAt(d) /\ VarOf(d)' = VarOf(d)
           /\ \A d : IsFirst(d)' <=> IsFirst(d)
           /\ \A i : AllNew(i)' <=> AllNew(i)
<1>1. Declarations' = Declarations /\ \A k : Children(k)' = Children(k)
  BY DEF Declarations, Children
<1>2. \A d : NameAt(d)' = NameAt(d) /\ VarOf(d)' = VarOf(d)
  BY DEF NameAt, VarOf
<1>3. \A d : IsFirst(d)' <=> IsFirst(d)
  BY <1>1, <1>2 DEF IsFirst
<1>4. \A i : AllNew(i)' <=> AllNew(i)
  BY <1>1, <1>2 DEF AllNew
<1> QED
  BY <1>1, <1>2, <1>3, <1>4

\* What the second pass does is no concern of the tables.
LEMMA TablesKept ==
    ASSUME TablesOK, UNCHANGED << ast, tables >>, pass \in 0 .. 3, pass' \in 0 .. 3,
           \/ pass = 0 /\ pass' = 0
           \/ pass > 1 /\ pass' > 1
           \/ pass = pass' /\ UNCHANGED << at, item >>
    PROVE  TablesOK'
<1> USE AstKept DEF tables
<1>1. \A n : SlotSet(n)' = SlotSet(n)
  BY DEF SlotSet
<1>2. SeenDeclarations' = SeenDeclarations /\ \A i : Collected(i)' <=> Collected(i)
  BY DEF SeenDeclarations, Collected
<1>3. \A i, k : SlotsOf(i, k)' = SlotsOf(i, k)
  BY <1>1 DEF SlotsOf
<1>9. VarsOK'
  BY <1>2 DEF TablesOK, VarsOK
<1>4. GroupsOK'
  BY <1>2 DEF TablesOK, GroupsOK, IsGroup
<1>5. SlotsOK'
  BY <1>1 DEF TablesOK, SlotsOK
<1>6. SectionOK'
  BY <1>3, SMTT(30) DEF TablesOK, SectionOK
<1>7. GroupSlotsOK'
  BY <1>3 DEF TablesOK, GroupSlotsOK
<1> QED
  BY <1>4, <1>5, <1>6, <1>7, <1>9 DEF TablesOK

-----------------------------------------------------------------------------
(* The first pass: one more variable, one more group.                      *)

\* Every variable adds its elements to those of the section.
LEMMA ElementsGrow ==
    ASSUME NEW vs, NEW k \in Nat, vs[k + 1].size \in Nat, IsFiniteSet(Elements(vs, k))
    PROVE  /\ IsFiniteSet(Elements(vs, k + 1))
           /\ Cardinality(Elements(vs, k + 1)) =
                Cardinality(Elements(vs, k)) + Slots(vs[k + 1].size)
<1> DEFINE new == {k + 1} \X (1 .. Slots(vs[k + 1].size))
<1>1. Slots(vs[k + 1].size) \in Nat
  BY DEF Slots
<1>2. IsFiniteSet(new) /\ Cardinality(new) = Slots(vs[k + 1].size)
  <2> DEFINE m == Slots(vs[k + 1].size)
  <2>1. IsFiniteSet(1 .. m) /\ Cardinality(1 .. m) = m
    <3>1. m \in Nat
      BY <1>1
    <3> HIDE DEF m
    <3> QED
      BY <3>1, CountTo
  <2>2. IsFiniteSet({k + 1}) /\ Cardinality({k + 1}) = 1
    BY FS_Singleton
  <2>3. IsFiniteSet({k + 1} \X (1 .. m)) /\ Cardinality({k + 1} \X (1 .. m)) = 1 * m
    <3> HIDE DEF m
    <3> QED
      BY <2>1, <2>2, FS_Product, ZenonT(40)
  <2> QED
    BY <1>1, <2>3
<1>3. Elements(vs, k + 1) = Elements(vs, k) \cup new
  <2>1. 1 .. k + 1 = (1 .. k) \cup {k + 1}
    OBVIOUS
  <2> QED
    BY <2>1 DEF Elements
<1>4. Elements(vs, k) \cap new = {}
  BY DEF Elements
<1> HIDE DEF new
<1>5. Cardinality(Elements(vs, k)) \in Nat /\ Cardinality({}) = 0
  BY FS_CardinalityType, FS_EmptySet
<1> QED
  BY <1>1, <1>2, <1>3, <1>4, <1>5, FS_Union

LEMMA NoElements == ASSUME NEW vs PROVE Elements(vs, 0) = {}
  BY DEF Elements

\* One declaration is seen at a time.
LEMMA SeenGrows ==
    ASSUME SType, Position, pass = 1, pass' = 1, ast' = ast, at' = at, item' = item + 1,
           at \in Children("data"), item <= Len(ast.children[at].vars)
    PROVE  /\ << at, item >> \in Declarations
           /\ SeenDeclarations' = SeenDeclarations \cup {<< at, item >>}
           /\ \A e \in Declarations \ SeenDeclarations : e = << at, item >> \/ Before(<< at, item >>, e)
           /\ \A e \in SeenDeclarations : Before(e, << at, item >>) /\ ~ Before(<< at, item >>, e)
                                          /\ e # << at, item >>
<1>1. ast \in Programs /\ at \in Nat /\ item \in Nat /\ item >= 1
  BY ProgramFacts DEF SType, Position
<1>2. << at, item >> \in Declarations
  <2>1. item \in DOMAIN ast.children[at].vars
    BY <1>1, ProgramFacts
  <2> QED
    BY <1>1, <2>1, DeclarationFacts
<1>3. ASSUME NEW e \in Declarations
      PROVE  /\ Before(e, << at, item + 1 >>) <=> Before(e, << at, item >>) \/ e = << at, item >>
             /\ ~ Before(e, << at, item >>) => e = << at, item >> \/ Before(<< at, item >>, e)
             /\ Before(e, << at, item >>) => ~ Before(<< at, item >>, e) /\ e # << at, item >>
  <2>1. e = << e[1], e[2] >> /\ e[1] \in Nat /\ e[2] \in Nat
    BY <1>1, DeclarationFacts
  <2> QED
    BY <1>1, <2>1 DEF Before
<1>4. SeenDeclarations = {d \in Declarations : Before(d, << at, item >>)}
  BY DEF SeenDeclarations
<1>5. SeenDeclarations' = {d \in Declarations : Before(d, << at, item + 1 >>)}
  BY AstKept DEF SeenDeclarations, Before
<1> QED
  BY <1>2, <1>3, <1>4, <1>5

\* The slots of a new variable are those behind the ones given out.
LEMMA SlotsPut ==
    ASSUME NEW n0, NEW sz \in Nat, n0 \notin DOMAIN var_table, next_slot \in Nat,
           \A n \in DOMAIN var_table : SlotSet(n) \subseteq 0 .. next_slot - 1,
           var_table' = Put(var_table, n0, [slot |-> next_slot, size |-> sz]),
           next_slot' = next_slot + Slots(sz)
    PROVE  /\ next_slot' \in Nat /\ next_slot < next_slot'
           /\ DOMAIN var_table' = DOMAIN var_table \cup {n0}
           /\ var_table'[n0].slot = next_slot /\ var_table'[n0].size = sz
           /\ \A n \in DOMAIN var_table : var_table'[n] = var_table[n] /\ SlotSet(n)' = SlotSet(n)
           /\ SlotSet(n0)' = next_slot .. next_slot' - 1
           /\ \A n \in DOMAIN var_table : SlotSet(n) \cap (next_slot .. next_slot' - 1) = {}
<1>1. Slots(sz) \in Nat /\ Slots(sz) >= 1
  BY DEF Slots
<1>2. /\ DOMAIN var_table' = DOMAIN var_table \cup {n0}
      /\ var_table'[n0] = [slot |-> next_slot, size |-> sz]
      /\ \A n \in DOMAIN var_table : var_table'[n] = var_table[n]
  BY DEF Put
<1>3. \A n \in DOMAIN var_table : SlotSet(n)' = SlotSet(n)
  BY <1>2 DEF SlotSet
<1>4. SlotSet(n0)' = next_slot .. next_slot + Slots(sz) - 1
  BY <1>2 DEF SlotSet
<1> QED
  BY <1>1, <1>2, <1>3, <1>4

LEMMA SlotsStep ==
    ASSUME NEW n0, NEW sz \in Nat, n0 \notin DOMAIN var_table, SlotsOK, pass = 1,
           var_table' = Put(var_table, n0, [slot |-> next_slot, size |-> sz]),
           next_slot' = next_slot + Slots(sz)
    PROVE  SlotsOK'
<1>1. /\ next_slot \in Nat
      /\ \A m, n \in DOMAIN var_table : m # n => SlotSet(m) \cap SlotSet(n) = {}
      /\ \A k \in 0 .. next_slot - 1 : \E n \in DOMAIN var_table : k \in SlotSet(n)
      /\ \A n \in DOMAIN var_table : SlotSet(n) \subseteq 0 .. next_slot - 1
  BY DEF SlotsOK
<1>2. /\ next_slot' \in Nat /\ next_slot < next_slot'
      /\ DOMAIN var_table' = DOMAIN var_table \cup {n0}
      /\ \A n \in DOMAIN var_table : SlotSet(n)' = SlotSet(n)
      /\ SlotSet(n0)' = next_slot .. next_slot' - 1
      /\ \A n \in DOMAIN var_table : SlotSet(n) \cap (next_slot .. next_slot' - 1) = {}
  BY <1>1, SlotsPut
<1>3. ASSUME NEW n \in DOMAIN var_table'
      PROVE  SlotSet(n)' \subseteq 0 .. next_slot' - 1
  BY <1>1, <1>2
<1>4. ASSUME NEW k \in 0 .. next_slot' - 1
      PROVE  \E n \in DOMAIN var_table' : k \in SlotSet(n)'
  <2>1. CASE k < next_slot
    <3>1. PICK n \in DOMAIN var_table : k \in SlotSet(n)
      BY <1>1, <1>2, <2>1
    <3> QED
      BY <1>2, <3>1
  <2>2. CASE k >= next_slot
    BY <1>1, <1>2, <2>2
  <2> QED
    BY <1>1, <1>2, <2>1, <2>2
<1>5. ASSUME NEW m \in DOMAIN var_table', NEW n \in DOMAIN var_table', m # n
      PROVE  SlotSet(m)' \cap SlotSet(n)' = {}
  BY <1>1, <1>2, <1>5
<1> QED
  BY <1>2, <1>3, <1>4, <1>5 DEF SlotsOK

\* The section being declared, from the variable before to this one.
LEMMA SectionStep ==
    ASSUME NEW a \in Children("data"), NEW k \in Nat, k >= 1, ast \in Programs, ast' = ast,
           at = a, at' = a, item = k, item' = k + 1, pass = 1,
           k <= Len(ast.children[a].vars), SlotsOK, SectionOK, AllNew(a),
           NEW n0, n0 = ast.children[a].vars[k].name, n0 \notin DOMAIN var_table,
           NEW sz \in Nat, sz = ast.children[a].vars[k].size,
           \A j \in 1 .. k - 1 : ast.children[a].vars[j].name \in DOMAIN var_table,
           \A n \in DOMAIN var_table : var_table[n].slot \in Nat,
           var_table' = Put(var_table, n0, [slot |-> next_slot, size |-> sz]),
           next_slot' = next_slot + Slots(sz)
    PROVE  SectionOK'
<1> DEFINE vs == ast.children[a].vars
           first == var_table'[vs[1].name].slot
<1>1. next_slot \in Nat /\ \A n \in DOMAIN var_table : SlotSet(n) \subseteq 0 .. next_slot - 1
  BY DEF SlotsOK
<1>2. /\ next_slot' \in Nat /\ next_slot < next_slot'
      /\ DOMAIN var_table' = DOMAIN var_table \cup {n0}
      /\ var_table'[n0].slot = next_slot
      /\ \A n \in DOMAIN var_table : var_table'[n] = var_table[n] /\ SlotSet(n)' = SlotSet(n)
      /\ SlotSet(n0)' = next_slot .. next_slot' - 1
  BY <1>1, SlotsPut
<1>3. /\ IsFiniteSet(Elements(vs, k - 1))
         => /\ IsFiniteSet(Elements(vs, k))
            /\ Cardinality(Elements(vs, k)) = Cardinality(Elements(vs, k - 1)) + Slots(sz)
  <2>1. k - 1 \in Nat /\ (k - 1) + 1 = k
    OBVIOUS
  <2>2. vs[(k - 1) + 1].size = sz
    BY <2>1
  <2> HIDE DEF vs
  <2> QED
    BY <2>1, <2>2, ElementsGrow
<1>n. next_slot' \in Nat /\ next_slot < next_slot' /\ next_slot \in Nat
  BY <1>1, <1>2
<1>4. /\ first \in Nat /\ first <= next_slot
      /\ \A x : x \in first .. next_slot - 1 <=> x \in SlotsOf(a, k - 1)
      /\ IsFiniteSet(Elements(vs, k - 1))
      /\ Cardinality(Elements(vs, k - 1)) = next_slot - first
  <2>1. CASE k = 1
    <3>0. k - 1 = 0
      BY <2>1
    <3>1. first = next_slot
      BY <1>2, <2>1
    <3>2. \A x : x \notin SlotsOf(a, 0)
      BY DEF SlotsOf
    <3>3. IsFiniteSet(Elements(vs, 0)) /\ Cardinality(Elements(vs, 0)) = 0
      BY NoElements, FS_EmptySet
    <3>4. next_slot - next_slot = 0 /\ \A x : x \notin next_slot .. next_slot - 1
      BY <1>n
    <3> HIDE DEF first, vs
    <3> QED
      BY <1>n, <3>0, <3>1, <3>2, <3>3, <3>4
  <2>2. CASE k > 1
    <3>1. vs[1].name \in DOMAIN var_table
      BY <2>2
    <3>2. first = var_table[vs[1].name].slot /\ first \in Nat
      BY <1>2, <3>1
    <3> HIDE DEF first
    <3>3. /\ first .. next_slot - 1 = SlotsOf(a, k - 1) /\ first < next_slot
          /\ IsFiniteSet(Elements(vs, k - 1))
          /\ Cardinality(Elements(vs, k - 1)) = next_slot - first
      BY <2>2, <3>2 DEF SectionOK
    <3>4. first < next_slot
      BY <3>3, Zenon
    <3>5. first <= next_slot
      BY <1>n, <3>2, <3>4, SMTT(30)
    <3> HIDE DEF vs
    <3> QED
      BY <3>2, <3>3, <3>5
  <2>3. k = 1 \/ k > 1
    OBVIOUS
  <2> HIDE DEF first, vs
  <2> QED
    BY <2>1, <2>2, <2>3
<1>5. \A x : x \in SlotsOf(a, k)' <=> x \in SlotsOf(a, k - 1) \/ x \in next_slot .. next_slot' - 1
  <2>1. \A j \in 1 .. k - 1 : SlotSet(vs[j].name)' = SlotSet(vs[j].name)
    <3> SUFFICES ASSUME NEW j \in 1 .. k - 1 PROVE SlotSet(vs[j].name)' = SlotSet(vs[j].name)
      OBVIOUS
    <3>1. PICK n : n = vs[j].name
      OBVIOUS
    <3>2. n \in DOMAIN var_table
      BY <3>1
    <3>3. SlotSet(n)' = SlotSet(n)
      BY <1>2, <3>2
    <3> QED
      BY <3>1, <3>3
  <2>2. SlotSet(vs[k].name)' = next_slot .. next_slot' - 1
    BY <1>2
  <2>3. \A j : j \in 1 .. k <=> j \in 1 .. k - 1 \/ j = k
    OBVIOUS
  <2>4. \A x \in next_slot .. next_slot' - 1 : x \in Nat
    BY <1>n
  <2>5. \A x : x \in SlotsOf(a, k)' <=> x \in Nat /\ \E j \in 1 .. k : x \in SlotSet(vs[j].name)'
    BY DEF SlotsOf
  <2>6. \A x : x \in SlotsOf(a, k - 1) <=> x \in Nat /\ \E j \in 1 .. k - 1 : x \in SlotSet(vs[j].name)
    BY DEF SlotsOf
  <2> SUFFICES ASSUME NEW x
               PROVE  x \in SlotsOf(a, k)' <=> x \in SlotsOf(a, k - 1) \/ x \in next_slot .. next_slot' - 1
    OBVIOUS
  <2>7. x \in SlotsOf(a, k)' <=>
          x \in Nat /\ ((\E j \in 1 .. k - 1 : x \in SlotSet(vs[j].name)') \/ x \in SlotSet(vs[k].name)')
    BY <2>3, <2>5
  <2>8. (\E j \in 1 .. k - 1 : x \in SlotSet(vs[j].name)') <=> (\E j \in 1 .. k - 1 : x \in SlotSet(vs[j].name))
    BY <2>1
  <2> QED
    BY <2>2, <2>4, <2>6, <2>7, <2>8
<1>6. first .. next_slot' - 1 = SlotsOf(a, k)'
  <2> HIDE DEF first
  <2>1. \A x : x \in first .. next_slot' - 1
                  <=> x \in first .. next_slot - 1 \/ x \in next_slot .. next_slot' - 1
    BY <1>n, <1>4
  <2> QED
    BY <1>4, <1>5, <2>1
<1>7. IsFiniteSet(Elements(vs, k)) /\ Cardinality(Elements(vs, k)) = next_slot' - first
  <2> HIDE DEF first, vs
  <2>1. PICK n, f, m : n = next_slot /\ f = first /\ m = Slots(sz)
    OBVIOUS
  <2>2. n \in Nat /\ f \in Nat /\ m \in Nat /\ next_slot' = n + m
    BY <1>n, <1>4, <2>1 DEF Slots
  <2>3. IsFiniteSet(Elements(vs, k)) /\ Cardinality(Elements(vs, k)) = (n - f) + m
    BY <1>3, <1>4, <2>1
  <2>4. (n - f) + m = (n + m) - f
    BY <2>2
  <2> QED
    BY <2>1, <2>2, <2>3, <2>4
<1>8. \A m : Elements(vs, m)' = Elements(vs, m)
  BY DEF Elements, Slots
<1> QED
  <2>1. item' - 1 = k
    OBVIOUS
  <2>2. SlotsOf(at, item - 1)' = SlotsOf(a, k)'
    BY <2>1
  <2>3. /\ ast.children[at].vars' = vs
        /\ Elements(ast.children[at].vars, item - 1)' = Elements(vs, k)
        /\ var_table[ast.children[at].vars[1].name].slot' = first
    BY <1>8, <2>1
  <2>4. first < next_slot'
    <3> HIDE DEF first
    <3> QED
      BY <1>n, <1>4, SMTT(30)
  <2> HIDE DEF first, vs
  <2> QED
    BY <1>6, <1>7, <2>2, <2>3, <2>4 DEF SectionOK

\* The table of variables after one more, seen at d.
LEMMA VarsStep ==
    ASSUME VarsOK, pass = 1, pass' = 1, ast' = ast, NEW d \in Declarations,
           SeenDeclarations' = SeenDeclarations \cup {d},
           \A e \in Declarations \ SeenDeclarations : e = d \/ Before(d, e),
           NEW n0, n0 = NameAt(d), NEW sz \in Nat, sz = VarOf(d).size, NEW s0 \in Nat,
           \/ n0 \in DOMAIN var_table /\ var_table' = var_table
           \/ /\ n0 \notin DOMAIN var_table
              /\ var_table' = Put(var_table, n0, [slot |-> s0, size |-> sz])
    PROVE  VarsOK'
<1>1. /\ \A e \in SeenDeclarations : NameAt(e) \in DOMAIN var_table
      /\ \A n \in DOMAIN var_table :
            /\ var_table[n].slot \in Nat /\ var_table[n].size \in Nat
            /\ \E e \in SeenDeclarations :
                  NameAt(e) = n /\ IsFirst(e) /\ var_table[n].size = VarOf(e).size
  BY DEF VarsOK
<1>2. CASE n0 \in DOMAIN var_table /\ var_table' = var_table
  BY <1>1, <1>2, AstKept DEF VarsOK
<1>3. CASE /\ n0 \notin DOMAIN var_table
           /\ var_table' = Put(var_table, n0, [slot |-> s0, size |-> sz])
  <2>1. /\ DOMAIN var_table' = DOMAIN var_table \cup {n0}
        /\ var_table'[n0] = [slot |-> s0, size |-> sz]
        /\ \A n \in DOMAIN var_table : var_table'[n] = var_table[n]
    BY <1>3 DEF Put
  <2>2. IsFirst(d)
    BY <1>1, <1>3 DEF IsFirst
  <2>3. \A e \in SeenDeclarations' : NameAt(e)' \in DOMAIN var_table'
    BY <1>1, <2>1, AstKept
  <2>4. ASSUME NEW n \in DOMAIN var_table'
        PROVE  /\ var_table'[n].slot \in Nat /\ var_table'[n].size \in Nat
               /\ \E e \in SeenDeclarations' :
                     NameAt(e)' = n /\ IsFirst(e)' /\ var_table'[n].size = VarOf(e)'.size
    <3>1. CASE n = n0
      <4>1. d \in SeenDeclarations' /\ NameAt(d)' = n /\ IsFirst(d)' /\ VarOf(d)'.size = sz
        BY <2>2, <3>1, AstKept
      <4>2. var_table'[n].slot = s0 /\ var_table'[n].size = sz
        BY <2>1, <3>1
      <4> QED
        BY <4>1, <4>2
    <3>2. CASE n \in DOMAIN var_table
      <4>1. PICK e \in SeenDeclarations :
               NameAt(e) = n /\ IsFirst(e) /\ var_table[n].size = VarOf(e).size
        BY <1>1, <3>2
      <4>2. e \in SeenDeclarations' /\ NameAt(e)' = n /\ IsFirst(e)' /\ VarOf(e)' = VarOf(e)
        BY <4>1, AstKept
      <4>3. var_table'[n] = var_table[n]
        BY <2>1, <3>2
      <4> QED
        BY <1>1, <3>2, <4>1, <4>2, <4>3
    <3> QED
      BY <2>1, <3>1, <3>2
  <2> QED
    BY <2>3, <2>4 DEF VarsOK
<1> QED
  BY <1>2, <1>3

\* Of the groups that are complete nothing changes.
LEMMA GroupSlotsKept ==
    ASSUME SType, GroupsOK, GroupSlotsOK, VarsOK, pass = 1, pass' = 1, ast' = ast,
           structures' = structures, at \in Nat,
           \A n \in DOMAIN var_table : SlotSet(n)' = SlotSet(n)
    PROVE  GroupSlotsOK'
<1>1. ast \in Programs
  BY DEF SType
<1> SUFFICES ASSUME NEW h \in DOMAIN structures, AllNew(structures[h].section)
             PROVE  LET g == structures[h]
                    IN  g.start_slot .. g.start_slot + g.count - 1
                          = SlotsOf(g.section, Len(ast.children[g.section].vars))'
  BY AstKept DEF GroupSlotsOK
<1>2. PICK i : i = structures[h].section
  OBVIOUS
<1>3. i \in Children("data") /\ i < at /\ i \in Nat
  BY <1>1, <1>2, ProgramFacts DEF GroupsOK, Collected
<1>4. PICK k : k = Len(ast.children[i].vars)
  OBVIOUS
<1>5. ASSUME NEW j \in 1 .. k
      PROVE  SlotSet(ast.children[i].vars[j].name)' = SlotSet(ast.children[i].vars[j].name)
  <2>1. PICK n : n = ast.children[i].vars[j].name
    OBVIOUS
  <2>2. j \in DOMAIN ast.children[i].vars
    BY <1>1, <1>3, <1>4, ProgramFacts
  <2>3. << i, j >> \in SeenDeclarations
    BY <1>1, <1>3, <2>2, DeclarationFacts DEF SeenDeclarations, Before
  <2>4. n \in DOMAIN var_table
    BY <2>1, <2>3 DEF VarsOK, NameAt
  <2> QED
    BY <2>1, <2>4
<1>6. SlotsOf(i, k)' = SlotsOf(i, k)
  BY <1>5 DEF SlotsOf
<1>7. structures[h].start_slot .. structures[h].start_slot + structures[h].count - 1 = SlotsOf(i, k)
  BY <1>2, <1>4 DEF GroupSlotsOK
<1> QED
  BY <1>2, <1>4, <1>6, <1>7

LEMMA DeclareTables ==
    ASSUME SType, Position, TablesOK, DeclareVar
    PROVE  TablesOK'
<1>1. PICK a, k, n0, sz : /\ a = at /\ k = item
                          /\ n0 = ast.children[a].vars[k].name
                          /\ sz = ast.children[a].vars[k].size
  OBVIOUS
<1>2. /\ pass = 1 /\ pass' = 1 /\ ast' = ast /\ at' = a /\ item' = k + 1
      /\ UNCHANGED << structures, proc_table >>
      /\ a \in Nat /\ k \in Nat /\ k >= 1
      /\ a \in Children("data") /\ k <= Len(ast.children[a].vars) /\ ast \in Programs
  BY <1>1, ProgramFacts DEF DeclareVar, Declare, Visiting, Child, SType, Position, Children
<1>3. \/ n0 \in DOMAIN var_table /\ var_table' = var_table /\ next_slot' = next_slot
      \/ /\ n0 \notin DOMAIN var_table
         /\ var_table' = Put(var_table, n0, [slot |-> next_slot, size |-> sz])
         /\ next_slot' = next_slot + Slots(sz)
  BY <1>1 DEF DeclareVar, Declare, Child
<1>4. k \in DOMAIN ast.children[a].vars /\ sz \in Nat
  BY <1>1, <1>2, ProgramFacts
<1>5. PICK d : d = << a, k >>
  OBVIOUS
<1>6. /\ d \in Declarations /\ NameAt(d) = n0 /\ VarOf(d).size = sz
      /\ SeenDeclarations' = SeenDeclarations \cup {d}
      /\ \A e \in Declarations \ SeenDeclarations : e = d \/ Before(d, e)
      /\ \A e \in SeenDeclarations : Before(e, d) /\ ~ Before(d, e) /\ e # d
  BY <1>1, <1>2, <1>5, SeenGrows DEF NameAt, VarOf
<1>7. /\ VarsOK /\ GroupsOK /\ SlotsOK /\ SectionOK /\ GroupSlotsOK
      /\ next_slot \in Nat
      /\ \A n \in DOMAIN var_table : var_table[n].slot \in Nat
      /\ \A n \in DOMAIN var_table : SlotSet(n) \subseteq 0 .. next_slot - 1
      /\ \A e \in SeenDeclarations : NameAt(e) \in DOMAIN var_table
  BY <1>2 DEF TablesOK, VarsOK, SlotsOK
<1>8. VarsOK'
  BY <1>2, <1>3, <1>4, <1>6, <1>7, VarsStep
<1>9. GroupsOK'
  BY <1>1, <1>2, <1>7, AstKept, ZenonT(40) DEF GroupsOK, IsGroup, Collected
<1>10. \A n \in DOMAIN var_table : SlotSet(n)' = SlotSet(n)
  <2>1. CASE var_table' = var_table
    BY <2>1 DEF SlotSet
  <2>2. CASE var_table' # var_table
    BY <1>3, <1>4, <1>7, <2>2, SlotsPut
  <2> QED
    BY <2>1, <2>2
<1>11. GroupSlotsOK'
  BY <1>1, <1>2, <1>7, <1>10, GroupSlotsKept
<1>12. SlotsOK'
  <2>1. CASE var_table' = var_table /\ next_slot' = next_slot
    BY <1>2, <1>7, <1>10, <2>1 DEF SlotsOK
  <2> QED
    BY <1>2, <1>3, <1>4, <1>7, <2>1, SlotsStep
<1>13. SectionOK'
  <2>1. CASE ~ AllNew(a)
    BY <1>2, <2>1, AstKept DEF SectionOK
  <2>2. CASE AllNew(a)
    <3>1. n0 \notin DOMAIN var_table
      <4>1. \A e \in SeenDeclarations : e \in Declarations /\ NameAt(e) # n0
        BY <1>5, <1>6, <2>2 DEF AllNew, SeenDeclarations
      <4> QED
        BY <1>2, <1>7, <4>1 DEF VarsOK
    <3>2. \A j \in 1 .. k - 1 : ast.children[a].vars[j].name \in DOMAIN var_table
      <4> SUFFICES ASSUME NEW j \in 1 .. k - 1
                   PROVE  ast.children[a].vars[j].name \in DOMAIN var_table
        OBVIOUS
      <4>1. j \in DOMAIN ast.children[a].vars
        BY <1>2, ProgramFacts
      <4>2. << a, j >> \in SeenDeclarations
        BY <1>1, <1>2, <4>1, DeclarationFacts DEF SeenDeclarations, Before
      <4> QED
        BY <1>7, <4>2 DEF NameAt
    <3> QED
      BY <1>1, <1>2, <1>3, <1>4, <1>7, <2>2, <3>1, <3>2, SectionStep
  <2> QED
    BY <2>1, <2>2
<1> QED
  BY <1>8, <1>9, <1>11, <1>12, <1>13 DEF TablesOK

LEMMA SeqIsSequence ==
    ASSUME NEW S, NEW t \in Seq(S)
    PROVE  IsSequence(t)
<1>1. PICK R : R = {t[i] : i \in DOMAIN t}
  OBVIOUS
<1>2. \A i \in 1 .. Len(t) : t[i] \in R
  BY <1>1
<1>3. t \in Seq(R)
  BY <1>2
<1> QED
  BY <1>1, <1>3 DEF IsSequence

\* A sequence with one more element in front.
Prepended(t, x, s) ==
    /\ IsSequence(t) /\ DOMAIN t = 1 .. Len(s) + 1
    /\ t[1] = x /\ \A i \in DOMAIN s : t[i + 1] = s[i]
    /\ \A i \in 2 .. Len(s) + 1 : i - 1 \in DOMAIN s /\ t[i] = s[i - 1]
LEMMA InFront ==
    ASSUME NEW s, IsSequence(s), NEW x, NEW t, t = << x >> \o s
    PROVE  Prepended(t, x, s)
<1> DEFINE S == {s[i] : i \in DOMAIN s} \cup {x}
<1>1. s \in Seq(S) /\ << x >> \in Seq(S)
  <2>1. s \in Seq({s[i] : i \in DOMAIN s})
    BY DEF IsSequence
  <2> HIDE DEF S
  <2>2. {s[i] : i \in DOMAIN s} \subseteq S /\ x \in S
    BY DEF S
  <2> QED
    BY <2>1, <2>2
<1>2. t \in Seq(S) /\ Len(t) = Len(s) + 1
  <2> HIDE DEF S
  <2> QED
    BY <1>1
<1>3. /\ Len(s) \in Nat /\ DOMAIN s = 1 .. Len(s) /\ DOMAIN t = 1 .. Len(s) + 1
      /\ t[1] = x /\ \A i \in 2 .. Len(s) + 1 : t[i] = s[i - 1]
  <2> HIDE DEF S
  <2> QED
    BY <1>1, <1>2
<1>5. IsSequence(t)
  <2> HIDE DEF S
  <2> QED
    BY <1>2, SeqIsSequence
<1>6. \A i \in DOMAIN s : t[i + 1] = s[i]
  BY <1>3
<1>7. \A i \in 2 .. Len(s) + 1 : i - 1 \in DOMAIN s
  BY <1>3
<1> QED
  BY <1>3, <1>5, <1>6, <1>7 DEF Prepended

LEMMA DefineTables ==
    ASSUME SType, Position, TablesOK, DefineStructure
    PROVE  TablesOK'
<1>1. PICK a, vs, m : a = at /\ vs = ast.children[a].vars /\ m = Len(vs)
  OBVIOUS
<1>2. /\ pass = 1 /\ pass' = 1 /\ ast' = ast /\ at' = a + 1 /\ item' = 1
      /\ UNCHANGED << var_table, next_slot >>
      /\ a \in Nat /\ item \in Nat /\ item >= 1 /\ a \in Children("data") /\ ast \in Programs
      /\ IsSequence(vs) /\ m \in Nat /\ DOMAIN vs = 1 .. m /\ item = m + 1
  <2>1. /\ pass = 1 /\ pass' = 1 /\ ast' = ast /\ at' = a + 1 /\ item' = 1
        /\ UNCHANGED << var_table, next_slot >> /\ item > m /\ ast \in Programs
        /\ a <= Len(ast.children) /\ ast.children[a].kind = "data"
    BY <1>1 DEF DefineStructure, Visiting, Child, SType
  <2>2. a \in 1 .. Len(ast.children) + 1 /\ item \in Nat /\ item >= 1
    BY <1>1, <2>1 DEF Position
  <2>3. a \in Nat /\ a \in Children("data")
    BY <2>1, <2>2, ProgramFacts DEF Children
  <2>4. IsSequence(vs) /\ m \in Nat /\ DOMAIN vs = 1 .. m
    BY <1>1, <2>1, <2>3, ProgramFacts
  <2>5. item <= m + 1
    BY <1>1, <2>1, <2>3 DEF Position
  <2> QED
    BY <2>1, <2>2, <2>3, <2>4, <2>5
<1>3. SeenDeclarations' = SeenDeclarations
  <2>1. ASSUME NEW e \in Declarations
        PROVE  Before(e, << a + 1, 1 >>) <=> Before(e, << a, m + 1 >>)
    <3>1. /\ e[1] \in Nat /\ e[2] \in Nat /\ e[2] >= 1
          /\ e[1] \in Children("data") /\ e[2] \in DOMAIN ast.children[e[1]].vars
      BY <1>2, DeclarationFacts, ProgramFacts
    <3>2. e[1] = a => e[2] <= m
      BY <1>1, <1>2, <3>1
    <3> QED
      BY <1>2, <3>1, <3>2 DEF Before
  <2>2. SeenDeclarations = {d \in Declarations : Before(d, << a, m + 1 >>)}
    BY <1>1, <1>2 DEF SeenDeclarations
  <2>3. SeenDeclarations' = {d \in Declarations : Before(d, << a + 1, 1 >>)}
    BY <1>2, AstKept DEF SeenDeclarations, Before
  <2> QED
    BY <2>1, <2>2, <2>3
<1>4. \A n : SlotSet(n)' = SlotSet(n)
  BY <1>2 DEF SlotSet
<1>5. \A i, k : SlotsOf(i, k)' = SlotsOf(i, k)
  BY <1>2, <1>4 DEF SlotsOf
<1>6. VarsOK' /\ SlotsOK'
  BY <1>2, <1>3, <1>4, AstKept DEF TablesOK, VarsOK, SlotsOK
<1>7. SectionOK'
  BY <1>2 DEF SectionOK
<1>8. /\ GroupsOK /\ GroupSlotsOK /\ SectionOK /\ IsSequence(structures)
      /\ \A g \in DOMAIN structures :
            /\ structures[g].section \in Children("data") /\ structures[g].section < a
            /\ IsGroup(structures[g].section)
            /\ structures[g].name = ast.children[structures[g].section].name
      /\ \A i \in Children("data") : i < a /\ IsGroup(i) =>
            \E g \in DOMAIN structures : structures[g].section = i
  BY <1>1, <1>2 DEF TablesOK, GroupsOK, Collected
<1>9. \A i \in Children("data") : i < at' <=> i < a \/ i = a
  BY <1>2, ProgramFacts
<1>n. \A i : IsGroup(i)' <=> IsGroup(i)
  BY <1>2 DEF IsGroup
<1>c. Children("data")' = Children("data")
  BY <1>2, AstKept
<1>10. CASE ~ IsGroup(a)
  <2>1. structures' = structures
    BY <1>1, <1>2, <1>10 DEF DefineStructure, Child, IsGroup
  <2>2. GroupsOK'
    <3>1. \A h \in DOMAIN structures :
             /\ structures[h].section \in Children("data")' /\ structures[h].section < at'
             /\ IsGroup(structures[h].section)
             /\ structures[h].name = ast'.children[structures[h].section].name
      BY <1>2, <1>8, <1>9, <1>c
    <3>2. \A i \in Children("data")' : i < at' /\ IsGroup(i) =>
             \E h \in DOMAIN structures : structures[h].section = i
      BY <1>8, <1>9, <1>10, <1>c
    <3> QED
      BY <1>2, <1>8, <1>n, <2>1, <3>1, <3>2 DEF GroupsOK, Collected
  <2>3. GroupSlotsOK'
    BY <1>2, <1>5, <1>8, <2>1, AstKept DEF GroupSlotsOK
  <2> QED
    BY <1>6, <1>7, <2>2, <2>3 DEF TablesOK
<1>11. CASE IsGroup(a)
  <2>1. PICK g : g = [name |-> ast.children[a].name, section |-> a,
                      start_slot |-> var_table[vs[1].name].slot, count |-> SlotCount(vs)]
    OBVIOUS
  <2>2. structures' = << g >> \o structures
    BY <1>1, <1>2, <1>11, <2>1 DEF DefineStructure, Child, IsGroup
  <2>3. /\ IsSequence(structures') /\ DOMAIN structures' = 1 .. Len(structures) + 1
        /\ structures'[1] = g /\ Len(structures) \in Nat
        /\ \A h \in DOMAIN structures : structures'[h + 1] = structures[h]
        /\ \A h \in 2 .. Len(structures) + 1 : h - 1 \in DOMAIN structures /\ structures'[h] = structures[h - 1]
        /\ DOMAIN structures = 1 .. Len(structures)
    <3>1. PICK s, t : s = structures /\ t = << g >> \o s
      OBVIOUS
    <3>2. structures' = t
      BY <2>2, <3>1
    <3>3. IsSequence(s)
      BY <1>8, <3>1
    <3>4. Len(s) \in Nat /\ DOMAIN s = 1 .. Len(s)
      BY <3>3, SequenceFacts
    <3>5. /\ IsSequence(t) /\ DOMAIN t = 1 .. Len(s) + 1
          /\ t[1] = g /\ \A i \in DOMAIN s : t[i + 1] = s[i]
          /\ \A i \in 2 .. Len(s) + 1 : i - 1 \in DOMAIN s /\ t[i] = s[i - 1]
      <4>1. Prepended(t, g, s)
        BY <3>1, <3>3, InFront
      <4> QED
        BY <4>1 DEF Prepended
    <3> QED
      BY <3>1, <3>2, <3>4, <3>5
  <2>4. g.section = a /\ g.name = ast.children[a].name
    BY <2>1
  <2>5. ASSUME NEW h \in DOMAIN structures'
        PROVE  /\ structures'[h].section \in Children("data")
               /\ structures'[h].section < a \/ structures'[h].section = a
               /\ IsGroup(structures'[h].section)
               /\ structures'[h].name = ast.children[structures'[h].section].name
    <3>1. CASE h = 1
      BY <1>2, <1>11, <2>3, <2>4, <3>1
    <3>2. CASE h \in 2 .. Len(structures) + 1
      BY <1>8, <2>3, <3>2
    <3> QED
      BY <2>3, <3>1, <3>2
  <2>6. ASSUME NEW i \in Children("data"), i < a \/ i = a, IsGroup(i)
        PROVE  \E h \in DOMAIN structures' : structures'[h].section = i
    <3>1. CASE i = a
      BY <2>3, <2>4, <3>1
    <3>2. CASE i < a
      <4>1. PICK h \in DOMAIN structures : structures[h].section = i
        BY <1>8, <2>6, <3>2
      <4>2. h + 1 \in DOMAIN structures' /\ structures'[h + 1].section = i
        BY <2>3, <4>1
      <4> QED
        BY <4>2
    <3> QED
      BY <2>6, <3>1, <3>2
  <2>7. GroupsOK'
    <3>1. \A h \in DOMAIN structures' :
             /\ structures'[h].section \in Children("data")' /\ structures'[h].section < at'
             /\ IsGroup(structures'[h].section)
             /\ structures'[h].name = ast'.children[structures'[h].section].name
      BY <1>2, <1>9, <1>c, <2>5
    <3>2. \A i \in Children("data")' : i < at' /\ IsGroup(i) =>
             \E h \in DOMAIN structures' : structures'[h].section = i
      BY <1>9, <1>c, <2>6
    <3> QED
      BY <1>2, <1>n, <2>3, <3>1, <3>2 DEF GroupsOK, Collected
  <2>8. SlotCount(vs) = Cardinality(Elements(vs, m))
    BY <1>2 DEF SlotCount, Elements
  <2>9. ASSUME AllNew(a)
        PROVE  g.start_slot .. g.start_slot + g.count - 1 = SlotsOf(a, m)
    <3>1. m > 0
      BY <1>1, <1>2, <1>11, SequenceFacts DEF IsGroup
    <3>2. PICK first : first = var_table[vs[1].name].slot
      OBVIOUS
    <3>3. /\ first .. next_slot - 1 = SlotsOf(a, item - 1)
          /\ Cardinality(Elements(vs, item - 1)) = next_slot - first
      BY <1>1, <1>2, <1>8, <2>9, <3>1, <3>2 DEF SectionOK
    <3>4. item - 1 = m
      BY <1>2
    <3>5. first \in Nat /\ next_slot \in Nat
      <4>1. 1 \in DOMAIN vs
        BY <1>2, <3>1
      <4>2. << a, 1 >> \in SeenDeclarations
        BY <1>1, <1>2, <3>1, <4>1, DeclarationFacts DEF SeenDeclarations, Before
      <4> QED
        BY <1>1, <1>2, <3>2, <4>2, SMTT(30) DEF TablesOK, VarsOK, SlotsOK, NameAt
    <3>6. g.start_slot = first /\ g.count = next_slot - first
      BY <2>1, <2>8, <3>2, <3>3, <3>4
    <3>7. g.start_slot + g.count - 1 = next_slot - 1
      BY <3>5, <3>6
    <3> QED
      BY <3>3, <3>4, <3>6, <3>7
  <2>10. ASSUME NEW h \in DOMAIN structures', AllNew(structures'[h].section)
         PROVE  structures'[h].start_slot .. structures'[h].start_slot + structures'[h].count - 1
                  = SlotsOf(structures'[h].section, Len(ast.children[structures'[h].section].vars))
    <3>1. CASE h = 1
      BY <1>1, <2>3, <2>4, <2>9, <2>10, <3>1
    <3>2. CASE h \in 2 .. Len(structures) + 1
      <4>1. PICK f \in DOMAIN structures : structures'[h] = structures[f]
        BY <2>3, <3>2
      <4> QED
        BY <1>2, <1>8, <2>10, <4>1 DEF GroupSlotsOK
    <3> QED
      BY <2>3, <2>10, <3>1, <3>2
  <2>11. GroupSlotsOK'
    BY <1>2, <1>5, <2>10, AstKept DEF GroupSlotsOK
  <2> QED
    BY <1>6, <1>7, <2>7, <2>11 DEF TablesOK
<1> QED
  BY <1>10, <1>11
-----------------------------------------------------------------------------
(* The second part of the invariant: the procedures collected, and errors  *)
(* just where the program, as far as it was visited, is not well-formed.   *)

LabelsIn(i) == {ast.children[i].body[j].name : j \in Labelled(ast.children[i].body)}
NameOf(i) == ast.children[i].name
CollectedProcs == {i \in Children("proc") : Collected(i)}
ProcsOK ==
    pass > 0 =>
      /\ IsFiniteSet(DOMAIN proc_table)
      /\ DOMAIN proc_table = {NameOf(i) : i \in CollectedProcs}
      /\ \A n \in DOMAIN proc_table : /\ proc_table[n].order \in Nat
                                      /\ proc_table[n].order < Cardinality(DOMAIN proc_table)
      /\ error_count = 0 =>
           /\ \A i \in CollectedProcs : proc_table[NameOf(i)].labels = LabelsIn(i)
           /\ \A i, j \in CollectedProcs :
                 i < j => proc_table[NameOf(i)].order < proc_table[NameOf(j)].order

\* The statements checked, and what is known of the program so far.
Checked(i, j) == pass = 3 \/ (pass = 2 /\ (i < at \/ (i = at /\ j < item)))
MainFirst == \A i \in Children("proc") : (\A j \in Children("proc") : i <= j) => NameOf(i) = Main
Unique(procs) == \A i, j \in procs : NameOf(i) = NameOf(j) => i = j
LabelledOnce(i) == \A j, k \in Labelled(ast.children[i].body) :
                      ast.children[i].body[j].name = ast.children[i].body[k].name => j = k
GoodSoFar ==
    /\ ~ ast.long /\ MainFirst /\ Unique(CollectedProcs)
    /\ \A i \in CollectedProcs : LabelledOnce(i)
    /\ \A i \in Children("proc") : \A j \in DOMAIN ast.children[i].body :
          Checked(i, j) => GoodStatement(i, ast.children[i].body[j])
ErrorsOK == pass > 0 => (error_count = 0 <=> GoodSoFar)
-----------------------------------------------------------------------------
(* Counting errors: a number, and 0 just where there is nothing wrong.     *)

LEMMA NoneCounted ==
    ASSUME NEW S, IsFiniteSet(S)
    PROVE  Cardinality(S) \in Nat /\ (Cardinality(S) = 0 <=> S = {})
  BY FS_CardinalityType, FS_EmptySet

LEMMA OneFacts == ASSUME NEW b \in BOOLEAN PROVE One(b) \in Nat /\ (One(b) = 0 <=> ~ b)
  BY DEF One

\* A part of the places of a sequence can be counted.
LEMMA PlacesCounted ==
    ASSUME NEW m \in Nat, NEW S \in SUBSET (1 .. m)
    PROVE  Cardinality(S) \in Nat /\ (Cardinality(S) = 0 <=> S = {})
  BY CountTo, FS_Subset, NoneCounted

LEMMA OperandErrors ==
    ASSUME NEW operands, NEW n \in Nat, IsSequence(operands), n <= Len(operands),
           \A i \in DOMAIN operands : IsOperand(operands[i])
    PROVE  /\ Cardinality(ExprFaults(operands, n)) \in Nat
           /\ Cardinality(ExprFaults(operands, n)) = 0 <=>
                \A i \in 1 .. n : /\ operands[i].k # "long"
                                  /\ \A j \in DOMAIN operands[i].names : Declared(operands[i].names[j])
<1>1. IsFiniteSet(ExprFaults(operands, n))
  BY ExprFaultsFinite
<1>2. ASSUME ExprFaults(operands, n) = {}, NEW i \in 1 .. n
      PROVE  /\ operands[i].k # "long"
             /\ \A j \in DOMAIN operands[i].names : Declared(operands[i].names[j])
  <2>1. << i, 0 >> \notin ExprFaults(operands, n)
    BY <1>2
  <2>2. operands[i].k # "long"
    BY <2>1 DEF ExprFaults
  <2>3. ASSUME NEW j \in DOMAIN operands[i].names
        PROVE  Declared(operands[i].names[j])
    <3>1. << i, j >> \in UNION {{k} \X DOMAIN operands[k].names : k \in 1 .. n}
      OBVIOUS
    <3>2. << i, j >> \notin ExprFaults(operands, n)
      BY <1>2
    <3> QED
      BY <3>1, <3>2 DEF ExprFaults
  <2> QED
    BY <2>2, <2>3
<1>3. ASSUME \A i \in 1 .. n : /\ operands[i].k # "long"
                               /\ \A j \in DOMAIN operands[i].names : Declared(operands[i].names[j])
      PROVE  ExprFaults(operands, n) = {}
  <2> SUFFICES ASSUME NEW x \in ExprFaults(operands, n) PROVE FALSE
    OBVIOUS
  <2>1. CASE x \in UNION {{k} \X DOMAIN operands[k].names : k \in 1 .. n}
               /\ ~ Declared(operands[x[1]].names[x[2]])
    <3>1. PICK k \in 1 .. n : x \in {k} \X DOMAIN operands[k].names
      BY <2>1
    <3>2. x[1] = k /\ x[2] \in DOMAIN operands[k].names
      BY <3>1
    <3> QED
      BY <1>3, <2>1, <3>2
  <2>2. CASE x \in {<< i, 0 >> : i \in {k \in 1 .. n : operands[k].k = "long"}}
    BY <1>3, <2>2
  <2> QED
    BY <2>1, <2>2 DEF ExprFaults
<1> QED
  BY <1>1, <1>2, <1>3, NoneCounted

\* After the first pass a name is in a table just if the program declares it.
LEMMA DeclaredIsKnown ==
    ASSUME SType, VarsOK, GroupsOK, pass \in {2, 3}
    PROVE  \A n : Declared(n) <=> n \in Known
<1>1. /\ SeenDeclarations = Declarations /\ \A i : Collected(i)
      /\ ast \in Programs
  BY DEF SeenDeclarations, Collected, SType
<1>2. \A n : n \in DOMAIN var_table <=> \E d \in Declarations : NameAt(d) = n
  BY <1>1 DEF VarsOK
<1>3. \A n : n \in Groups <=> \E i \in Children("data") : IsGroup(i) /\ ast.children[i].name = n
  BY DEF Groups, IsGroup
<1>4. \A n : (\E g \in DOMAIN structures : structures[g].name = n) <=> n \in Groups
  BY <1>1, <1>3 DEF GroupsOK
<1> QED
  BY <1>2, <1>4 DEF Declared, Known

\* The size in the table is that of the first declaration.
LEMMA SizeIsExtent ==
    ASSUME SType, VarsOK, pass \in {2, 3}, NEW o
    PROVE  SizeOf(o) = Extent(o) /\ SizeOf(o) \in Nat
<1>1. SeenDeclarations = Declarations /\ ast \in Programs
  BY DEF SeenDeclarations, SType
<1> PICK n : n = o.names[1]
  OBVIOUS
<1> DEFINE those == {d \in Declarations : NameAt(d) = n}
           IsIt(d) == d \in those /\ \A e \in those : d = e \/ Before(d, e)
<1>2. CASE n \in DOMAIN var_table
  <2>1. PICK d \in Declarations : NameAt(d) = n /\ IsFirst(d) /\ var_table[n].size = VarOf(d).size
    BY <1>1, <1>2 DEF VarsOK
  <2>2. IsIt(d)
    BY <2>1 DEF IsFirst
  <2>3. ASSUME NEW e, IsIt(e) PROVE e = d
    <3>1. /\ d[1] \in Nat /\ d[2] \in Nat /\ e[1] \in Nat /\ e[2] \in Nat
      BY <1>1, <2>1, <2>3, DeclarationFacts
    <3>2. (d = e \/ Before(d, e)) /\ (e = d \/ Before(e, d))
      BY <2>2, <2>3
    <3> QED
      BY <3>1, <3>2 DEF Before
  <2>4. (CHOOSE e : IsIt(e)) = d
    <3> HIDE DEF IsIt
    <3> QED
      BY <2>2, <2>3
  <2>5. First(those) = d
    BY <2>4 DEF First
  <2>6. FirstSize(n) = ast.children[d[1]].vars[d[2]].size
    BY <2>2, <2>5 DEF FirstSize
  <2>7. FirstSize(n) = var_table[n].size /\ var_table[n].size \in Nat
    BY <1>2, <2>1, <2>6 DEF VarOf, VarsOK
  <2> QED
    BY <1>2, <2>7 DEF SizeOf, Extent
<1>3. CASE n \notin DOMAIN var_table
  <2>1. those = {}
    BY <1>1, <1>3 DEF VarsOK
  <2>2. FirstSize(n) = 0
    BY <2>1 DEF FirstSize
  <2> QED
    BY <1>3, <2>2 DEF SizeOf, Extent
<1> QED
  BY <1>2, <1>3

\* What the table of verbs says: numbers, and -1 for no limit.
Limits == {i \in Int : i >= -1}
IsTable(f) == \A v \in DOMAIN f : f[v].min \in Nat /\ f[v].max \in Limits

LEMMA TakesTable ==
    ASSUME NEW verbs, NEW lo \in Nat, NEW hi \in Limits, NEW vs
    PROVE  IsTable(Takes(verbs, lo, hi, vs)) /\ DOMAIN Takes(verbs, lo, hi, vs) = verbs
  BY DEF IsTable, Takes, Limits

LEMMA AndTable ==
    ASSUME NEW f, NEW g, IsTable(f), IsTable(g)
    PROVE  IsTable(And(f, g)) /\ DOMAIN And(f, g) = DOMAIN f \cup DOMAIN g
  BY DEF IsTable, And

LEMMA VerbTable == IsTable(verb_specs) /\ {"MOVE", "SWAP"} \subseteq DOMAIN verb_specs
<1>1. /\ 0 \in Nat /\ 1 \in Nat /\ 2 \in Nat /\ 3 \in Nat /\ 4 \in Nat /\ 5 \in Nat /\ 6 \in Nat
      /\ \A n \in Nat : n \in Limits
      /\ 7 \in Limits /\ 8 \in Limits /\ -1 \in Limits
  BY DEF Limits
<1>2. IsTable(Optional) /\ IsTable(Required)
  <2>1. IsTable(Optional)
    BY <1>1, TakesTable, AndTable, Zenon DEF Optional
  <2>2. IsTable(Required)
    BY <1>1, TakesTable, AndTable, Zenon DEF Required
  <2> QED
    BY <2>1, <2>2
<1>3. IsTable(Changing)
  BY <1>1, TakesTable, AndTable, Zenon DEF Changing
<1>4. IsTable(Producing)
  BY <1>1, TakesTable, AndTable, Zenon DEF Producing
<1>5. {"MOVE", "SWAP"} \subseteq DOMAIN Changing
  <2>1. /\ \A f, g : \A v \in DOMAIN f : v \in DOMAIN And(f, g)
        /\ \A f, g : \A v \in DOMAIN g : v \in DOMAIN And(f, g)
    BY DEF And
  <2>2. \A verbs, lo, hi, vs : \A v \in verbs : v \in DOMAIN Takes(verbs, lo, hi, vs)
    BY DEF Takes
  <2>3. "MOVE" \in DOMAIN Changing
    BY <2>1, <2>2, Zenon DEF Changing
  <2>4. "SWAP" \in DOMAIN Changing
    BY <2>1, <2>2, Zenon DEF Changing
  <2> QED
    BY <2>3, <2>4
<1>6. PICK f, g : f = And(Optional, Required) /\ g = And(Changing, Producing)
  OBVIOUS
<1>7. IsTable(f) /\ IsTable(g) /\ {"MOVE", "SWAP"} \subseteq DOMAIN g
  BY <1>2, <1>3, <1>4, <1>5, <1>6, AndTable
<1>8. IsTable(And(f, g)) /\ DOMAIN And(f, g) = DOMAIN f \cup DOMAIN g
  BY <1>7, AndTable
<1>9. verb_specs = And(f, g)
  BY <1>6 DEF verb_specs
<1> QED
  BY <1>7, <1>8, <1>9

LEMMA GoodOperands ==
    ASSUME SType, VarsOK, GroupsOK, pass \in {2, 3}, NEW s, IsStatement(s)
    PROVE  /\ \A n \in 0 .. Len(s.operands) :
                /\ Cardinality(ExprFaults(s.operands, n)) \in Nat
                /\ Cardinality(ExprFaults(s.operands, n)) = 0 <=> \A i \in 1 .. n : GoodOperand(s.operands[i])
           /\ AllFaults(s.operands) \in Nat
           /\ AllFaults(s.operands) = 0 <=> \A i \in DOMAIN s.operands : GoodOperand(s.operands[i])
<1>1. /\ IsSequence(s.operands) /\ \A i \in DOMAIN s.operands : IsOperand(s.operands[i])
      /\ Len(s.operands) \in Nat /\ DOMAIN s.operands = 1 .. Len(s.operands)
  BY SequenceFacts DEF IsStatement
<1>2. \A n : Declared(n) <=> n \in Known
  BY DeclaredIsKnown
<1>3. ASSUME NEW n \in 0 .. Len(s.operands)
      PROVE  /\ Cardinality(ExprFaults(s.operands, n)) \in Nat
             /\ Cardinality(ExprFaults(s.operands, n)) = 0 <=> \A i \in 1 .. n : GoodOperand(s.operands[i])
  <2>1. n \in Nat /\ n <= Len(s.operands)
    BY <1>1
  <2>2. /\ Cardinality(ExprFaults(s.operands, n)) \in Nat
        /\ Cardinality(ExprFaults(s.operands, n)) = 0 <=>
             \A i \in 1 .. n : /\ s.operands[i].k # "long"
                               /\ \A j \in DOMAIN s.operands[i].names : Declared(s.operands[i].names[j])
    BY <1>1, <2>1, OperandErrors
  <2> QED
    BY <1>2, <2>2 DEF GoodOperand
<1>4. Len(s.operands) \in 0 .. Len(s.operands)
  BY <1>1
<1> QED
  BY <1>1, <1>3, <1>4 DEF AllFaults

LEMMA VerbErrors ==
    ASSUME SType, VarsOK, GroupsOK, pass \in {2, 3}, NEW s, IsStatement(s)
    PROVE  /\ VerbFaults(s.name, s.operands) \in Nat
           /\ VerbFaults(s.name, s.operands) = 0 <=> GoodVerb(s)
<1>1. PICK verb, ops, m : verb = s.name /\ ops = s.operands /\ m = Len(ops)
  OBVIOUS
<1>2. m \in Nat /\ DOMAIN ops = 1 .. m
  BY <1>1, SequenceFacts DEF IsStatement
<1>3. \A o : SizeOf(o) = Extent(o) /\ SizeOf(o) \in Nat
  BY SizeIsExtent
<1>4. CASE verb \notin DOMAIN verb_specs
  <2>1. verb # "MOVE" /\ verb # "SWAP"
    BY <1>4, VerbTable
  <2>2. GoodVerb(s) <=> \A i \in DOMAIN ops : GoodOperand(ops[i])
    BY <1>1, <1>4, <2>1 DEF GoodVerb
  <2>3. VerbFaults(verb, ops) = AllFaults(ops)
    BY <1>4 DEF VerbFaults
  <2> QED
    BY <1>1, <2>2, <2>3, GoodOperands
<1>5. CASE verb \in DOMAIN verb_specs
  <2>1. PICK spec, lo, hi : spec = verb_specs[verb] /\ lo = spec.min /\ hi = spec.max
    OBVIOUS
  <2>2. lo \in Nat /\ hi \in Int /\ hi >= -1
    BY <1>5, <2>1, VerbTable DEF IsTable, Limits
  <2>3. PICK n : n = IF Len(ops) < 8 THEN Len(ops) ELSE 8
    OBVIOUS
  <2>4. n \in 0 .. m /\ {i \in DOMAIN ops : verb \in DOMAIN verb_specs => i <= 8} = 1 .. n
    BY <1>1, <1>2, <1>5, <2>3
  <2>5. PICK restricted, mixed, swapped :
          /\ restricted = {i \in 1 .. n : i \in spec.vars /\ ops[i].k \in {"literal", "long"}}
          /\ mixed = (verb = "MOVE" /\ ops[1].k = "ident" /\ ops[2].k = "ident" /\ SizeOf(ops[1]) # SizeOf(ops[2]))
          /\ swapped = (verb = "SWAP" /\ \E i \in 1 .. n : SizeOf(ops[i]) > 0)
    OBVIOUS
  <2>6. GoodVerb(s) <=>
          /\ \A i \in 1 .. n : GoodOperand(ops[i])
          /\ m >= lo /\ (hi # -1 => m <= hi)
          /\ \A i \in (1 .. n) \cap spec.vars : ops[i].k # "literal"
          /\ verb = "MOVE" /\ ops[1].k = "ident" /\ ops[2].k = "ident" => Extent(ops[1]) = Extent(ops[2])
          /\ verb = "SWAP" => \A i \in 1 .. n : Extent(ops[i]) = 0
    BY <1>1, <1>5, <2>1, <2>4 DEF GoodVerb
  <2>7. /\ ~ mixed <=> (verb = "MOVE" /\ ops[1].k = "ident" /\ ops[2].k = "ident" => Extent(ops[1]) = Extent(ops[2]))
        /\ ~ swapped <=> (verb = "SWAP" => \A i \in 1 .. n : Extent(ops[i]) = 0)
        /\ mixed \in BOOLEAN /\ swapped \in BOOLEAN
    <3>1. mixed \in BOOLEAN /\ swapped \in BOOLEAN
      BY <2>5, Zenon
    <3>2. ~ mixed <=> (verb = "MOVE" /\ ops[1].k = "ident" /\ ops[2].k = "ident" => Extent(ops[1]) = Extent(ops[2]))
      BY <1>3, <2>5, Zenon
    <3>3. ~ swapped <=> (verb = "SWAP" => ~ \E i \in 1 .. n : SizeOf(ops[i]) > 0)
      BY <2>5, Zenon
    <3>4. (\E i \in 1 .. n : SizeOf(ops[i]) > 0) <=> ~ \A i \in 1 .. n : Extent(ops[i]) = 0
      BY <1>3
    <3> QED
      BY <3>1, <3>2, <3>3, <3>4
  <2>8. (\A i \in 1 .. n : GoodOperand(ops[i]))
          => (restricted = {} <=> \A i \in (1 .. n) \cap spec.vars : ops[i].k # "literal")
    BY <2>5 DEF GoodOperand
  <2>9. /\ Cardinality(restricted) \in Nat /\ (Cardinality(restricted) = 0 <=> restricted = {})
        /\ One(mixed) \in Nat /\ (One(mixed) = 0 <=> ~ mixed)
        /\ One(swapped) \in Nat /\ (One(swapped) = 0 <=> ~ swapped)
    <3>1. n \in Nat /\ restricted \in SUBSET (1 .. n)
      BY <1>2, <2>4, <2>5
    <3> QED
      BY <2>7, <3>1, PlacesCounted, OneFacts
  <2>10. /\ Cardinality(ExprFaults(ops, n)) \in Nat
         /\ Cardinality(ExprFaults(ops, n)) = 0 <=> \A i \in 1 .. n : GoodOperand(ops[i])
    BY <1>1, <2>4, GoodOperands
  <2>11. VerbFaults(verb, ops) =
           IF m < lo \/ (hi >= 0 /\ m > hi) THEN 1
           ELSE Cardinality(ExprFaults(ops, n)) + Cardinality(restricted) + One(mixed) + One(swapped)
    BY <1>1, <1>5, <2>1, <2>3, <2>5 DEF VerbFaults
  <2>12. (m < lo \/ (hi >= 0 /\ m > hi)) <=> ~ (m >= lo /\ (hi # -1 => m <= hi))
    BY <1>2, <2>2
  <2>13. CASE m < lo \/ (hi >= 0 /\ m > hi)
    BY <1>1, <2>6, <2>11, <2>12, <2>13
  <2>14. CASE ~ (m < lo \/ (hi >= 0 /\ m > hi))
    <3>1. PICK e, r, x, y : /\ e = Cardinality(ExprFaults(ops, n)) /\ r = Cardinality(restricted)
                            /\ x = One(mixed) /\ y = One(swapped)
      OBVIOUS
    <3>2. e \in Nat /\ r \in Nat /\ x \in Nat /\ y \in Nat /\ VerbFaults(verb, ops) = e + r + x + y
      BY <2>9, <2>10, <2>11, <2>14, <3>1
    <3>3. VerbFaults(verb, ops) \in Nat
          /\ (VerbFaults(verb, ops) = 0 <=> e = 0 /\ r = 0 /\ x = 0 /\ y = 0)
      BY <3>2
    <3>4. GoodVerb(s) <=> e = 0 /\ r = 0 /\ x = 0 /\ y = 0
      BY <2>6, <2>7, <2>8, <2>9, <2>10, <2>12, <2>14, <3>1
    <3> QED
      BY <1>1, <3>3, <3>4
  <2> QED
    BY <2>13, <2>14
<1> QED
  BY <1>4, <1>5
-----------------------------------------------------------------------------
(* Every step of the analysis keeps its place in the program.              *)

LEMMA VisitingFacts ==
    ASSUME SType, Position, NEW n \in {1, 2}, NEW kind \in {"data", "proc"}, Visiting(n, kind)
    PROVE  /\ pass = n /\ ast \in Programs /\ at \in Children(kind) /\ at \in 1 .. Len(ast.children)
           /\ Len(ast.children) \in Nat /\ item \in Nat /\ item >= 1 /\ Child = ast.children[at]
           /\ at + 1 \in 1 .. Len(ast.children) + 1
<1>1. /\ pass = n /\ ast \in Programs /\ at <= Len(ast.children) /\ Child.kind = kind
      /\ Child = ast.children[at] /\ at \in 1 .. Len(ast.children) + 1 /\ item \in Nat /\ item >= 1
  BY DEF Visiting, Child, SType, Position
<1>2. Len(ast.children) \in Nat /\ DOMAIN ast.children = 1 .. Len(ast.children)
  BY <1>1, ProgramFacts
<1> QED
  BY <1>1, <1>2 DEF Children

\* The next child, and the end behind the last one.
LEMMA NextChild ==
    ASSUME SType, pass' \in {1, 2}, ast' = ast, item' = 1, current_proc' = None,
           at' \in 1 .. Len(ast.children) + 1, ast \in Programs
    PROVE  Position'
<1>1. \A k : Children(k)' = Children(k)
  BY AstKept
<1>2. /\ \A i \in Children("data") : 1 <= Len(ast.children[i].vars) + 1
      /\ \A i \in Children("proc") : 1 <= Len(ast.children[i].body) + 1
  <2>1. /\ \A i \in Children("data") : Len(ast.children[i].vars) \in Nat
        /\ \A i \in Children("proc") : Len(ast.children[i].body) \in Nat
    BY ProgramFacts
  <2>2. \A m \in Nat : 1 <= m + 1
    OBVIOUS
  <2> QED
    BY <2>1, <2>2, Zenon
<1>3. 1 \in Nat /\ 1 >= 1
  OBVIOUS
<1>4. PICK a : a = at'
  OBVIOUS
<1>5. /\ a \in Children("data")' => 1 <= Len(ast'.children[a].vars) + 1
      /\ a \in Children("proc")' => 1 <= Len(ast'.children[a].body) + 1
      /\ a \in 1 .. Len(ast'.children) + 1
  BY <1>1, <1>2, <1>4
<1> QED
  BY <1>3, <1>4, <1>5 DEF Position

LEMMA PositionStep ==
    ASSUME SType, Position, Analyze
    PROVE  Position' /\ pass' \in 1 .. 3 /\ ast' = ast /\ ast \in Programs
<1> USE AstKept
<1>1. CASE CheckProgram
  <2>1. pass' = 1 /\ ast' = ast /\ ast \in Programs /\ at' = 1 /\ item' = 1 /\ current_proc' = None
    BY <1>1 DEF CheckProgram, SType
  <2> QED
    BY <2>1, NextChild, ProgramFacts
<1>2. CASE DeclareVar
  <2>1. /\ Visiting(1, "data") /\ item <= Len(ast.children[at].vars) /\ item' = item + 1
        /\ UNCHANGED << ast, pass, at, current_proc >>
    BY <1>2 DEF DeclareVar, Declare, Child
  <2>2. pass = 1 /\ ast \in Programs /\ at \in Children("data") /\ item \in Nat /\ item >= 1
        /\ at \in 1 .. Len(ast.children) /\ Len(ast.children) \in Nat
    BY <2>1, VisitingFacts
  <2>3. at # Len(ast.children) + 1 /\ at \notin Children("proc") /\ Len(ast.children[at].vars) \in Nat
        /\ item' >= 1 /\ item' \in Nat /\ item' <= Len(ast.children[at].vars) + 1
    BY <2>1, <2>2, ProgramFacts
  <2> QED
    BY <2>1, <2>2, <2>3 DEF Position
<1>3. CASE DefineStructure
  <2>1. Visiting(1, "data") /\ at' = at + 1 /\ item' = 1 /\ UNCHANGED << ast, pass, current_proc >>
    BY <1>3 DEF DefineStructure
  <2>2. pass = 1 /\ ast \in Programs /\ at + 1 \in 1 .. Len(ast.children) + 1 /\ current_proc = None
    BY <2>1, VisitingFacts DEF Position
  <2> QED
    BY <2>1, <2>2, NextChild
<1>4. CASE CollectProc
  <2>1. Visiting(1, "proc") /\ at' = at + 1 /\ UNCHANGED << ast, pass, item, current_proc >>
    BY <1>4 DEF CollectProc, Collect
  <2>2. pass = 1 /\ ast \in Programs /\ at + 1 \in 1 .. Len(ast.children) + 1 /\ at \in Children("proc")
    BY <2>1, VisitingFacts
  <2>3. current_proc = None /\ item = 1
    BY <2>2 DEF Position
  <2> QED
    BY <2>1, <2>2, <2>3, NextChild
<1>5. CASE NextPass
  <2>1. /\ pass \in {1, 2} /\ at > Len(ast.children) /\ pass' = pass + 1 /\ at' = 1
        /\ UNCHANGED << ast, item, current_proc >> /\ ast \in Programs
    BY <1>5 DEF NextPass, SType
  <2>2. Len(ast.children) \in Nat /\ at \in 1 .. Len(ast.children) + 1
    BY <2>1, ProgramFacts DEF Position
  <2>3. current_proc = None /\ item = 1
    BY <2>1, <2>2 DEF Position
  <2>4. CASE pass = 1
    <3>1. pass' \in {1, 2} /\ at' \in 1 .. Len(ast.children) + 1
      BY <2>1, <2>2, <2>4
    <3> QED
      BY <2>1, <2>3, <2>4, <3>1, NextChild
  <2>5. CASE pass = 2
    BY <2>1, <2>5 DEF Position
  <2> QED
    BY <2>1, <2>4, <2>5
<1>6. CASE EnterProc
  <2>1. /\ Visiting(2, "proc") /\ current_proc = None /\ current_proc' = Child.name
        /\ UNCHANGED << ast, pass, at, item >>
    BY <1>6 DEF EnterProc
  <2>2. /\ pass = 2 /\ ast \in Programs /\ at \in Children("proc") /\ at \in 1 .. Len(ast.children)
        /\ Len(ast.children) \in Nat /\ current_proc' = ast.children[at].name
    BY <2>1, VisitingFacts
  <2>3. at # Len(ast.children) + 1 /\ at \notin Children("data") /\ current_proc' # None
    BY <2>2, ProgramFacts
  <2> QED
    BY <2>1, <2>2, <2>3 DEF Position
<1>7. ASSUME NEW kinds, Validating(kinds)
      PROVE  Position' /\ pass' \in 1 .. 3 /\ ast' = ast /\ ast \in Programs
  <2>1. /\ Visiting(2, "proc") /\ current_proc # None /\ item <= Len(ast.children[at].body)
        /\ item' = item + 1 /\ UNCHANGED << ast, pass, at, current_proc >>
    BY <1>7 DEF Validating, Child
  <2>2. /\ pass = 2 /\ ast \in Programs /\ at \in Children("proc") /\ at \in 1 .. Len(ast.children)
        /\ Len(ast.children) \in Nat /\ item \in Nat /\ item >= 1
    BY <2>1, VisitingFacts
  <2>3. /\ at # Len(ast.children) + 1 /\ at \notin Children("data")
        /\ Len(ast.children[at].body) \in Nat
        /\ item' >= 1 /\ item' \in Nat /\ item' <= Len(ast.children[at].body) + 1
    BY <2>1, <2>2, ProgramFacts
  <2> QED
    BY <2>1, <2>2, <2>3 DEF Position
<1>8. CASE ValidateVerb \/ ValidateGoto \/ ValidateProcCall \/ ValidateOther
  BY <1>7, <1>8 DEF ValidateVerb, ValidateGoto, ValidateProcCall, Called, ValidateOther
<1>9. CASE LeaveProc
  <2>1. /\ Visiting(2, "proc") /\ current_proc' = None /\ at' = at + 1 /\ item' = 1
        /\ UNCHANGED << ast, pass >>
    BY <1>9 DEF LeaveProc
  <2> QED
    BY <2>1, VisitingFacts, NextChild
<1>10. CASE SkipData
  <2>1. Visiting(2, "data") /\ at' = at + 1 /\ UNCHANGED << ast, pass, item, current_proc >>
    BY <1>10 DEF SkipData
  <2>2. pass = 2 /\ ast \in Programs /\ at + 1 \in 1 .. Len(ast.children) + 1 /\ at \in Children("data")
    BY <2>1, VisitingFacts
  <2>3. current_proc = None /\ item = 1
    BY <2>2 DEF Position
  <2> QED
    BY <2>1, <2>2, <2>3, NextChild
<1> QED
  BY <1>1, <1>2, <1>3, <1>4, <1>5, <1>6, <1>8, <1>9, <1>10 DEF Analyze

\* At its end the first pass has seen everything.
LEMMA AllSeen ==
    ASSUME SType, Position, pass = 1, at > Len(ast.children)
    PROVE  /\ at = Len(ast.children) + 1 /\ item = 1 /\ current_proc = None
           /\ SeenDeclarations = Declarations /\ \A i \in DOMAIN ast.children : Collected(i)
           /\ at \notin DOMAIN ast.children
<1>1. ast \in Programs /\ Len(ast.children) \in Nat /\ DOMAIN ast.children = 1 .. Len(ast.children)
  BY ProgramFacts DEF SType
<1>2. at = Len(ast.children) + 1 /\ item = 1 /\ current_proc = None
  BY <1>1 DEF Position
<1>3. ASSUME NEW d \in Declarations PROVE d[1] \in Nat /\ d[1] < at
  BY <1>1, <1>2, DeclarationFacts, ProgramFacts
<1> QED
  BY <1>1, <1>2, <1>3 DEF SeenDeclarations, Before, Collected

LEMMA NextPassTables ==
    ASSUME SType, Position, TablesOK, NextPass
    PROVE  TablesOK'
<1>1. /\ pass \in {1, 2} /\ at > Len(ast.children) /\ pass' = pass + 1 /\ at' = 1
      /\ UNCHANGED << ast, item, current_proc, tables >>
  BY DEF NextPass
<1>2. CASE pass = 2
  BY <1>1, <1>2, TablesKept
<1>3. CASE pass = 1
  <2>1. /\ SeenDeclarations = Declarations /\ \A i \in Children("data") : Collected(i)
    BY <1>1, <1>3, AllSeen DEF Children
  <2>2. SeenDeclarations' = Declarations /\ \A i : Collected(i)'
    BY <1>1, <1>3, AstKept DEF SeenDeclarations, Collected
  <2>3. \A n : SlotSet(n)' = SlotSet(n)
    BY <1>1 DEF SlotSet, tables
  <2>4. \A i, k : SlotsOf(i, k)' = SlotsOf(i, k)
    BY <1>1, <2>3 DEF SlotsOf
  <2>5. Children("data")' = Children("data") /\ pass' = 2 /\ pass' > 0
    BY <1>1, <1>3, AstKept
  <2>6. VarsOK' /\ SlotsOK'
    BY <1>1, <1>3, <2>1, <2>2, <2>3, AstKept DEF TablesOK, VarsOK, SlotsOK, tables
  <2>7. GroupsOK'
    <3>1. \A i : IsGroup(i)' <=> IsGroup(i)
      BY <1>1 DEF IsGroup
    <3> QED
      BY <1>1, <1>3, <2>1, <2>2, <2>5, <3>1 DEF TablesOK, GroupsOK, tables
  <2>8. SectionOK'
    BY <2>5 DEF SectionOK
  <2>9. GroupSlotsOK'
    BY <1>1, <1>3, <2>4, AstKept DEF TablesOK, GroupSlotsOK, tables
  <2> QED
    BY <2>6, <2>7, <2>8, <2>9 DEF TablesOK
<1> QED
  BY <1>1, <1>2, <1>3

LEMMA CheckProgramTables ==
    ASSUME SType, CheckProgram
    PROVE  TablesOK'
<1>1. /\ pass' = 1 /\ at' = 1 /\ item' = 1 /\ ast' = ast /\ ast \in Programs
      /\ var_table' = Empty /\ next_slot' = 0 /\ structures' = << >>
  BY DEF CheckProgram, SType
<1>2. SeenDeclarations' = {}
  <2>1. ASSUME NEW d \in Declarations PROVE ~ Before(d, << 1, 1 >>)
    <3>1. d[1] \in Nat /\ d[1] >= 1 /\ d[2] \in Nat /\ d[2] >= 1
      BY <1>1, DeclarationFacts, ProgramFacts
    <3> QED
      BY <3>1 DEF Before
  <2>2. SeenDeclarations' = {d \in Declarations : Before(d, << 1, 1 >>)}
    BY <1>1, AstKept DEF SeenDeclarations, Before
  <2> QED
    BY <2>1, <2>2
<1>3. DOMAIN var_table' = {}
  BY <1>1 DEF Empty
<1>4. DOMAIN structures' = {}
  BY <1>1
<1>5. VarsOK'
  BY <1>2, <1>3 DEF VarsOK
<1>6. GroupsOK'
  <2>1. IsSequence(structures')
    BY <1>1 DEF IsSequence
  <2>2. \A i \in Children("data")' : ~ (i < 1)
    BY <1>1, AstKept, ProgramFacts
  <2> QED
    BY <1>1, <1>4, <2>1, <2>2 DEF GroupsOK, Collected
<1>7. SlotsOK'
  BY <1>1, <1>3 DEF SlotsOK
<1>8. SectionOK' /\ GroupSlotsOK'
  BY <1>1, <1>4 DEF SectionOK, GroupSlotsOK
<1> QED
  BY <1>5, <1>6, <1>7, <1>8 DEF TablesOK

\* Collecting a procedure passes no declaration and no group.
LEMMA CollectTables ==
    ASSUME SType, Position, TablesOK, CollectProc
    PROVE  TablesOK'
<1>1. /\ Visiting(1, "proc") /\ at' = at + 1
      /\ UNCHANGED << ast, pass, item, var_table, next_slot, structures >>
  BY DEF CollectProc, Collect
<1>2. /\ pass = 1 /\ pass' = 1 /\ ast \in Programs /\ at \in Children("proc") /\ at \in Nat /\ item \in Nat
      /\ item = 1
  BY <1>1, VisitingFacts DEF Position
<1>3. at \notin Children("data")
  BY <1>2, ProgramFacts
<1>4. SeenDeclarations' = SeenDeclarations
  <2>1. ASSUME NEW d \in Declarations
        PROVE  Before(d, << at + 1, item >>) <=> Before(d, << at, item >>)
    <3>1. d[1] \in Nat /\ d[2] \in Nat /\ d[2] >= 1 /\ d[1] # at
      BY <1>2, <1>3, DeclarationFacts, ProgramFacts
    <3> QED
      BY <1>2, <3>1 DEF Before
  <2>2. SeenDeclarations = {d \in Declarations : Before(d, << at, item >>)}
    BY <1>2 DEF SeenDeclarations
  <2>3. SeenDeclarations' = {d \in Declarations : Before(d, << at + 1, item >>)}
    BY <1>1, <1>2, AstKept DEF SeenDeclarations, Before
  <2> QED
    BY <2>1, <2>2, <2>3
<1>5. \A i \in Children("data") : Collected(i)' <=> Collected(i)
  BY <1>1, <1>2, <1>3, ProgramFacts DEF Collected
<1>6. \A n : SlotSet(n)' = SlotSet(n)
  BY <1>1 DEF SlotSet
<1>7. \A i, k : SlotsOf(i, k)' = SlotsOf(i, k)
  BY <1>1, <1>6 DEF SlotsOf
<1>8. VarsOK' /\ SlotsOK'
  BY <1>1, <1>2, <1>4, <1>6, AstKept DEF TablesOK, VarsOK, SlotsOK
<1>9. GroupsOK'
  <2>1. (\A i : IsGroup(i)' <=> IsGroup(i)) /\ Children("data")' = Children("data")
    BY <1>1, AstKept DEF IsGroup
  <2>2. /\ \A h \in DOMAIN structures :
             /\ structures[h].section \in Children("data") /\ structures[h].section < at'
             /\ IsGroup(structures[h].section)
             /\ structures[h].name = ast'.children[structures[h].section].name
        /\ IsSequence(structures)
    <3>1. \A i \in Children("data") : i < at' <=> i < at
      BY <1>1, <1>2, <1>5 DEF Collected
    <3>2. /\ \A h \in DOMAIN structures :
                /\ structures[h].section \in Children("data") /\ structures[h].section < at
                /\ IsGroup(structures[h].section)
                /\ structures[h].name = ast.children[structures[h].section].name
          /\ IsSequence(structures)
      BY <1>2 DEF TablesOK, GroupsOK, Collected
    <3>3. ast' = ast
      BY <1>1
    <3> QED
      BY <3>1, <3>2, <3>3
  <2>3. \A i \in Children("data") : i < at' /\ IsGroup(i) => \E h \in DOMAIN structures : structures[h].section = i
    BY <1>1, <1>2, <1>5 DEF TablesOK, GroupsOK, Collected
  <2> QED
    BY <1>1, <1>2, <2>1, <2>2, <2>3 DEF GroupsOK, Collected
<1>10. SectionOK'
  BY <1>1, <1>2 DEF SectionOK
<1>11. GroupSlotsOK'
  BY <1>1, <1>2, <1>7, AstKept DEF TablesOK, GroupSlotsOK
<1> QED
  BY <1>8, <1>9, <1>10, <1>11 DEF TablesOK

LEMMA TablesStep ==
    ASSUME SType, Position, TablesOK, Analyze
    PROVE  TablesOK'
<1>1. CASE EnterProc \/ ValidateVerb \/ ValidateGoto \/ ValidateProcCall \/ ValidateOther
             \/ LeaveProc \/ SkipData
  <2>1. pass = 2 /\ pass' = 2 /\ UNCHANGED << ast, tables >>
    BY <1>1 DEF EnterProc, ValidateVerb, ValidateGoto, ValidateProcCall, Called, ValidateOther, Validating,
                LeaveProc, SkipData, Visiting
  <2> QED
    BY <2>1, TablesKept
<1> QED
  BY <1>1, CheckProgramTables, DeclareTables, DefineTables, CollectTables, NextPassTables DEF Analyze
-----------------------------------------------------------------------------
(* Errors are reported just for what is wrong.                             *)

LEMMA GoodKept ==
    ASSUME ast' = ast
    PROVE  \A i, s : GoodStatement(i, s)' <=> GoodStatement(i, s)
<1>1. Declarations' = Declarations /\ (\A k : Children(k)' = Children(k)) /\ \A d : NameAt(d)' = NameAt(d)
  BY AstKept
<1>2. Groups' = Groups
  BY <1>1 DEF Groups
<1>3. Known' = Known
  BY <1>1, <1>2 DEF Known
<1>4. \A n : FirstSize(n)' = FirstSize(n)
  <2> SUFFICES ASSUME NEW n PROVE FirstSize(n)' = FirstSize(n)
    OBVIOUS
  <2>1. PICK those : those = {d \in Declarations : NameAt(d) = n}
    OBVIOUS
  <2>2. those = {d \in Declarations' : NameAt(d)' = n}
    BY <1>1, <2>1
  <2> QED
    BY <2>1, <2>2 DEF FirstSize
<1>5. \A o : GoodOperand(o)' <=> GoodOperand(o)
  BY <1>3 DEF GoodOperand
<1>6. \A o : Extent(o)' = Extent(o)
  BY <1>4 DEF Extent
<1>7. \A s : GoodVerb(s)' <=> GoodVerb(s)
  BY <1>5, <1>6 DEF GoodVerb
<1> QED
  BY <1>1, <1>5, <1>7 DEF GoodStatement

\* Nothing more visited, nothing more found.
LEMMA NothingNew ==
    ASSUME ProcsOK, ErrorsOK, pass > 0, pass' > 0, UNCHANGED << ast, error_count, proc_table >>,
           CollectedProcs' = CollectedProcs,
           \A i \in Children("proc") : \A j \in DOMAIN ast.children[i].body : Checked(i, j)' <=> Checked(i, j)
    PROVE  ProcsOK' /\ ErrorsOK'
<1>1. Children("proc")' = Children("proc") /\ \A i : NameOf(i)' = NameOf(i) /\ LabelsIn(i)' = LabelsIn(i)
  BY AstKept DEF NameOf, LabelsIn, Labelled
<1>2. ProcsOK'
  BY <1>1 DEF ProcsOK
<1>3. MainFirst' <=> MainFirst
  BY <1>1 DEF MainFirst
<1>4. \A S : Unique(S)' <=> Unique(S)
  BY <1>1 DEF Unique
<1>5. \A i : LabelledOnce(i)' <=> LabelledOnce(i)
  BY DEF LabelledOnce, Labelled
<1>6. GoodSoFar' <=> GoodSoFar
  BY <1>1, <1>3, <1>4, <1>5, GoodKept DEF GoodSoFar
<1> QED
  BY <1>2, <1>6 DEF ErrorsOK

\* One statement more.
LEMMA NewStatement ==
    ASSUME SType, Position, ProcsOK, ErrorsOK, NEW kinds, Validating(kinds),
           NEW e \in Nat, error_count' = error_count + e,
           error_count = 0 => (e = 0 <=> GoodStatement(at, Statement))
    PROVE  ProcsOK' /\ ErrorsOK'
<1>1. PICK a, k : a = at /\ k = item
  OBVIOUS
<1>2. /\ pass = 2 /\ pass' = 2 /\ UNCHANGED << ast, at, tables >> /\ item' = k + 1
      /\ a \in Children("proc") /\ a \in Nat /\ k \in Nat /\ k >= 1
      /\ k \in DOMAIN ast.children[a].body /\ Statement = ast.children[a].body[k]
      /\ error_count \in Nat /\ ast \in Programs
  <2>1. /\ Visiting(2, "proc") /\ k <= Len(ast.children[a].body) /\ item' = item + 1
        /\ UNCHANGED << ast, pass, at, tables >>
    BY <1>1 DEF Validating, Child
  <2>2. /\ pass = 2 /\ ast \in Programs /\ a \in Children("proc") /\ a \in 1 .. Len(ast.children)
        /\ Len(ast.children) \in Nat /\ k \in Nat /\ k >= 1
    BY <1>1, <2>1, VisitingFacts
  <2>3. k \in DOMAIN ast.children[a].body
    BY <2>1, <2>2, ProgramFacts
  <2> QED
    BY <1>1, <2>1, <2>2, <2>3 DEF Statement, Child, SType
<1>3. /\ Children("proc")' = Children("proc") /\ CollectedProcs = Children("proc")
      /\ CollectedProcs' = Children("proc")
  BY <1>2, AstKept DEF CollectedProcs, Collected
<1>4. \A i : NameOf(i)' = NameOf(i) /\ LabelsIn(i)' = LabelsIn(i)
  BY <1>2 DEF NameOf, LabelsIn, Labelled
<1>5. error_count' = 0 <=> error_count = 0 /\ e = 0
  BY <1>2
<1>6. ProcsOK'
  BY <1>2, <1>3, <1>4, <1>5 DEF ProcsOK, tables
<1>7. MainFirst' <=> MainFirst
  BY <1>3, <1>4 DEF MainFirst
<1>8. \A S : Unique(S)' <=> Unique(S)
  BY <1>4 DEF Unique
<1>9. \A i : LabelledOnce(i)' <=> LabelledOnce(i)
  BY <1>2 DEF LabelledOnce, Labelled
<1>10. \A i \in Children("proc") : \A j \in DOMAIN ast.children[i].body :
          Checked(i, j)' <=> Checked(i, j) \/ (i = a /\ j = k)
  <2> SUFFICES ASSUME NEW i \in Children("proc"), NEW j \in DOMAIN ast.children[i].body
               PROVE  Checked(i, j)' <=> Checked(i, j) \/ (i = a /\ j = k)
    OBVIOUS
  <2>1. i \in Nat /\ j \in Nat
    <3>1. /\ i \in 1 .. Len(ast.children) /\ Len(ast.children) \in Nat
          /\ Len(ast.children[i].body) \in Nat
          /\ DOMAIN ast.children[i].body = 1 .. Len(ast.children[i].body)
      BY <1>2, ProgramFacts, Zenon
    <3> QED
      BY <3>1
  <2> QED
    BY <1>1, <1>2, <2>1 DEF Checked
<1>11. GoodSoFar' <=> GoodSoFar /\ GoodStatement(a, ast.children[a].body[k])
  BY <1>2, <1>3, <1>7, <1>8, <1>9, <1>10, GoodKept DEF GoodSoFar
<1>12. error_count = 0 <=> GoodSoFar
  BY <1>2 DEF ErrorsOK
<1> QED
  BY <1>1, <1>2, <1>5, <1>6, <1>11, <1>12 DEF ErrorsOK

LEMMA CheckProgramErrors ==
    ASSUME SType, CheckProgram
    PROVE  ProcsOK' /\ ErrorsOK' /\ error_count' \in Nat
<1>1. PICK long, misnamed :
        /\ long = ast.long
        /\ misnamed = (\E i \in Children("proc") : /\ \A j \in Children("proc") : i <= j
                                                  /\ NameOf(i) # Main)
  OBVIOUS
<1>2. /\ pass' = 1 /\ at' = 1 /\ ast' = ast /\ ast \in Programs /\ proc_table' = Empty
      /\ error_count' = One(long) + One(misnamed)
  BY <1>1 DEF CheckProgram, SType, Children, NameOf
<1>3. long \in BOOLEAN /\ misnamed \in BOOLEAN
  <2>1. misnamed \in BOOLEAN
    BY <1>1, Zenon
  <2> QED
    BY <1>1, <1>2, <2>1, ProgramFacts
<1>4. /\ One(long) \in Nat /\ (One(long) = 0 <=> ~ long)
      /\ One(misnamed) \in Nat /\ (One(misnamed) = 0 <=> ~ misnamed)
  BY <1>3, OneFacts
<1>5. error_count' \in Nat /\ (error_count' = 0 <=> ~ long /\ ~ misnamed)
  BY <1>2, <1>4
<1>6. CollectedProcs' = {} /\ \A i, j : ~ Checked(i, j)'
  BY <1>2, AstKept, ProgramFacts DEF CollectedProcs, Collected, Checked
<1>7. MainFirst' <=> ~ misnamed
  <2>1. ~ misnamed <=> \A i \in Children("proc") :
                          (\A j \in Children("proc") : i <= j) => NameOf(i) = Main
    BY <1>1, Zenon
  <2>2. Children("proc")' = Children("proc") /\ \A i : NameOf(i)' = NameOf(i)
    BY <1>2, AstKept DEF NameOf
  <2> QED
    BY <2>1, <2>2 DEF MainFirst
<1>8. GoodSoFar' <=> ~ long /\ ~ misnamed
  BY <1>1, <1>2, <1>6, <1>7 DEF GoodSoFar, Unique
<1>9. ErrorsOK'
  BY <1>5, <1>8 DEF ErrorsOK
<1>10. ProcsOK'
  <2>1. DOMAIN proc_table' = {} /\ IsFiniteSet({})
    BY <1>2, FS_EmptySet DEF Empty
  <2> QED
    BY <1>6, <2>1 DEF ProcsOK
<1> QED
  BY <1>5, <1>9, <1>10

LEMMA RepeatedFacts ==
    ASSUME NEW a, NEW body, IsSequence(body), body = ast.children[a].body
    PROVE  /\ Cardinality(Repeated(body)) \in Nat
           /\ Cardinality(Repeated(body)) = 0 <=> LabelledOnce(a)
<1>1. Len(body) \in Nat /\ DOMAIN body = 1 .. Len(body)
  BY SequenceFacts
<1>2. Repeated(body) \in SUBSET (1 .. Len(body))
  BY <1>1 DEF Repeated, Labelled
<1>3. Repeated(body) = {} <=> LabelledOnce(a)
  <2>1. ASSUME Repeated(body) = {}, NEW j \in Labelled(body), NEW k \in Labelled(body),
               body[j].name = body[k].name
        PROVE  j = k
    <3>1. j \notin Repeated(body) /\ k \notin Repeated(body)
      BY <2>1
    <3>2. ~ (j < k) /\ ~ (k < j)
      BY <2>1, <3>1 DEF Repeated
    <3>3. j \in Nat /\ k \in Nat
      BY <1>1 DEF Labelled
    <3> QED
      BY <3>2, <3>3
  <2>2. ASSUME \A j, k \in Labelled(body) : body[j].name = body[k].name => j = k,
               NEW i \in Repeated(body)
        PROVE  FALSE
    <3>1. i \in Labelled(body) /\ i \in Nat
      BY <1>1 DEF Repeated, Labelled
    <3>2. PICK j \in Labelled(body) : j < i /\ body[j].name = body[i].name
      BY DEF Repeated
    <3>3. j = i
      BY <2>2, <3>1, <3>2
    <3> QED
      BY <3>1, <3>2, <3>3
  <2> QED
    BY <2>1, <2>2 DEF LabelledOnce
<1> QED
  BY <1>1, <1>2, <1>3, PlacesCounted

LEMMA CollectErrors ==
    ASSUME SType, Position, ProcsOK, ErrorsOK, CollectProc
    PROVE  ProcsOK' /\ ErrorsOK' /\ error_count' \in Nat
<1>1. PICK a, p, body : a = at /\ p = NameOf(a) /\ body = ast.children[a].body
  OBVIOUS
<1>2. /\ pass = 1 /\ pass' = 1 /\ ast' = ast /\ at' = a + 1 /\ ast \in Programs
      /\ a \in Children("proc") /\ a \in Nat /\ error_count \in Nat
  <2>1. Visiting(1, "proc") /\ at' = at + 1 /\ UNCHANGED << ast, pass >>
    BY DEF CollectProc, Collect
  <2>2. pass = 1 /\ ast \in Programs /\ at \in Children("proc") /\ at \in 1 .. Len(ast.children)
        /\ Len(ast.children) \in Nat
    BY <2>1, VisitingFacts
  <2> QED
    BY <1>1, <2>1, <2>2 DEF SType
<1>3. \/ /\ p \in DOMAIN proc_table /\ error_count' = error_count + 1 /\ proc_table' = proc_table
      \/ /\ p \notin DOMAIN proc_table /\ error_count' = error_count + Cardinality(Repeated(body))
         /\ proc_table' = Put(proc_table, p, [order |-> Cardinality(DOMAIN proc_table), labels |-> LabelsIn(a)])
  BY <1>1 DEF CollectProc, Collect, Report, Child, NameOf, LabelsIn
<1>4. /\ Children("proc")' = Children("proc") /\ \A i : NameOf(i)' = NameOf(i) /\ LabelsIn(i)' = LabelsIn(i)
  BY <1>2, AstKept DEF NameOf, LabelsIn, Labelled
<1>5. /\ CollectedProcs = {i \in Children("proc") : i < a} /\ CollectedProcs' = CollectedProcs \cup {a}
      /\ \A i \in CollectedProcs : i < a /\ i \in Nat /\ i # a
  <2>1. \A i \in Children("proc") : i \in Nat
    BY <1>2, ProgramFacts
  <2>2. CollectedProcs = {i \in Children("proc") : i < a}
    BY <1>1, <1>2 DEF CollectedProcs, Collected
  <2>3. CollectedProcs' = {i \in Children("proc") : i < a + 1}
    BY <1>2, <1>4 DEF CollectedProcs, Collected
  <2>4. \A i \in Children("proc") : (i < a + 1 <=> i < a \/ i = a) /\ (i < a => i # a)
    BY <1>2, <2>1
  <2> QED
    BY <1>2, <2>1, <2>2, <2>3, <2>4, Zenon
<1>6. /\ IsFiniteSet(DOMAIN proc_table)
      /\ DOMAIN proc_table = {NameOf(i) : i \in CollectedProcs}
      /\ \A n \in DOMAIN proc_table : /\ proc_table[n].order \in Nat
                                      /\ proc_table[n].order < Cardinality(DOMAIN proc_table)
      /\ error_count = 0 =>
           /\ \A i \in CollectedProcs : proc_table[NameOf(i)].labels = LabelsIn(i)
           /\ \A i, j \in CollectedProcs :
                 i < j => proc_table[NameOf(i)].order < proc_table[NameOf(j)].order
      /\ error_count = 0 <=> GoodSoFar
  BY <1>2 DEF ProcsOK, ErrorsOK
<1>7. MainFirst' <=> MainFirst
  BY <1>4 DEF MainFirst
<1>8. \A S : Unique(S)' <=> Unique(S)
  BY <1>4 DEF Unique
<1>9. \A i : LabelledOnce(i)' <=> LabelledOnce(i)
  BY <1>2 DEF LabelledOnce, Labelled
<1>10. GoodSoFar' <=> /\ ~ ast.long /\ MainFirst /\ Unique(CollectedProcs \cup {a})
                      /\ \A i \in CollectedProcs \cup {a} : LabelledOnce(i)
  BY <1>2, <1>5, <1>7, <1>8, <1>9 DEF GoodSoFar, Checked
<1>11. GoodSoFar <=> /\ ~ ast.long /\ MainFirst /\ Unique(CollectedProcs)
                     /\ \A i \in CollectedProcs : LabelledOnce(i)
  BY <1>2 DEF GoodSoFar, Checked
<1>12. CASE p \in DOMAIN proc_table
  <2>1. error_count' # 0 /\ error_count' \in Nat /\ proc_table' = proc_table
    BY <1>2, <1>3, <1>12
  <2>2. ProcsOK'
    <3>1. DOMAIN proc_table = {NameOf(i) : i \in CollectedProcs \cup {a}}
      BY <1>1, <1>6, <1>12
    <3> QED
      BY <1>4, <1>5, <1>6, <2>1, <3>1 DEF ProcsOK
  <2>3. ~ Unique(CollectedProcs \cup {a})
    <3>1. PICK i \in CollectedProcs : NameOf(i) = p
      BY <1>6, <1>12
    <3> QED
      BY <1>1, <1>5, <3>1 DEF Unique
  <2> QED
    BY <1>2, <1>10, <2>1, <2>2, <2>3 DEF ErrorsOK
<1>13. CASE p \notin DOMAIN proc_table
  <2>1. PICK e : e = Cardinality(Repeated(body))
    OBVIOUS
  <2>2. e \in Nat /\ (e = 0 <=> LabelledOnce(a))
    BY <1>1, <1>2, <2>1, ProgramFacts, RepeatedFacts
  <2>3. error_count' \in Nat /\ (error_count' = 0 <=> error_count = 0 /\ e = 0)
    BY <1>2, <1>3, <1>13, <2>1, <2>2
  <2>4. Unique(CollectedProcs \cup {a}) <=> Unique(CollectedProcs)
    BY <1>1, <1>6, <1>13 DEF Unique
  <2>5. ErrorsOK'
    BY <1>2, <1>6, <1>10, <1>11, <2>2, <2>3, <2>4 DEF ErrorsOK
  <2>6. PICK c : c = Cardinality(DOMAIN proc_table)
    OBVIOUS
  <2>7. /\ c \in Nat /\ IsFiniteSet(DOMAIN proc_table \cup {p})
        /\ Cardinality(DOMAIN proc_table \cup {p}) = c + 1
    BY <1>6, <1>13, <2>6, FS_CardinalityType, FS_AddElement
  <2>8. /\ DOMAIN proc_table' = DOMAIN proc_table \cup {p}
        /\ proc_table'[p] = [order |-> c, labels |-> LabelsIn(a)]
        /\ \A n \in DOMAIN proc_table : proc_table'[n] = proc_table[n]
    BY <1>3, <1>13, <2>6 DEF Put
  <2>9. DOMAIN proc_table' = {NameOf(i) : i \in CollectedProcs \cup {a}}
    BY <1>1, <1>6, <2>8
  <2>10. ASSUME NEW n \in DOMAIN proc_table'
         PROVE  proc_table'[n].order \in Nat /\ proc_table'[n].order < c + 1
    <3>1. CASE n = p
      BY <2>7, <2>8, <3>1
    <3>2. CASE n \in DOMAIN proc_table
      <4>1. proc_table[n].order \in Nat /\ proc_table[n].order < c
        BY <1>6, <2>6, <3>2
      <4> QED
        BY <2>7, <2>8, <3>2, <4>1
    <3> QED
      BY <2>8, <3>1, <3>2
  <2>11. \A i \in CollectedProcs : NameOf(i) \in DOMAIN proc_table
    BY <1>6
  <2>12. ASSUME error_count' = 0, NEW i \in CollectedProcs \cup {a}
         PROVE  proc_table'[NameOf(i)].labels = LabelsIn(i)
    <3>1. CASE i = a
      BY <1>1, <2>8, <3>1
    <3>2. CASE i \in CollectedProcs
      BY <1>6, <2>3, <2>8, <2>11, <2>12, <3>2
    <3> QED
      BY <3>1, <3>2
  <2>13. ASSUME error_count' = 0, NEW i \in CollectedProcs \cup {a}, NEW j \in CollectedProcs \cup {a}, i < j
         PROVE  proc_table'[NameOf(i)].order < proc_table'[NameOf(j)].order
    <3>1. CASE i \in CollectedProcs /\ j \in CollectedProcs
      BY <1>6, <2>3, <2>8, <2>11, <2>13, <3>1
    <3>2. CASE i \in CollectedProcs /\ j = a
      BY <1>1, <1>6, <2>6, <2>8, <2>11, <3>2
    <3>3. CASE i = a
      <4>1. j = a \/ (j < a /\ j \in Nat)
        BY <1>5, <2>13
      <4> QED
        BY <1>2, <2>13, <3>3, <4>1
    <3> QED
      BY <3>1, <3>2, <3>3
  <2>14. ProcsOK'
    <3>1. /\ IsFiniteSet(DOMAIN proc_table') /\ Cardinality(DOMAIN proc_table') = c + 1
          /\ DOMAIN proc_table' = {NameOf(i)' : i \in CollectedProcs'}
      BY <1>4, <1>5, <2>7, <2>8, <2>9
    <3>2. /\ \A n \in DOMAIN proc_table' : /\ proc_table'[n].order \in Nat
                                           /\ proc_table'[n].order < Cardinality(DOMAIN proc_table')
      BY <2>10, <3>1
    <3>3. error_count' = 0 =>
           /\ \A i \in CollectedProcs' : proc_table'[NameOf(i)'].labels = LabelsIn(i)'
           /\ \A i, j \in CollectedProcs' :
                 i < j => proc_table'[NameOf(i)'].order < proc_table'[NameOf(j)'].order
      BY <1>4, <1>5, <2>12, <2>13
    <3> QED
      BY <3>1, <3>2, <3>3 DEF ProcsOK
  <2> QED
    BY <2>3, <2>5, <2>14
<1> QED
  BY <1>12, <1>13

\* What a step that checks a statement may look at.
LEMMA ValidatingFacts ==
    ASSUME SType, Position, NEW kinds, Validating(kinds)
    PROVE  /\ pass = 2 /\ pass' = 2 /\ at \in Children("proc") /\ at \in Nat /\ IsStatement(Statement)
           /\ Statement.kind \in kinds /\ current_proc = NameOf(at) /\ error_count \in Nat
           /\ CollectedProcs = Children("proc") /\ ast \in Programs
<1>1. /\ Visiting(2, "proc") /\ current_proc # None /\ item <= Len(ast.children[at].body)
      /\ Statement = ast.children[at].body[item] /\ Statement.kind \in kinds /\ pass' = pass
  BY DEF Validating, Child, Statement
<1>2. /\ pass = 2 /\ ast \in Programs /\ at \in Children("proc") /\ at \in 1 .. Len(ast.children)
      /\ Len(ast.children) \in Nat /\ item \in Nat /\ item >= 1
  BY <1>1, VisitingFacts
<1>3. item \in DOMAIN ast.children[at].body /\ IsStatement(Statement)
  BY <1>1, <1>2, ProgramFacts
<1>4. current_proc = NameOf(at)
  BY <1>1, <1>2 DEF Position, NameOf
<1>5. CollectedProcs = Children("proc")
  BY <1>2 DEF CollectedProcs, Collected
<1> QED
  BY <1>1, <1>2, <1>3, <1>4, <1>5 DEF SType

LEMMA VerbStep ==
    ASSUME SType, Position, TablesOK, ProcsOK, ErrorsOK, ValidateVerb
    PROVE  ProcsOK' /\ ErrorsOK' /\ error_count' \in Nat
<1>1. PICK e : e = VerbFaults(Statement.name, Statement.operands)
  OBVIOUS
<1>2. Validating({"verb"}) /\ error_count' = error_count + e
  BY <1>1 DEF ValidateVerb, Report
<1>3. pass = 2 /\ IsStatement(Statement) /\ Statement.kind = "verb" /\ error_count \in Nat
  BY <1>2, ValidatingFacts
<1>4. e \in Nat /\ (e = 0 <=> GoodVerb(Statement))
  BY <1>1, <1>3, VerbErrors DEF TablesOK
<1>5. e = 0 <=> GoodStatement(at, Statement)
  BY <1>3, <1>4 DEF GoodStatement
<1> QED
  BY <1>2, <1>3, <1>4, <1>5, NewStatement

LEMMA OtherStep ==
    ASSUME SType, Position, TablesOK, ProcsOK, ErrorsOK, ValidateOther
    PROVE  ProcsOK' /\ ErrorsOK' /\ error_count' \in Nat
<1>1. PICK e : e = AllFaults(Statement.operands)
  OBVIOUS
<1>2. Validating({"block", "compare", "label", "end"}) /\ error_count' = error_count + e
  BY <1>1 DEF ValidateOther, Report
<1>3. /\ pass = 2 /\ IsStatement(Statement) /\ error_count \in Nat
      /\ Statement.kind \in {"block", "compare", "label", "end"}
  BY <1>2, ValidatingFacts
<1>4. e \in Nat /\ (e = 0 <=> \A i \in DOMAIN Statement.operands : GoodOperand(Statement.operands[i]))
  BY <1>1, <1>3, GoodOperands DEF TablesOK
<1>5. e = 0 <=> GoodStatement(at, Statement)
  BY <1>3, <1>4 DEF GoodStatement
<1> QED
  BY <1>2, <1>3, <1>4, <1>5, NewStatement

LEMMA GotoStep ==
    ASSUME SType, Position, TablesOK, ProcsOK, ErrorsOK, ValidateGoto
    PROVE  ProcsOK' /\ ErrorsOK' /\ error_count' \in Nat
<1>1. PICK s, labels, lost, e, f :
        /\ s = Statement /\ labels = s.labels
        /\ lost = {i \in DOMAIN labels : labels[i] \notin proc_table[current_proc].labels}
        /\ e = AllFaults(s.operands) /\ f = Cardinality(lost)
  OBVIOUS
<1>2. Validating({"goto"}) /\ error_count' = error_count + (e + f)
  BY <1>1 DEF ValidateGoto, Report
<1>3. /\ pass = 2 /\ IsStatement(s) /\ s.kind = "goto" /\ error_count \in Nat
      /\ at \in Children("proc") /\ current_proc = NameOf(at) /\ CollectedProcs = Children("proc")
  BY <1>1, <1>2, ValidatingFacts
<1>4. e \in Nat /\ (e = 0 <=> \A i \in DOMAIN s.operands : GoodOperand(s.operands[i]))
  BY <1>1, <1>3, GoodOperands DEF TablesOK
<1>5. f \in Nat /\ (f = 0 <=> lost = {})
  <2>1. Len(labels) \in Nat /\ DOMAIN labels = 1 .. Len(labels)
    BY <1>1, <1>3, SequenceFacts DEF IsStatement
  <2> QED
    BY <1>1, <2>1, PlacesCounted
<1>6. error_count = 0 =>
        (lost = {} <=> \A k \in DOMAIN labels : \E j \in DOMAIN ast.children[at].body :
                          /\ ast.children[at].body[j].kind = "label"
                          /\ ast.children[at].body[j].name = labels[k])
  <2> SUFFICES ASSUME error_count = 0
               PROVE  lost = {} <=> \A k \in DOMAIN labels : \E j \in DOMAIN ast.children[at].body :
                                       /\ ast.children[at].body[j].kind = "label"
                                       /\ ast.children[at].body[j].name = labels[k]
    OBVIOUS
  <2>1. proc_table[current_proc].labels = LabelsIn(at)
    BY <1>3 DEF ProcsOK
  <2>2. \A l : l \in LabelsIn(at) <=> \E j \in DOMAIN ast.children[at].body :
                                         /\ ast.children[at].body[j].kind = "label"
                                         /\ ast.children[at].body[j].name = l
    BY DEF LabelsIn, Labelled
  <2> QED
    BY <1>1, <2>1, <2>2
<1>7. error_count = 0 => (e + f = 0 <=> GoodStatement(at, s))
  BY <1>1, <1>3, <1>4, <1>5, <1>6 DEF GoodStatement
<1>8. e + f \in Nat
  BY <1>4, <1>5
<1> QED
  BY <1>1, <1>2, <1>3, <1>7, <1>8, NewStatement

LEMMA CallStep ==
    ASSUME SType, Position, TablesOK, ProcsOK, ErrorsOK, ValidateProcCall
    PROVE  ProcsOK' /\ ErrorsOK' /\ error_count' \in Nat
<1>1. PICK s, q, backward, e, f :
        /\ s = Statement /\ q = s.name
        /\ backward = (q \in DOMAIN proc_table /\ proc_table[q].order < proc_table[current_proc].order + 1)
        /\ e = AllFaults(s.operands) /\ f = One(backward)
  OBVIOUS
<1>2. Validating({"call"}) /\ error_count' = error_count + (e + f)
  BY <1>1 DEF ValidateProcCall, Called, Report
<1>3. /\ pass = 2 /\ IsStatement(s) /\ s.kind = "call" /\ error_count \in Nat /\ ast \in Programs
      /\ at \in Children("proc") /\ current_proc = NameOf(at) /\ CollectedProcs = Children("proc")
  BY <1>1, <1>2, ValidatingFacts
<1>4. e \in Nat /\ (e = 0 <=> \A i \in DOMAIN s.operands : GoodOperand(s.operands[i]))
  BY <1>1, <1>3, GoodOperands DEF TablesOK
<1>5. backward \in BOOLEAN
  BY <1>1, Zenon
<1>6. f \in Nat /\ (f = 0 <=> ~ backward)
  BY <1>1, <1>5, OneFacts
<1>7. backward <=> q \in DOMAIN proc_table /\ proc_table[q].order < proc_table[current_proc].order + 1
  BY <1>1, Zenon
<1>8. error_count = 0 => (~ backward <=> \A j \in Children("proc") : NameOf(j) = q => at < j)
  <2> SUFFICES ASSUME error_count = 0
               PROVE  ~ backward <=> \A j \in Children("proc") : NameOf(j) = q => at < j
    OBVIOUS
  <2>1. /\ DOMAIN proc_table = {NameOf(i) : i \in Children("proc")}
        /\ \A n \in DOMAIN proc_table : proc_table[n].order \in Nat
        /\ \A i, j \in Children("proc") :
                 i < j => proc_table[NameOf(i)].order < proc_table[NameOf(j)].order
    BY <1>3 DEF ProcsOK
  <2>2. Unique(Children("proc"))
    BY <1>3 DEF ErrorsOK, GoodSoFar
  <2>3. \A j \in Children("proc") : j \in Nat
    BY <1>3, ProgramFacts
  <2>4. CASE q \notin DOMAIN proc_table
    BY <1>7, <2>1, <2>4
  <2>5. CASE q \in DOMAIN proc_table
    <3>1. PICK j \in Children("proc") : NameOf(j) = q
      BY <2>1, <2>5
    <3>2. \A i \in Children("proc") : NameOf(i) = q <=> i = j
      BY <2>2, <3>1 DEF Unique
    <3>3. PICK m, n : m = proc_table[q].order /\ n = proc_table[current_proc].order
      OBVIOUS
    <3>4. m \in Nat /\ n \in Nat /\ j \in Nat /\ at \in Nat
      BY <1>3, <2>1, <2>3, <2>5, <3>3
    <3>5. (at < j => n < m) /\ (j < at => m < n) /\ (j = at => m = n)
      BY <1>3, <2>1, <3>1, <3>3
    <3>6. backward <=> m < n + 1
      BY <1>7, <2>5, <3>3
    <3>7. ~ backward <=> at < j
      BY <3>4, <3>5, <3>6
    <3> QED
      BY <3>1, <3>2, <3>7
  <2> QED
    BY <2>4, <2>5
<1>9. error_count = 0 => (e + f = 0 <=> GoodStatement(at, s))
  BY <1>1, <1>3, <1>4, <1>6, <1>8 DEF GoodStatement, NameOf
<1>10. e + f \in Nat
  BY <1>4, <1>6
<1> QED
  BY <1>1, <1>2, <1>3, <1>9, <1>10, NewStatement

\* The other steps report no error and pass no procedure or statement
\* without having seen it.
LEMMA QuietStep ==
    ASSUME SType, Position, ProcsOK, ErrorsOK,
           DeclareVar \/ DefineStructure \/ NextPass \/ EnterProc \/ LeaveProc \/ SkipData
    PROVE  ProcsOK' /\ ErrorsOK' /\ error_count' \in Nat
<1>1. /\ pass \in {1, 2} /\ ast \in Programs /\ ast' = ast /\ proc_table' = proc_table /\ pass' > 0
      /\ error_count' = error_count /\ error_count \in Nat
  <2>1. /\ pass \in {1, 2} /\ ast' = ast /\ proc_table' = proc_table /\ (pass' = pass \/ pass' = pass + 1)
        /\ (error_count' = error_count \/ error_count' = error_count + 0)
    BY DEF DeclareVar, Declare, Report, DefineStructure, NextPass, EnterProc, LeaveProc, SkipData,
           Visiting, tables
  <2> QED
    BY <2>1 DEF SType
<1>2. /\ Len(ast.children) \in Nat /\ at \in 1 .. Len(ast.children) + 1
      /\ \A i \in Children("proc") : /\ i \in 1 .. Len(ast.children) /\ Len(ast.children[i].body) \in Nat
                                     /\ DOMAIN ast.children[i].body = 1 .. Len(ast.children[i].body)
      /\ Children("proc")' = Children("proc") /\ Children("data") \cap Children("proc") = {}
  BY <1>1, ProgramFacts, AstKept DEF Position
<1>3. SUFFICES /\ \A i \in Children("proc") : Collected(i)' <=> Collected(i)
               /\ \A i \in Children("proc") : \A j \in DOMAIN ast.children[i].body :
                     Checked(i, j)' <=> Checked(i, j)
  <2>1. ASSUME \A i \in Children("proc") : Collected(i)' <=> Collected(i)
        PROVE  CollectedProcs' = CollectedProcs
    BY <1>2, <2>1 DEF CollectedProcs
  <2> QED
    BY <1>1, <1>3, <2>1, NothingNew
<1>4. CASE DeclareVar
  BY <1>4 DEF DeclareVar, Declare, Visiting, Collected, Checked
<1>5. CASE DefineStructure
  <2>1. Visiting(1, "data") /\ at' = at + 1 /\ pass' = pass
    BY <1>5 DEF DefineStructure
  <2>2. pass = 1 /\ at \in Children("data")
    BY <2>1, VisitingFacts
  <2>3. \A i \in Children("proc") : i < at' <=> i < at
    BY <1>2, <2>1, <2>2
  <2> QED
    BY <2>1, <2>2, <2>3 DEF Collected, Checked
<1>6. CASE NextPass
  <2>1. at > Len(ast.children) /\ pass' = pass + 1 /\ at' = 1 /\ item' = item
    BY <1>6 DEF NextPass
  <2>2. item = 1 /\ at = Len(ast.children) + 1
    BY <1>1, <1>2, <2>1 DEF Position
  <2>3. \A i \in Children("proc") : i < at /\ ~ (i < 1)
    BY <1>2, <2>2
  <2>4. \A i \in Children("proc") : \A j \in DOMAIN ast.children[i].body : ~ (j < 1)
    BY <1>2
  <2> QED
    BY <1>1, <2>1, <2>2, <2>3, <2>4 DEF Collected, Checked
<1>7. CASE EnterProc
  BY <1>7 DEF EnterProc, Collected, Checked
<1>8. CASE LeaveProc
  <2>1. Visiting(2, "proc") /\ item > Len(ast.children[at].body) /\ at' = at + 1 /\ item' = 1 /\ pass' = pass
    BY <1>8 DEF LeaveProc, Child
  <2>2. pass = 2 /\ at \in Children("proc") /\ item \in Nat
    BY <2>1, VisitingFacts
  <2>3. ASSUME NEW i \in Children("proc"), NEW j \in DOMAIN ast.children[i].body
        PROVE  (i < at + 1 \/ (i = at + 1 /\ j < 1)) <=> (i < at \/ (i = at /\ j < item))
    <3>1. i \in Nat /\ at \in Nat /\ j \in Nat /\ j >= 1 /\ j <= Len(ast.children[i].body)
      BY <1>2
    <3>2. i = at => j < item
      <4>1. PICK m : m = Len(ast.children[at].body)
        OBVIOUS
      <4>2. m \in Nat /\ item > m /\ (i = at => j <= m)
        BY <1>2, <2>1, <2>2, <3>1, <4>1
      <4> QED
        BY <2>2, <3>1, <4>2
    <3> QED
      BY <3>1, <3>2
  <2> QED
    BY <2>1, <2>2, <2>3 DEF Collected, Checked
<1>9. CASE SkipData
  <2>1. Visiting(2, "data") /\ at' = at + 1 /\ pass' = pass /\ item' = item
    BY <1>9 DEF SkipData
  <2>2. pass = 2 /\ at \in Children("data")
    BY <2>1, VisitingFacts
  <2>3. item = 1
    BY <2>2 DEF Position
  <2>4. \A i \in Children("proc") : (i < at' <=> i < at) /\ i # at
    BY <1>2, <2>1, <2>2
  <2>5. \A i \in Children("proc") : \A j \in DOMAIN ast.children[i].body : ~ (j < 1)
    BY <1>2
  <2> QED
    BY <2>1, <2>2, <2>3, <2>4, <2>5 DEF Collected, Checked
<1> QED
  BY <1>4, <1>5, <1>6, <1>7, <1>8, <1>9
-----------------------------------------------------------------------------
(* The invariant of the analysis, and what follows from it.                *)

SemaInv == SType /\ Position /\ TablesOK /\ ProcsOK /\ ErrorsOK

LEMMA AnalyzeStep ==
    ASSUME SemaInv, Analyze
    PROVE  SemaInv'
<1>1. SType /\ Position /\ TablesOK /\ ProcsOK /\ ErrorsOK
  BY DEF SemaInv
<1>2. Position' /\ pass' \in 1 .. 3 /\ ast' = ast /\ ast \in Programs
  BY <1>1, PositionStep
<1>3. ProcsOK' /\ ErrorsOK' /\ error_count' \in Nat
  BY <1>1, CheckProgramErrors, CollectErrors, VerbStep, GotoStep, CallStep, OtherStep, QuietStep DEF Analyze
<1>4. SType'
  BY <1>2, <1>3 DEF SType
<1> QED
  BY <1>1, <1>2, <1>3, <1>4, TablesStep DEF SemaInv

\* Before a program is there, there is nothing to say.
LEMMA NotAnalyzed ==
    ASSUME pass' = 0, ast' \in Programs \cup {None}
    PROVE  SemaInv'
  BY DEF SemaInv, SType, Position, TablesOK, VarsOK, GroupsOK, SlotsOK, SectionOK, GroupSlotsOK, ProcsOK, ErrorsOK

\* Afterwards what was found stays.
LEMMA AnalysisKept ==
    ASSUME SemaInv, UNCHANGED << ast, pass, tables, error_count >>,
           pass \notin {1, 2} \/ UNCHANGED << at, item, current_proc >>
    PROVE  SemaInv'
<1>1. SType /\ Position /\ TablesOK /\ ProcsOK /\ ErrorsOK /\ pass \in 0 .. 3
  BY DEF SemaInv, SType
<1>2. SType'
  BY <1>1 DEF SType
<1>3. Position'
  BY <1>1, AstKept DEF Position
<1>4. TablesOK'
  BY <1>1, TablesKept
<1>5. CASE pass = 0
  BY <1>2, <1>3, <1>4, <1>5 DEF SemaInv, ProcsOK, ErrorsOK
<1>6. CASE pass # 0
  <2>1. /\ \A i : Collected(i)' <=> Collected(i)
        /\ \A i, j : Checked(i, j)' <=> Checked(i, j)
    BY <1>1, <1>6 DEF Collected, Checked
  <2>2. CollectedProcs' = CollectedProcs
    BY <2>1, AstKept DEF CollectedProcs
  <2>3. ProcsOK' /\ ErrorsOK'
    BY <1>1, <1>6, <2>1, <2>2, NothingNew DEF tables
  <2> QED
    BY <1>2, <1>3, <1>4, <2>3 DEF SemaInv
<1> QED
  BY <1>5, <1>6

LEMMA InvAccepts ==
    ASSUME SemaInv
    PROVE  AcceptsWellFormed
<1>1. ASSUME pass = 3 PROVE error_count = 0 <=> WellFormed
  <2>1. error_count = 0 <=> GoodSoFar
    BY <1>1 DEF SemaInv, ErrorsOK
  <2>2. CollectedProcs = Children("proc") /\ \A i, j : Checked(i, j)
    BY <1>1 DEF CollectedProcs, Collected, Checked
  <2>3. \A i \in Children("proc") :
           LabelledOnce(i) <=> \A j, k \in DOMAIN ast.children[i].body :
                                  LET s == ast.children[i].body[j]
                                      t == ast.children[i].body[k]
                                  IN  s.kind = "label" /\ t.kind = "label" /\ s.name = t.name => j = k
    BY DEF LabelledOnce, Labelled
  <2> QED
    BY <2>1, <2>2, <2>3 DEF GoodSoFar, WellFormed, MainFirst, Unique, NameOf
<1> QED
  BY <1>1 DEF AcceptsWellFormed

LEMMA InvPartitioned ==
    ASSUME SemaInv
    PROVE  SlotsPartitioned
<1> SUFFICES ASSUME pass > 0
             PROVE  /\ \A m, n \in DOMAIN var_table : m # n => SlotSet(m) \cap SlotSet(n) = {}
                    /\ \A k \in 0 .. next_slot - 1 : \E n \in DOMAIN var_table : k \in SlotSet(n)
                    /\ \A n \in DOMAIN var_table : SlotSet(n) \subseteq 0 .. next_slot - 1
                    /\ \A g \in DOMAIN structures : GroupExact(structures[g])
  BY DEF SlotsPartitioned
<1>1. ast \in Programs /\ SlotsOK /\ GroupsOK /\ GroupSlotsOK
  BY DEF SemaInv, SType, TablesOK
<1>2. ASSUME NEW h \in DOMAIN structures
      PROVE  GroupExact(structures[h])
  <2>1. PICK g, i, vs : g = structures[h] /\ i = g.section /\ vs = ast.children[i].vars
    OBVIOUS
  <2>2. i \in Children("data") /\ Len(vs) \in Nat /\ DOMAIN vs = 1 .. Len(vs)
    BY <1>1, <2>1, ProgramFacts DEF GroupsOK
  <2>3. PICK names : names = {v.name : v \in {vs[j] : j \in DOMAIN vs}}
    OBVIOUS
  <2>4. \A n : n \in names <=> \E j \in 1 .. Len(vs) : n = vs[j].name
    BY <2>2, <2>3
  <2>5. \A n : SlotSet(n) \subseteq Int
    BY DEF SlotSet
  <2>6. SlotsOf(i, Len(vs)) = {x \in Nat : \E n \in names : x \in SlotSet(n)}
    BY <2>1, <2>4 DEF SlotsOf
  <2>7. ASSUME AllNew(i), NEW n \in names PROVE SlotSet(n) \subseteq Nat
    <3>1. PICK j \in 1 .. Len(vs) : n = vs[j].name
      BY <2>4
    <3>2. << i, j >> \in Declarations /\ NameAt(<< i, j >>) = n /\ Collected(i)
      BY <1>1, <2>1, <2>2, <3>1, DeclarationFacts DEF NameAt, GroupsOK
    <3>3. << i, j >> \in SeenDeclarations
      <4>1. i \in Nat
        BY <1>1, <2>2, ProgramFacts
      <4> QED
        BY <3>2, <4>1 DEF SeenDeclarations, Collected, Before
    <3>4. n \in DOMAIN var_table
      BY <3>2, <3>3 DEF SemaInv, TablesOK, VarsOK
    <3> QED
      BY <1>1, <3>4 DEF SlotsOK
  <2>8. ASSUME AllNew(i)
        PROVE  g.start_slot .. g.start_slot + g.count - 1 = UNION {SlotSet(n) : n \in names}
    <3>1. g.start_slot .. g.start_slot + g.count - 1 = SlotsOf(i, Len(vs))
      BY <1>1, <2>1, <2>8 DEF GroupSlotsOK
    <3>2. \A n \in names : SlotSet(n) \subseteq Nat
      BY <2>7, <2>8
    <3> QED
      BY <2>6, <3>1, <3>2
  <2> QED
    BY <2>1, <2>3, <2>8 DEF GroupExact
<1> QED
  BY <1>1, <1>2 DEF SlotsOK

(***************************************************************************)
(* The compilation.                                                        *)
(***************************************************************************)

\* The last entry of a table not after an address.
LEMMA LastFound ==
    ASSUME NEW table, NEW a \in Nat, Len(table) \in Nat, DOMAIN table = 1 .. Len(table),
           \A j \in DOMAIN table : table[j][1] \in Nat,
           NEW i \in DOMAIN table, table[i][1] <= a,
           \A j \in DOMAIN table : i < j => table[j][1] > a
    PROVE  LastNotAfter(table, a, LAMBDA e : e[1]) = i
<1> DEFINE IsIt(k) == table[k][1] <= a /\ \A j \in k + 1 .. Len(table) : table[j][1] > a
<1>1. IsIt(i)
  OBVIOUS
<1>2. ASSUME NEW k \in DOMAIN table, IsIt(k) PROVE k = i
  <2>1. ~ (i < k)
    BY <1>2
  <2>2. ~ (k < i)
    BY <1>2
  <2> QED
    BY <2>1, <2>2
<1>3. (CHOOSE k \in DOMAIN table : IsIt(k)) = i
  <2> HIDE DEF IsIt
  <2> QED
    BY <1>1, <1>2
<1> QED
  BY <1>3 DEF LastNotAfter

LEMMA LastFoundSecond ==
    ASSUME NEW table, NEW a \in Nat, Len(table) \in Nat, DOMAIN table = 1 .. Len(table),
           \A j \in DOMAIN table : table[j][2] \in Nat,
           NEW i \in DOMAIN table, table[i][2] <= a,
           \A j \in DOMAIN table : i < j => table[j][2] > a
    PROVE  LastNotAfter(table, a, LAMBDA e : e[2]) = i
<1> DEFINE IsIt(k) == table[k][2] <= a /\ \A j \in k + 1 .. Len(table) : table[j][2] > a
<1>1. IsIt(i)
  OBVIOUS
<1>2. ASSUME NEW k \in DOMAIN table, IsIt(k) PROVE k = i
  <2>1. ~ (i < k)
    BY <1>2
  <2>2. ~ (k < i)
    BY <1>2
  <2> QED
    BY <2>1, <2>2
<1>3. (CHOOSE k \in DOMAIN table : IsIt(k)) = i
  <2> HIDE DEF IsIt
  <2> QED
    BY <1>1, <1>2
<1> QED
  BY <1>3 DEF LastNotAfter
-----------------------------------------------------------------------------
(* The inductive invariant.                                                *)

\* How far the compilation is, and with what.
StageOK ==
    /\ diag_errors \in Nat /\ runs \in Nat
    /\ pass \in {1, 2} => stage = "analyze"
    /\ stage = "analyze" => "preprocess" \notin options /\ entry # "parse"
    /\ stage = "analyze" /\ pass = 3 => current_proc = None
    /\ stage # "start" /\ stage # "done" => "input" \in options
    /\ stage \in {"generate", "debug"} =>
         /\ pass = 3 /\ error_count = 0 /\ entry # "parse"
         /\ {"check", "preprocess"} \cap options = {}
    /\ stage = "debug" => "sdb" \in options

\* What there is of the files of main, which compiles once.
FilesOK ==
    entry = "main" =>
      /\ stage \in {"start", "open", "parse", "analyze", "generate"} =>
           cod \in {"none", "old"} /\ sdb \in {"none", "old"}
      /\ stage = "debug" => cod \in {"new", "cut"} /\ sdb \in {"none", "old"}
      /\ ExitTellsOutput

\* Where the generator is.
GenPosition ==
    stage = "generate" =>
      /\ at \in 1 .. Len(ast.children) + 1 /\ item \in Nat /\ item >= 1
      /\ current_proc # None => at \in Children("proc") /\ current_proc = NameOf(at)

\* The tables that go to the debugger.
Entries == Nat \X (Nat \X Nat)
Increasing(table) == \A i, j \in DOMAIN table : i < j => table[i][1] < table[j][1]
LinesOK ==
    /\ lines \in Seq(Entries) /\ Increasing(lines)
    /\ \A i \in DOMAIN lines : lines[i][1] <= offset
    /\ "sdb" \in options => \A a \in DOMAIN emitted :
         \E i \in DOMAIN lines : lines[i] = << a, emitted[a] >>
DefsOK ==
    /\ proc_defs \in Seq(ProcNames \X Nat)
    /\ \A i \in DOMAIN proc_defs : proc_defs[i][2] <= offset
    /\ diag_errors = 0 =>
         /\ current_proc # None =>
              Len(proc_defs) > 0 /\ proc_defs[Len(proc_defs)][1] = current_proc
         /\ \A a \in DOMAIN emitted : \E i \in DOMAIN proc_defs :
              /\ proc_defs[i][1] = NameOf(emitted[a][1]) /\ proc_defs[i][2] <= a
              /\ \A j \in DOMAIN proc_defs : i < j => proc_defs[j][2] > a
DebugOK ==
    stage \in {"generate", "debug"} =>
      /\ offset \in Nat
      /\ \A a \in DOMAIN emitted : a \in Nat /\ a < offset
      /\ LinesOK /\ DefsOK

CompilerInv == SemaInv /\ StageOK /\ FilesOK /\ GenPosition /\ DebugOK
-----------------------------------------------------------------------------
(* The analysis within the compilation.                                    *)

LEMMA DiagStep ==
    ASSUME SemaInv, diag_errors \in Nat, Analyze
    PROVE  diag_errors' \in Nat
<1>1. SType /\ Position /\ VarsOK /\ GroupsOK /\ ProcsOK /\ ErrorsOK
  BY DEF SemaInv, TablesOK
<1>2. ASSUME NEW e \in Nat, NEW w \in Nat, Report(e, w) PROVE diag_errors' \in Nat
  BY <1>2 DEF Report
<1>3. \A b \in BOOLEAN : One(b) \in Nat
  BY OneFacts
<1>4. CASE CheckProgram
  <2>1. PICK b : /\ b = \E i \in {k \in DOMAIN ast.children : ast.children[k].kind = "proc"} :
                        /\ \A j \in {k \in DOMAIN ast.children : ast.children[k].kind = "proc"} : i <= j
                        /\ ast.children[i].name # Main
    OBVIOUS
  <2>2. b \in BOOLEAN
    BY <2>1, Zenon
  <2>3. ast.long \in BOOLEAN
    BY <1>1, <1>4, ProgramFacts DEF CheckProgram, SType
  <2>4. diag_errors' = diag_errors + (One(ast.long) + One(b))
    BY <1>4, <2>1 DEF CheckProgram
  <2>5. One(ast.long) \in Nat /\ One(b) \in Nat
    BY <1>3, <2>2, <2>3
  <2> QED
    BY <2>4, <2>5
<1>5. CASE DeclareVar
  <2>1. Report(0, 1) \/ Report(0, 0)
    BY <1>5 DEF DeclareVar, Declare
  <2> QED
    BY <1>2, <2>1
<1>6. CASE CollectProc
  <2>1. Report(1, 0) \/ Report(Cardinality(Repeated(ast.children[at].body)), 0)
    BY <1>6 DEF CollectProc, Collect, Child
  <2>2. at \in Children("proc") /\ ast \in Programs
    BY <1>1, <1>6, VisitingFacts DEF CollectProc, Collect
  <2>3. Cardinality(Repeated(ast.children[at].body)) \in Nat
    BY <2>2, ProgramFacts, RepeatedFacts
  <2> QED
    BY <1>2, <2>1, <2>3
<1>7. CASE ValidateVerb
  <2>1. pass = 2 /\ IsStatement(Statement)
    BY <1>1, <1>7, ValidatingFacts DEF ValidateVerb
  <2>2. VerbFaults(Statement.name, Statement.operands) \in Nat
    BY <1>1, <2>1, VerbErrors
  <2> QED
    BY <1>2, <1>7, <2>2 DEF ValidateVerb
<1>8. CASE ValidateOther
  <2>1. pass = 2 /\ IsStatement(Statement)
    BY <1>1, <1>8, ValidatingFacts DEF ValidateOther
  <2>2. AllFaults(Statement.operands) \in Nat
    BY <1>1, <2>1, GoodOperands
  <2> QED
    BY <1>2, <1>8, <2>2 DEF ValidateOther
<1>9. CASE ValidateGoto
  <2>1. pass = 2 /\ IsStatement(Statement)
    BY <1>1, <1>9, ValidatingFacts DEF ValidateGoto
  <2>2. AllFaults(Statement.operands) \in Nat
    BY <1>1, <2>1, GoodOperands
  <2>3. PICK labels, lost : /\ labels = Statement.labels
                            /\ lost = {i \in DOMAIN labels : labels[i] \notin proc_table[current_proc].labels}
    OBVIOUS
  <2>4. Cardinality(lost) \in Nat
    <3>1. Len(labels) \in Nat /\ DOMAIN labels = 1 .. Len(labels)
      BY <2>1, <2>3, SequenceFacts DEF IsStatement
    <3> QED
      BY <2>3, <3>1, PlacesCounted
  <2>5. Report(AllFaults(Statement.operands) + Cardinality(lost), 0)
    BY <1>9, <2>3 DEF ValidateGoto
  <2> QED
    BY <1>2, <2>2, <2>4, <2>5
<1>10. CASE ValidateProcCall
  <2>1. pass = 2 /\ IsStatement(Statement)
    BY <1>1, <1>10, ValidatingFacts DEF ValidateProcCall, Called
  <2>2. AllFaults(Statement.operands) \in Nat
    BY <1>1, <2>1, GoodOperands
  <2>3. PICK q, b, c : /\ q = Statement.name /\ c = (q \notin DOMAIN proc_table)
                       /\ b = (q \in DOMAIN proc_table
                                /\ proc_table[q].order < proc_table[current_proc].order + 1)
    OBVIOUS
  <2>4. b \in BOOLEAN /\ c \in BOOLEAN
    BY <2>3, Zenon
  <2>5. Report(AllFaults(Statement.operands) + One(b), One(c))
    BY <1>10, <2>3 DEF ValidateProcCall, Called
  <2>6. AllFaults(Statement.operands) + One(b) \in Nat /\ One(c) \in Nat
    BY <1>3, <2>2, <2>4
  <2> QED
    BY <1>2, <2>5, <2>6
<1>11. CASE DefineStructure \/ NextPass \/ EnterProc \/ LeaveProc \/ SkipData
  BY <1>11 DEF DefineStructure, NextPass, EnterProc, LeaveProc, SkipData
<1> QED
  BY <1>4, <1>5, <1>6, <1>7, <1>8, <1>9, <1>10, <1>11 DEF Analyze

\* The analysis ends outside of every procedure.
LEMMA AnalysisEnds ==
    ASSUME SemaInv, Analyze, pass' = 3
    PROVE  current_proc' = None
<1>1. SType /\ Position
  BY DEF SemaInv
<1>2. NextPass
  <2>1. CASE CheckProgram
    BY <2>1 DEF CheckProgram
  <2>2. CASE DeclareVar \/ DefineStructure \/ CollectProc \/ EnterProc \/ ValidateVerb \/ ValidateGoto
               \/ ValidateProcCall \/ ValidateOther \/ LeaveProc \/ SkipData
    BY <2>2 DEF DeclareVar, Declare, DefineStructure, CollectProc, Collect, EnterProc, ValidateVerb,
                ValidateGoto, ValidateProcCall, Called, ValidateOther, Validating, LeaveProc, SkipData, Visiting
  <2> QED
    BY <2>1, <2>2 DEF Analyze
<1>3. pass \in {1, 2} /\ at > Len(ast.children) /\ current_proc' = current_proc /\ ast \in Programs
  BY <1>1, <1>2 DEF NextPass, SType
<1>4. at = Len(ast.children) + 1
  BY <1>1, <1>3, ProgramFacts DEF Position
<1> QED
  BY <1>1, <1>3, <1>4 DEF Position

LEMMA SemaKept ==
    ASSUME SemaInv, StageOK, [CNext]_vars
    PROVE  SemaInv'
<1> USE DEF tables
<1>1. CASE UNCHANGED << ast, pass, tables, error_count, at, item, current_proc >>
  BY <1>1, AnalysisKept
<1>2. CASE ArgInfo \/ ArgInclude \/ ArgInput \/ ArgWrong \/ OptionsDone \/ UNCHANGED vars
  BY <1>1, <1>2 DEF ArgInfo, ArgInclude, ArgInput, ArgWrong, OptionsDone, vars, svars
<1>3. ASSUME NEW f \in Flags, ArgFlag(f) PROVE SemaInv'
  BY <1>1, <1>3 DEF ArgFlag
<1>4. ASSUME NEW n, SetUp(n) PROVE SemaInv'
  BY <1>1, <1>4 DEF SetUp
<1>5. ASSUME NEW b \in BOOLEAN, Open(b) \/ WriteSdb(b) PROVE SemaInv'
  BY <1>1, <1>5 DEF Open, WriteSdb, svars
<1>6. ASSUME NEW tree \in Programs, NEW errors, NEW warned, NEW failed, Parse(tree, errors, warned, failed)
      PROVE  SemaInv'
  BY <1>6, NotAnalyzed DEF Parse
<1>7. ASSUME NEW errors, NEW warned, Preprocess(errors, warned) PROVE SemaInv'
  BY <1>1, <1>7 DEF Preprocess
<1>8. CASE Semantics
  BY <1>8, AnalyzeStep DEF Semantics
<1>9. CASE Analyzed
  BY <1>9, AnalysisKept DEF Analyzed
<1>10. CASE NoCode \/ GenProc \/ GenStatement \/ GenReturn
  <2>1. pass = 3 /\ UNCHANGED << ast, pass, tables, error_count >>
    BY <1>10 DEF NoCode, GenProc, GenStatement, GenReturn, Generating, StageOK
  <2> QED
    BY <2>1, AnalysisKept
<1>11. ASSUME NEW outcome, WriteCod(outcome) PROVE SemaInv'
  BY <1>1, <1>11 DEF WriteCod
<1>12. CASE Cleanup
  BY <1>12, NotAnalyzed DEF Cleanup
<1>13. ASSUME NEW next, Again(next) PROVE SemaInv'
  BY <1>1, <1>13 DEF Again, svars
<1> QED
  BY <1>2, <1>3, <1>4, <1>5, <1>6, <1>7, <1>8, <1>9, <1>10, <1>11, <1>12, <1>13 DEF CNext
-----------------------------------------------------------------------------
(* The stages and the files.                                               *)

LEMMA StageStep ==
    ASSUME SemaInv, StageOK, [CNext]_vars
    PROVE  StageOK'
<1> USE DEF StageOK, Finish, Stop
<1>0. SType
  BY DEF SemaInv
<1>1. CASE ArgInfo \/ ArgInclude \/ ArgInput \/ ArgWrong \/ OptionsDone
  BY <1>1 DEF ArgInfo, ArgInclude, ArgInput, ArgWrong, OptionsDone, Reading, svars
<1>2. CASE UNCHANGED vars
  BY <1>2 DEF vars, svars
<1>3. ASSUME NEW f \in Flags, ArgFlag(f) PROVE StageOK'
  BY <1>3 DEF ArgFlag, Reading, Flags
<1>4. ASSUME NEW n, SetUp(n) PROVE StageOK'
  BY <1>4 DEF SetUp
<1>5. ASSUME NEW b \in BOOLEAN, Open(b) PROVE StageOK'
  BY <1>5 DEF Open, svars
<1>6. ASSUME NEW tree, NEW errors \in 0 .. 1, NEW warned \in 0 .. 1, NEW failed, Parse(tree, errors, warned, failed)
      PROVE  StageOK'
  <2>1. diag_errors' \in Nat
    BY <1>6 DEF Parse
  <2>2. /\ pass' = 0 /\ runs' = runs /\ options' = options /\ entry' = entry
        /\ "preprocess" \notin options /\ "input" \in options
        /\ stage' \in {"cleanup", "analyze"} /\ (stage' = "analyze" => entry # "parse")
    BY <1>6 DEF Parse
  <2> QED
    BY <2>1, <2>2
<1>7. ASSUME NEW errors \in 0 .. 1, NEW warned \in 0 .. 1, Preprocess(errors, warned) PROVE StageOK'
  <2>1. diag_errors' \in Nat
    BY <1>7 DEF Preprocess
  <2>2. /\ pass' = pass /\ runs' = runs /\ options' = options /\ entry' = entry /\ stage' = "cleanup"
        /\ stage = "parse"
    BY <1>7 DEF Preprocess
  <2> QED
    BY <2>1, <2>2
<1>8. CASE Semantics
  <2>1. /\ Analyze /\ stage = "analyze" /\ UNCHANGED << entry, options, stage, runs >>
    BY <1>8 DEF Semantics
  <2> QED
    BY <2>1, DiagStep, AnalysisEnds
<1>9. CASE Analyzed
  <2>1. error_count \in Nat
    BY <1>0, <1>9 DEF Analyzed, SType
  <2> QED
    BY <1>9, <2>1 DEF Analyzed
<1>10. CASE NoCode \/ GenProc \/ GenStatement \/ GenReturn
  <2>1. /\ stage = "generate" /\ UNCHANGED << pass, error_count, entry, options, stage, runs >>
        /\ diag_errors' = diag_errors \/ diag_errors' = diag_errors + 1
    BY <1>10 DEF NoCode, GenProc, GenStatement, GenReturn, Generating
  <2> QED
    BY <2>1
<1>11. ASSUME NEW outcome, WriteCod(outcome) PROVE StageOK'
  BY <1>11 DEF WriteCod
<1>12. ASSUME NEW b \in BOOLEAN, WriteSdb(b) PROVE StageOK'
  BY <1>12 DEF WriteSdb
<1>13. CASE Cleanup
  BY <1>13 DEF Cleanup
<1>14. ASSUME NEW next, Again(next) PROVE StageOK'
  BY <1>14 DEF Again, svars
<1> QED
  BY <1>1, <1>2, <1>3, <1>4, <1>5, <1>6, <1>7, <1>8, <1>9, <1>10, <1>11, <1>12, <1>13, <1>14 DEF CNext

LEMMA FilesStep ==
    ASSUME StageOK, FilesOK, [CNext]_vars
    PROVE  FilesOK'
<1> USE DEF FilesOK, ExitTellsOutput, Asked, Finish, Stop
<1>1. CASE ArgInfo \/ ArgInclude \/ ArgInput \/ ArgWrong \/ OptionsDone
  BY <1>1 DEF ArgInfo, ArgInclude, ArgInput, ArgWrong, OptionsDone, Reading, files
<1>2. CASE UNCHANGED vars
  BY <1>2 DEF vars, svars
<1>3. ASSUME NEW f \in Flags, ArgFlag(f) PROVE FilesOK'
  BY <1>3 DEF ArgFlag, Reading, files
<1>4. ASSUME NEW n, SetUp(n) PROVE FilesOK'
  BY <1>4 DEF SetUp, files
<1>5. ASSUME NEW b \in BOOLEAN, Open(b) PROVE FilesOK'
  BY <1>5 DEF Open, files
<1>6. ASSUME NEW tree, NEW errors, NEW warned, NEW failed, Parse(tree, errors, warned, failed)
      PROVE  FilesOK'
  BY <1>6 DEF Parse, files
<1>7. ASSUME NEW errors, NEW warned, Preprocess(errors, warned) PROVE FilesOK'
  BY <1>7 DEF Preprocess, files
<1>8. CASE Semantics
  BY <1>8 DEF Semantics, files
<1>9. CASE Analyzed
  BY <1>9 DEF Analyzed, files
<1>10. CASE NoCode \/ GenProc \/ GenStatement \/ GenReturn
  <2>1. stage = "generate" /\ UNCHANGED << entry, options, stage, cod, sdb, exit >>
    BY <1>10 DEF NoCode, GenProc, GenStatement, GenReturn, Generating, files
  <2> QED
    BY <2>1
<1>11. ASSUME NEW outcome \in {"open", "write", "close", "ok"}, WriteCod(outcome) PROVE FilesOK'
  BY <1>11 DEF WriteCod
<1>12. ASSUME NEW b \in BOOLEAN, WriteSdb(b) PROVE FilesOK'
  BY <1>12 DEF WriteSdb, StageOK
<1>13. CASE Cleanup
  BY <1>13 DEF Cleanup, files
<1>14. ASSUME NEW next \in {"compile", "parse"}, Again(next) PROVE FilesOK'
  BY <1>14 DEF Again
<1> QED
  BY <1>1, <1>2, <1>3, <1>4, <1>5, <1>6, <1>7, <1>8, <1>9, <1>10, <1>11, <1>12, <1>13, <1>14 DEF CNext
-----------------------------------------------------------------------------
(* Code generation and the tables for the debugger.                        *)

\* What the generator is looking at.
LEMMA GeneratingFacts ==
    ASSUME SemaInv, StageOK, GenPosition, NEW kind \in {"data", "proc"}, Generating(kind)
    PROVE  /\ stage = "generate" /\ pass = 3 /\ ast \in Programs /\ ast' = ast
           /\ at \in Children(kind) /\ at \in Nat /\ at + 1 \in 1 .. Len(ast.children) + 1
           /\ Child = ast.children[at] /\ item \in Nat /\ item >= 1
           /\ kind = "data" => current_proc = None
           /\ UNCHANGED << stage, options >>
<1>1. /\ stage = "generate" /\ at <= Len(ast.children) /\ Child = ast.children[at]
      /\ ast.children[at].kind = kind /\ UNCHANGED << ast, stage, options >>
  BY DEF Generating, Child
<1>2. pass = 3 /\ ast \in Programs
  BY <1>1 DEF StageOK, SemaInv, SType
<1>3. Len(ast.children) \in Nat /\ DOMAIN ast.children = 1 .. Len(ast.children)
      /\ Children("data") \cap Children("proc") = {}
  BY <1>2, ProgramFacts
<1>4. /\ at \in 1 .. Len(ast.children) + 1 /\ item \in Nat /\ item >= 1
      /\ current_proc # None => at \in Children("proc")
  BY <1>1 DEF GenPosition
<1>5. at \in Children(kind) /\ at \in Nat /\ at + 1 \in 1 .. Len(ast.children) + 1
  BY <1>1, <1>3, <1>4 DEF Children
<1> QED
  BY <1>1, <1>2, <1>3, <1>4, <1>5

LEMMA GenPositionStep ==
    ASSUME SemaInv, StageOK, GenPosition, [CNext]_vars
    PROVE  GenPosition'
<1>1. CASE stage' # "generate"
  BY <1>1 DEF GenPosition
<1>2. CASE UNCHANGED << stage, ast, at, item, current_proc >>
  <2>1. /\ \A k : Children(k)' = Children(k)
        /\ \A i : NameOf(i)' = NameOf(i)
    BY <1>2, AstKept DEF NameOf
  <2> QED
    BY <1>2, <2>1 DEF GenPosition
<1>3. CASE Analyzed
  <2>1. /\ pass = 3 /\ stage = "analyze" /\ at' = 1 /\ item' = 1 /\ ast' = ast /\ current_proc' = current_proc
    BY <1>3 DEF Analyzed
  <2>2. ast \in Programs /\ current_proc = None
    BY <2>1 DEF SemaInv, SType, StageOK
  <2>3. Len(ast'.children) \in Nat
    BY <2>1, <2>2, ProgramFacts
  <2> QED
    BY <2>1, <2>2, <2>3 DEF GenPosition
<1>4. CASE NoCode
  <2>1. Generating("data") /\ at' = at + 1 /\ item' = item /\ current_proc' = current_proc
    BY <1>4 DEF NoCode
  <2> QED
    BY <2>1, GeneratingFacts DEF GenPosition
<1>5. CASE GenProc
  <2>1. Generating("proc") /\ current_proc' = Child.name /\ at' = at /\ item' = item
    BY <1>5 DEF GenProc
  <2>2. /\ at \in Children("proc") /\ current_proc' = NameOf(at) /\ ast' = ast /\ item \in Nat /\ item >= 1
        /\ stage = "generate"
    BY <2>1, GeneratingFacts DEF NameOf
  <2>3. Children("proc")' = Children("proc") /\ NameOf(at)' = NameOf(at)
    BY <2>1, <2>2, AstKept DEF NameOf
  <2> QED
    BY <2>1, <2>2, <2>3 DEF GenPosition
<1>6. CASE GenStatement
  <2>1. Generating("proc") /\ item' = item + 1 /\ at' = at /\ current_proc' = current_proc
    BY <1>6 DEF GenStatement
  <2>2. ast' = ast /\ item \in Nat /\ item >= 1 /\ stage = "generate"
    BY <2>1, GeneratingFacts
  <2>3. Children("proc")' = Children("proc") /\ NameOf(at)' = NameOf(at)
    BY <2>1, <2>2, AstKept DEF NameOf
  <2> QED
    BY <2>1, <2>2, <2>3 DEF GenPosition
<1>7. CASE GenReturn
  <2>1. Generating("proc") /\ item' = 1 /\ at' = at + 1 /\ current_proc' = None
    BY <1>7 DEF GenReturn
  <2>2. ast' = ast /\ at + 1 \in 1 .. Len(ast.children) + 1
    BY <2>1, GeneratingFacts
  <2> QED
    BY <2>1, <2>2 DEF GenPosition
<1> USE DEF svars, Finish, Stop
<1>8. CASE ArgInfo \/ ArgInclude \/ ArgInput \/ ArgWrong \/ OptionsDone \/ UNCHANGED vars
  BY <1>1, <1>2, <1>8 DEF ArgInfo, ArgInclude, ArgInput, ArgWrong, OptionsDone, Reading, vars
<1>9. ASSUME NEW f \in Flags, ArgFlag(f) PROVE GenPosition'
  BY <1>2, <1>9 DEF ArgFlag
<1>10. ASSUME NEW n, SetUp(n) PROVE GenPosition'
  BY <1>1, <1>10 DEF SetUp
<1>11. ASSUME NEW b \in BOOLEAN, Open(b) \/ WriteSdb(b) PROVE GenPosition'
  BY <1>1, <1>11 DEF Open, WriteSdb
<1>12. ASSUME NEW tree, NEW errors, NEW warned, NEW failed, Parse(tree, errors, warned, failed)
       PROVE  GenPosition'
  BY <1>1, <1>12 DEF Parse
<1>13. ASSUME NEW errors, NEW warned, Preprocess(errors, warned) PROVE GenPosition'
  BY <1>1, <1>13 DEF Preprocess
<1>14. CASE Semantics \/ Cleanup
  BY <1>1, <1>14 DEF Semantics, Cleanup
<1>15. ASSUME NEW outcome, WriteCod(outcome) PROVE GenPosition'
  BY <1>1, <1>15 DEF WriteCod
<1>16. ASSUME NEW next, Again(next) PROVE GenPosition'
  BY <1>1, <1>16 DEF Again
<1> QED
  BY <1>3, <1>4, <1>5, <1>6, <1>7, <1>8, <1>9, <1>10, <1>11, <1>12, <1>13, <1>14, <1>15, <1>16 DEF CNext

\* After a mark the table has the statement, still has those before, and no
\* address twice.
LEMMA MarkFacts ==
    ASSUME lines \in Seq(Entries), offset \in Nat, NEW r \in Nat \X Nat, "sdb" \in options,
           Increasing(lines), \A i \in DOMAIN lines : lines[i][1] <= offset,
           NEW marked, marked = Mark(offset, r)
    PROVE  /\ marked \in Seq(Entries) /\ Increasing(marked)
           /\ \A i \in DOMAIN marked : marked[i][1] <= offset
           /\ \E i \in DOMAIN marked : marked[i] = << offset, r >>
           /\ \A i \in DOMAIN lines : lines[i][1] < offset => i \in DOMAIN marked /\ marked[i] = lines[i]
<1>1. PICK n, new : n = Len(lines) /\ new = << offset, r >>
  OBVIOUS
<1>2. /\ n \in Nat /\ DOMAIN lines = 1 .. n /\ new \in Entries /\ new[1] = offset
      /\ \A i \in DOMAIN lines : lines[i] \in Entries /\ lines[i][1] \in Nat
      /\ (lines # << >> <=> n # 0)
  BY <1>1 DEF Entries
<1>3. CASE n # 0 /\ lines[n][1] = offset
  <2>1. marked = [lines EXCEPT ![n] = new]
    BY <1>1, <1>2, <1>3 DEF Mark
  <2>2. /\ marked \in Seq(Entries) /\ DOMAIN marked = 1 .. n /\ marked[n] = new
        /\ \A i \in DOMAIN lines : i # n => marked[i] = lines[i]
    BY <1>2, <1>3, <2>1
  <2>3. \A i \in DOMAIN lines : marked[i][1] = lines[i][1]
    BY <1>2, <1>3, <2>2
  <2>4. Increasing(marked) /\ \A i \in DOMAIN marked : marked[i][1] <= offset
    BY <1>2, <2>2, <2>3, SMTT(30) DEF Increasing
  <2>5. n \in DOMAIN marked
    BY <1>2, <1>3, <2>2
  <2>6. \A i \in DOMAIN lines : lines[i][1] < offset => i # n
    BY <1>2, <1>3
  <2> QED
    BY <1>1, <1>2, <2>2, <2>4, <2>5, <2>6
<1>4. CASE ~ (n # 0 /\ lines[n][1] = offset)
  <2>1. marked = Append(lines, new)
    BY <1>1, <1>2, <1>4 DEF Mark
  <2>2. /\ marked \in Seq(Entries) /\ DOMAIN marked = 1 .. n + 1 /\ marked[n + 1] = new
        /\ \A i \in DOMAIN lines : marked[i] = lines[i]
    BY <1>1, <1>2, <2>1
  <2>3. \A i \in DOMAIN lines : lines[i][1] < offset
    <3>1. ASSUME NEW i \in DOMAIN lines PROVE lines[i][1] < offset
      <4>1. n # 0 /\ n \in DOMAIN lines /\ lines[n][1] # offset /\ lines[n][1] <= offset
        BY <1>2, <1>4
      <4>2. lines[i][1] <= lines[n][1]
        BY <1>2 DEF Increasing
      <4> QED
        BY <1>2, <4>1, <4>2
    <3> QED
      BY <3>1
  <2>4. Increasing(marked)
    <3>1. ASSUME NEW i \in 1 .. n + 1, NEW j \in 1 .. n + 1, i < j PROVE marked[i][1] < marked[j][1]
      <4>1. i \in DOMAIN lines /\ marked[i] = lines[i]
        BY <1>2, <2>2, <3>1, SMTT(20)
      <4>2. CASE j = n + 1
        BY <1>2, <2>2, <2>3, <4>1, <4>2
      <4>3. CASE j # n + 1
        <5>1. j \in DOMAIN lines /\ marked[j] = lines[j]
          BY <1>2, <2>2, <4>3, SMTT(30)
        <5> QED
          BY <3>1, <4>1, <5>1 DEF Increasing
      <4> QED
        BY <4>2, <4>3
    <3> QED
      BY <2>2, <3>1 DEF Increasing
  <2>5. \A i \in DOMAIN marked : marked[i][1] <= offset
    <3>1. \A i \in 1 .. n + 1 : i = n + 1 \/ i \in 1 .. n
      BY <1>2
    <3>2. offset <= offset
      OBVIOUS
    <3> QED
      BY <1>2, <2>2, <3>1, <3>2
  <2>6. n + 1 \in DOMAIN marked
    BY <1>2, <2>2
  <2> QED
    BY <1>1, <1>2, <2>2, <2>4, <2>5, <2>6, SMTT(30)
<1> QED
  BY <1>3, <1>4

\* A step that leaves the tables alone and may report another error.
LEMMA DebugKept ==
    ASSUME DebugOK, stage \in {"generate", "debug"}, UNCHANGED << ast, options, current_proc, debug >>,
           diag_errors' = 0 => diag_errors = 0
    PROVE  DebugOK'
<1>1. ProcNames' = ProcNames /\ \A i : NameOf(i)' = NameOf(i)
  BY AstKept DEF ProcNames, NameOf
<1>2. offset \in Nat /\ (\A a \in DOMAIN emitted : a \in Nat /\ a < offset) /\ LinesOK /\ DefsOK
  BY DEF DebugOK
<1>3. LinesOK'
  BY <1>2 DEF LinesOK, Increasing, debug
<1>4. DefsOK'
  BY <1>1, <1>2 DEF DefsOK, debug
<1> QED
  BY <1>2, <1>3, <1>4 DEF DebugOK, debug

LEMMA GenProcDebug ==
    ASSUME SemaInv, StageOK, GenPosition, DebugOK, GenProc
    PROVE  DebugOK'
<1>1. /\ Generating("proc") /\ current_proc = None /\ current_proc' = Child.name
      /\ UNCHANGED << ast, options, offset, lines, emitted >>
  BY DEF GenProc, Generating
<1>2. /\ stage = "generate" /\ ast \in Programs /\ at \in Children("proc") /\ current_proc' = NameOf(at)
      /\ diag_errors \in Nat /\ Child.name = NameOf(at)
  BY <1>1, GeneratingFacts DEF NameOf, StageOK
<1>3. ProcNames' = ProcNames /\ \A i : NameOf(i)' = NameOf(i)
  BY <1>1, AstKept DEF ProcNames, NameOf
<1>4. /\ offset \in Nat /\ (\A a \in DOMAIN emitted : a \in Nat /\ a < offset) /\ LinesOK /\ DefsOK
  BY <1>2 DEF DebugOK
<1>5. LinesOK'
  BY <1>1, <1>4 DEF LinesOK, Increasing
<1>6. CASE proc_defs' = proc_defs /\ diag_errors' = diag_errors + 1
  BY <1>1, <1>2, <1>3, <1>4, <1>5, <1>6 DEF DefsOK, DebugOK
<1>7. CASE proc_defs' = Append(proc_defs, << Child.name, offset >>) /\ diag_errors' = diag_errors
  <2>1. PICK n, new : n = Len(proc_defs) /\ new = << NameOf(at), offset >>
    OBVIOUS
  <2>2. /\ n \in Nat /\ DOMAIN proc_defs = 1 .. n /\ proc_defs \in Seq(ProcNames \X Nat)
        /\ new \in ProcNames \X Nat /\ new[1] = NameOf(at) /\ new[2] = offset
    BY <1>2, <1>4, <2>1 DEF DefsOK, ProcNames, NameOf
  <2>3. /\ proc_defs' \in Seq(ProcNames \X Nat) /\ Len(proc_defs') = n + 1 /\ DOMAIN proc_defs' = 1 .. n + 1
        /\ proc_defs'[n + 1] = new /\ \A i \in 1 .. n : proc_defs'[i] = proc_defs[i]
    BY <1>2, <1>7, <2>1, <2>2
  <2>4. ASSUME NEW i \in 1 .. n + 1 PROVE proc_defs'[i][2] <= offset
    <3>1. i = n + 1 \/ i \in 1 .. n
      BY <2>2
    <3>2. offset <= offset
      BY <1>4
    <3> QED
      BY <1>4, <2>2, <2>3, <3>1, <3>2 DEF DefsOK
  <2>5. ASSUME diag_errors' = 0, NEW a \in DOMAIN emitted
        PROVE  \E i \in 1 .. n + 1 :
                 /\ proc_defs'[i][1] = NameOf(emitted[a][1]) /\ proc_defs'[i][2] <= a
                 /\ \A j \in 1 .. n + 1 : i < j => proc_defs'[j][2] > a
    <3>1. PICK i \in 1 .. n : /\ proc_defs[i][1] = NameOf(emitted[a][1]) /\ proc_defs[i][2] <= a
                              /\ \A j \in 1 .. n : i < j => proc_defs[j][2] > a
      BY <1>4, <1>7, <2>2, <2>5 DEF DefsOK
    <3>2. a < offset /\ a \in Nat
      BY <1>4
    <3>3. ASSUME NEW j \in 1 .. n + 1, i < j PROVE proc_defs'[j][2] > a
      <4>1. j = n + 1 \/ j \in 1 .. n
        BY <2>2
      <4> QED
        BY <1>4, <2>2, <2>3, <3>1, <3>2, <3>3, <4>1
    <3>4. i \in 1 .. n + 1
      BY <2>2
    <3> QED
      BY <2>3, <3>1, <3>3, <3>4
  <2>6. DefsOK'
    <3>1. Len(proc_defs') > 0 /\ proc_defs'[Len(proc_defs')][1] = current_proc'
      BY <1>2, <2>2, <2>3
    <3> QED
      BY <1>1, <1>3, <2>3, <2>4, <2>5, <3>1 DEF DefsOK
  <2> QED
    BY <1>1, <1>4, <1>5, <2>6 DEF DebugOK
<1> QED
  BY <1>6, <1>7 DEF GenProc

LEMMA GenStatementDebug ==
    ASSUME SemaInv, StageOK, GenPosition, DebugOK, GenStatement
    PROVE  DebugOK'
<1>1. PICK s, b, r : s = Statement /\ b = s.bytes /\ r = << at, item >>
  OBVIOUS
<1>2. /\ Generating("proc") /\ current_proc # None /\ item <= Len(ast.children[at].body)
      /\ s = ast.children[at].body[item]
      /\ lines' = IF s.kind = "end" THEN lines ELSE Mark(offset, r)
      /\ emitted' = IF s.kind = "end" \/ b = 0 THEN emitted ELSE Put(emitted, offset, r)
      /\ offset' = offset + b
      /\ UNCHANGED << ast, options, current_proc, diag_errors, proc_defs >>
  BY <1>1 DEF GenStatement, Generating, Child, Statement
<1>3. /\ stage = "generate" /\ ast \in Programs /\ at \in Children("proc") /\ current_proc = NameOf(at)
      /\ at \in Nat /\ item \in Nat /\ item >= 1
  BY <1>2, GeneratingFacts DEF GenPosition
<1>4. b \in Nat
  <2>1. item \in DOMAIN ast.children[at].body
    BY <1>2, <1>3, ProgramFacts
  <2>2. IsStatement(s)
    BY <1>2, <1>3, <2>1, ProgramFacts
  <2> QED
    BY <1>1, <2>2 DEF IsStatement
<1>5. ProcNames' = ProcNames /\ \A i : NameOf(i)' = NameOf(i)
  BY <1>2, AstKept DEF ProcNames, NameOf
<1>6. /\ offset \in Nat /\ (\A a \in DOMAIN emitted : a \in Nat /\ a < offset) /\ LinesOK /\ DefsOK
  BY <1>3 DEF DebugOK
<1>7. offset' \in Nat /\ offset <= offset'
  BY <1>2, <1>4, <1>6
<1>8. \/ emitted' = emitted
      \/ /\ DOMAIN emitted' = DOMAIN emitted \cup {offset} /\ emitted'[offset] = r /\ offset < offset'
         /\ \A a \in DOMAIN emitted : emitted'[a] = emitted[a]
         /\ s.kind # "end"
  <2>1. CASE s.kind = "end" \/ b = 0
    BY <1>2, <2>1
  <2>2. CASE ~ (s.kind = "end" \/ b = 0)
    <3>1. emitted' = Put(emitted, offset, r) /\ offset < offset'
      BY <1>2, <1>4, <1>6, <2>2
    <3> QED
      BY <1>6, <2>2, <3>1 DEF Put
  <2> QED
    BY <2>1, <2>2
<1>9. \A a \in DOMAIN emitted' : a \in Nat /\ a < offset'
  BY <1>6, <1>7, <1>8
<1>10. LinesOK'
  <2>1. CASE "sdb" \notin options
    <3>1. lines' = lines
      BY <1>2, <2>1 DEF Mark
    <3> QED
      BY <1>2, <1>6, <1>7, <2>1, <3>1, SMTT(30) DEF LinesOK, Increasing, Entries
  <2>2. CASE "sdb" \in options /\ s.kind = "end"
    <3>1. lines' = lines /\ emitted' = emitted
      BY <1>2, <2>2
    <3>2. \A i \in DOMAIN lines : lines[i][1] <= offset'
      <4>1. \A i \in DOMAIN lines : lines[i][1] <= offset /\ lines[i][1] \in Nat
        BY <1>6 DEF LinesOK, Entries
      <4> QED
        BY <1>6, <1>7, <4>1
    <3> QED
      BY <1>2, <1>6, <3>1, <3>2 DEF LinesOK, Increasing
  <2>3. CASE "sdb" \in options /\ s.kind # "end"
    <3>1. lines' = Mark(offset, r) /\ r \in Nat \X Nat
      BY <1>1, <1>2, <1>3, <2>3
    <3>2. lines \in Seq(Entries) /\ Increasing(lines) /\ \A i \in DOMAIN lines : lines[i][1] <= offset
      BY <1>6 DEF LinesOK
    <3>3. /\ lines' \in Seq(Entries) /\ Increasing(lines')
          /\ \A i \in DOMAIN lines' : lines'[i][1] <= offset
          /\ \E i \in DOMAIN lines' : lines'[i] = << offset, r >>
          /\ \A i \in DOMAIN lines : lines[i][1] < offset => i \in DOMAIN lines' /\ lines'[i] = lines[i]
      BY <1>6, <2>3, <3>1, <3>2, MarkFacts
    <3>4. \A i \in DOMAIN lines' : lines'[i][1] <= offset'
      <4>1. \A i \in DOMAIN lines' : lines'[i][1] <= offset /\ lines'[i][1] \in Nat
        BY <3>3 DEF Entries
      <4> QED
        BY <1>6, <1>7, <4>1
    <3>5. ASSUME NEW a \in DOMAIN emitted'
          PROVE  \E i \in DOMAIN lines' : lines'[i] = << a, emitted'[a] >>
      <4>1. CASE a \in DOMAIN emitted /\ emitted'[a] = emitted[a]
        <5>1. PICK i \in DOMAIN lines : lines[i] = << a, emitted[a] >>
          BY <1>6, <2>3, <4>1 DEF LinesOK
        <5>2. lines[i][1] < offset
          BY <1>6, <4>1, <5>1
        <5> QED
          BY <3>3, <4>1, <5>1, <5>2
      <4>2. CASE a = offset /\ emitted'[a] = r
        BY <3>3, <4>2
      <4> QED
        BY <1>8, <4>1, <4>2
    <3> QED
      BY <3>3, <3>4, <3>5 DEF LinesOK
  <2> QED
    BY <2>1, <2>2, <2>3
<1>11. DefsOK'
  <2>1. PICK n : n = Len(proc_defs)
    OBVIOUS
  <2>2. /\ n \in Nat /\ DOMAIN proc_defs = 1 .. n /\ proc_defs \in Seq(ProcNames \X Nat)
        /\ \A i \in 1 .. n : proc_defs[i][2] \in Nat /\ proc_defs[i][2] <= offset
    BY <1>6, <2>1 DEF DefsOK
  <2>3. \A i \in 1 .. n : proc_defs[i][2] <= offset'
    BY <1>6, <1>7, <2>2
  <2>4. ASSUME diag_errors = 0, NEW a \in DOMAIN emitted'
        PROVE  \E i \in DOMAIN proc_defs :
                 /\ proc_defs[i][1] = NameOf(emitted'[a][1]) /\ proc_defs[i][2] <= a
                 /\ \A j \in DOMAIN proc_defs : i < j => proc_defs[j][2] > a
    <3>1. CASE a \in DOMAIN emitted /\ emitted'[a] = emitted[a]
      BY <1>6, <2>4, <3>1 DEF DefsOK
    <3>2. CASE a = offset /\ emitted'[a] = r
      <4>1. n > 0 /\ proc_defs[n][1] = current_proc
        BY <1>2, <1>6, <2>1, <2>4 DEF DefsOK
      <4>2. NameOf(emitted'[a][1]) = current_proc
        BY <1>1, <1>3, <3>2
      <4>3. n \in DOMAIN proc_defs /\ \A j \in DOMAIN proc_defs : ~ (n < j)
        BY <2>2, <4>1
      <4> QED
        BY <2>2, <3>2, <4>1, <4>2, <4>3
    <3> QED
      BY <1>8, <3>1, <3>2
  <2> QED
    BY <1>2, <1>5, <1>6, <2>2, <2>3, <2>4 DEF DefsOK
<1> QED
  BY <1>7, <1>9, <1>10, <1>11 DEF DebugOK

LEMMA GenReturnDebug ==
    ASSUME SemaInv, StageOK, GenPosition, DebugOK, GenReturn
    PROVE  DebugOK'
<1>1. /\ Generating("proc") /\ offset' = offset + 1 /\ current_proc' = None
      /\ UNCHANGED << ast, options, diag_errors, lines, proc_defs, emitted >>
  BY DEF GenReturn, Generating
<1>2. stage = "generate"
  BY <1>1, GeneratingFacts
<1>3. ProcNames' = ProcNames /\ \A i : NameOf(i)' = NameOf(i)
  BY <1>1, AstKept DEF ProcNames, NameOf
<1>4. /\ offset \in Nat /\ (\A a \in DOMAIN emitted : a \in Nat /\ a < offset) /\ LinesOK /\ DefsOK
  BY <1>2 DEF DebugOK
<1>5. \A k \in Nat : (k <= offset => k <= offset') /\ (k < offset => k < offset')
  BY <1>1, <1>4
<1>6. \A i \in DOMAIN lines : lines[i][1] \in Nat
  BY <1>4 DEF LinesOK, Entries
<1>7. \A i \in DOMAIN proc_defs : proc_defs[i][2] \in Nat
  BY <1>4 DEF DefsOK
<1>8. LinesOK'
  BY <1>1, <1>4, <1>5, <1>6 DEF LinesOK, Increasing
<1>9. DefsOK'
  BY <1>1, <1>3, <1>4, <1>5, <1>7 DEF DefsOK
<1>10. offset' \in Nat /\ \A a \in DOMAIN emitted' : a \in Nat /\ a < offset'
  BY <1>1, <1>4, <1>5
<1> QED
  BY <1>8, <1>9, <1>10 DEF DebugOK

LEMMA DebugStep ==
    ASSUME SemaInv, StageOK, GenPosition, DebugOK, [CNext]_vars
    PROVE  DebugOK'
<1> USE DEF svars, Finish, Stop
<1>1. CASE stage' \notin {"generate", "debug"}
  BY <1>1 DEF DebugOK
<1>2. CASE Analyzed
  <2>1. offset' = 0 /\ lines' = << >> /\ proc_defs' = << >> /\ emitted' = Empty
        /\ pass = 3 /\ stage = "analyze" /\ current_proc' = current_proc
    BY <1>2 DEF Analyzed
  <2>2. DOMAIN emitted' = {} /\ DOMAIN lines' = {} /\ DOMAIN proc_defs' = {} /\ current_proc' = None
    BY <2>1 DEF Empty, StageOK
  <2>3. LinesOK'
    BY <2>1, <2>2 DEF LinesOK, Increasing
  <2>4. DefsOK'
    BY <2>1, <2>2 DEF DefsOK
  <2> QED
    BY <2>1, <2>2, <2>3, <2>4 DEF DebugOK
<1>3. CASE NoCode
  <2>1. stage = "generate" /\ UNCHANGED << ast, options, current_proc, debug, diag_errors >>
    BY <1>3 DEF NoCode, Generating
  <2> QED
    BY <2>1, DebugKept
<1>4. ASSUME NEW outcome, WriteCod(outcome) PROVE DebugOK'
  <2>1. stage = "generate" /\ UNCHANGED << ast, options, current_proc, debug >>
    BY <1>4 DEF WriteCod
  <2>2. diag_errors' = 0 => diag_errors = 0
    BY <1>4 DEF WriteCod, StageOK
  <2> QED
    BY <2>1, <2>2, DebugKept
<1>5. CASE UNCHANGED vars
  <2>1. UNCHANGED << stage, ast, options, current_proc, debug, diag_errors >>
    BY <1>5 DEF vars, debug
  <2> QED
    BY <1>1, <2>1, DebugKept
<1>6. CASE ArgInfo \/ ArgInclude \/ ArgInput \/ ArgWrong \/ OptionsDone
  BY <1>1, <1>6 DEF ArgInfo, ArgInclude, ArgInput, ArgWrong, OptionsDone, Reading
<1>7. ASSUME NEW f, ArgFlag(f) PROVE DebugOK'
  BY <1>1, <1>7 DEF ArgFlag, Reading
<1>8. ASSUME NEW n, SetUp(n) PROVE DebugOK'
  BY <1>1, <1>8 DEF SetUp
<1>9. ASSUME NEW b, Open(b) \/ WriteSdb(b) PROVE DebugOK'
  BY <1>1, <1>9 DEF Open, WriteSdb
<1>10. ASSUME NEW tree, NEW errors, NEW warned, NEW failed, Parse(tree, errors, warned, failed)
       PROVE  DebugOK'
  BY <1>1, <1>10 DEF Parse
<1>11. ASSUME NEW errors, NEW warned, Preprocess(errors, warned) PROVE DebugOK'
  BY <1>1, <1>11 DEF Preprocess
<1>12. CASE Semantics \/ Cleanup
  BY <1>1, <1>12 DEF Semantics, Cleanup
<1>13. ASSUME NEW next, Again(next) PROVE DebugOK'
  BY <1>1, <1>13 DEF Again
<1> QED
  BY <1>2, <1>3, <1>4, <1>5, <1>6, <1>7, <1>8, <1>9, <1>10, <1>11, <1>12, <1>13,
     GenProcDebug, GenStatementDebug, GenReturnDebug DEF CNext
-----------------------------------------------------------------------------
(* The theorems.                                                           *)

LEMMA CompilerInit == ASSUME CInit PROVE CompilerInv
<1>1. SemaInv
  BY DEF CInit, Init, SemaInv, SType, Position, TablesOK, VarsOK, GroupsOK, SlotsOK, SectionOK, GroupSlotsOK,
         ProcsOK, ErrorsOK
<1>2. StageOK
  BY DEF CInit, Init, StageOK
<1>3. FilesOK /\ GenPosition /\ DebugOK
  BY DEF CInit, FilesOK, ExitTellsOutput, GenPosition, DebugOK
<1> QED
  BY <1>1, <1>2, <1>3 DEF CompilerInv

LEMMA CompilerStep == ASSUME CompilerInv, [CNext]_vars PROVE CompilerInv'
  BY SemaKept, StageStep, FilesStep, GenPositionStep, DebugStep DEF CompilerInv

\* What the compiler keeps true, whatever it compiles and how often.
THEOREM CompilerInvariant == CSpec => []CompilerInv
<1>1. CInit => CompilerInv
  BY CompilerInit
<1>2. CompilerInv /\ [CNext]_vars => CompilerInv'
  BY CompilerStep
<1> QED
  BY <1>1, <1>2, PTL DEF CSpec

\* The slots of the variables neither overlap nor leave a gap, and a group of
\* new variables has just the slots of its members, in every program.
\* (symtab_define_var, collect_declarations)
THEOREM SlotsArePartitioned == CSpec => []SlotsPartitioned
<1>1. CompilerInv => SlotsPartitioned
  BY InvPartitioned DEF CompilerInv
<1> QED
  BY <1>1, CompilerInvariant, PTL

\* The two passes accept just the well-formed programs: nothing is refused
\* without a fault, and no fault is passed over.  (sema_analyze)
THEOREM AcceptsJustWellFormed == CSpec => []AcceptsWellFormed
<1>1. CompilerInv => AcceptsWellFormed
  BY InvAccepts DEF CompilerInv
<1> QED
  BY <1>1, CompilerInvariant, PTL

\* What main exits with tells which files it wrote.  (main, codegen_generate)
THEOREM ExitIsTruthful == CSpec => []ExitTellsOutput
<1>1. CompilerInv => ExitTellsOutput
  BY DEF CompilerInv, FilesOK, ExitTellsOutput
<1> QED
  BY <1>1, CompilerInvariant, PTL

\* An address where code begins is looked up to its statement and procedure.
\* (sdb_mark, sdb_add_proc)
THEOREM LineTableIsExact == CSpec => []LineTableExact
<1>1. CompilerInv => LineTableExact
  <2> SUFFICES ASSUME CompilerInv, stage = "debug", NEW a \in DOMAIN emitted,
                      NEW line, line = LastNotAfter(lines, a, LAMBDA e : e[1]),
                      NEW def, def = LastNotAfter(proc_defs, a, LAMBDA e : e[2])
               PROVE  /\ lines[line] = << a, emitted[a] >>
                      /\ \A i \in 1 .. line - 1 : lines[i][1] < lines[i + 1][1]
                      /\ diag_errors = 0 => proc_defs[def][1] = NameOf(emitted[a][1])
    BY DEF LineTableExact, NameOf
  <2>1. LinesOK /\ DefsOK /\ a \in Nat /\ a < offset /\ "sdb" \in options
    BY DEF CompilerInv, DebugOK, StageOK
  <2>2. PICK i \in DOMAIN lines : lines[i] = << a, emitted[a] >>
    BY <2>1 DEF LinesOK
  <2>3. /\ Len(lines) \in Nat /\ DOMAIN lines = 1 .. Len(lines)
        /\ \A j \in DOMAIN lines : lines[j][1] \in Nat
    BY <2>1 DEF LinesOK, Entries
  <2>4. lines[i][1] = a /\ \A j \in DOMAIN lines : i < j => lines[j][1] > a
    BY <2>1, <2>2, <2>3 DEF LinesOK, Increasing
  <2>5. line = i
    BY <2>1, <2>3, <2>4, LastFound
  <2>6. \A j \in 1 .. line - 1 : lines[j][1] < lines[j + 1][1]
    BY <2>1, <2>2, <2>3, <2>5 DEF LinesOK, Increasing
  <2>7. ASSUME diag_errors = 0 PROVE proc_defs[def][1] = NameOf(emitted[a][1])
    <3>1. PICK k \in DOMAIN proc_defs :
             /\ proc_defs[k][1] = NameOf(emitted[a][1]) /\ proc_defs[k][2] <= a
             /\ \A j \in DOMAIN proc_defs : k < j => proc_defs[j][2] > a
      BY <2>1, <2>7 DEF DefsOK
    <3>2. /\ Len(proc_defs) \in Nat /\ DOMAIN proc_defs = 1 .. Len(proc_defs)
          /\ \A j \in DOMAIN proc_defs : proc_defs[j][2] \in Nat
      BY <2>1 DEF DefsOK
    <3>3. def = k
      BY <2>1, <3>1, <3>2, LastFoundSecond
    <3> QED
      BY <3>1, <3>3
  <2> QED
    BY <2>2, <2>5, <2>6, <2>7
<1> QED
  BY <1>1, CompilerInvariant, PTL

\* A .cod is touched only for a well-formed program that is to be compiled.
\* (compile_pipeline, codegen_generate)
THEOREM CodIsOfWellFormed == CSpec => CodOnlyOfWellFormed
<1>1. ASSUME CompilerInv, [CNext]_vars
      PROVE  [cod' # cod /\ runs' = runs =>
                WellFormed /\ entry # "parse" /\ {"check", "preprocess"} \cap options = {}]_vars
  <2> SUFFICES ASSUME cod' # cod, runs' = runs
               PROVE  WellFormed /\ entry # "parse" /\ {"check", "preprocess"} \cap options = {}
    OBVIOUS
  <2>1. CASE \E outcome \in {"open", "write", "close", "ok"} : WriteCod(outcome)
    <3>1. stage = "generate"
      BY <2>1 DEF WriteCod
    <3>2. pass = 3 /\ error_count = 0 /\ entry # "parse" /\ {"check", "preprocess"} \cap options = {}
      BY <1>1, <3>1 DEF CompilerInv, StageOK
    <3>3. WellFormed
      BY <1>1, <3>2, InvAccepts DEF CompilerInv, AcceptsWellFormed
    <3> QED
      BY <3>2, <3>3
  <2>2. CASE \E next \in {"compile", "parse"} : Again(next)
    <3>1. runs' = runs + 1 /\ runs \in Nat
      BY <1>1, <2>2 DEF Again, CompilerInv, StageOK
    <3> QED
      BY <3>1
  <2>3. CASE UNCHANGED vars
    BY <2>3 DEF vars, files
  <2>4. CASE \/ ArgInfo \/ ArgInclude \/ ArgInput \/ ArgWrong \/ OptionsDone
             \/ \E f \in Flags : ArgFlag(f)
             \/ \E n \in 0 .. MAX_INCLUDE_PATHS + 1 : SetUp(n)
             \/ \E opened \in BOOLEAN : Open(opened) \/ WriteSdb(opened)
             \/ \E tree \in Programs, errors, warned \in 0 .. 1, failed \in BOOLEAN :
                  Parse(tree, errors, warned, failed)
             \/ \E errors, warned \in 0 .. 1 : Preprocess(errors, warned)
    BY <2>4 DEF ArgInfo, ArgInclude, ArgInput, ArgWrong, OptionsDone, ArgFlag, SetUp, Open, WriteSdb, Parse,
                Preprocess, files
  <2>5. CASE Semantics \/ Analyzed \/ NoCode \/ GenProc \/ GenStatement \/ GenReturn \/ Cleanup
    BY <2>5 DEF Semantics, Analyzed, NoCode, GenProc, GenStatement, GenReturn, Generating, Cleanup, files
  <2> QED
    BY <1>1, <2>1, <2>2, <2>3, <2>4, <2>5 DEF CNext
<1> QED
  BY <1>1, CompilerInvariant, PTL DEF CSpec, CodOnlyOfWellFormed
=============================================================================
