---------------------------- MODULE DataSection ----------------------------
(***************************************************************************)
(* How the decompiler gives the variables of a program back their          *)
(* declarations.  Bytecode has slots and no names: symbol_table_scan       *)
(* (shared/bytecode/symtab_analysis.c) goes through the instructions and   *)
(* guesses which slots are arrays and which runs of slots are groups,      *)
(* emit_data_section (decompiler/baseline.c) writes a DATA section by the  *)
(* guesses, emit_verb the statements, and the compiler hands out slots     *)
(* again, in the order of the declarations.                                *)
(*                                                                         *)
(* An operand is [kind, value, index]: an RDA slot, an I register or a     *)
(* literal; index is << >> or the operand in parentheses.  An instruction  *)
(* is [verb, operands, count], count being its var_count.                  *)
(***************************************************************************)
EXTENDS Integers, Sequences, FiniteSets, SequencesExt, FiniteSetsExt

CONSTANTS
    MAX_RDA_SLOTS,      \* slots of a program
    MaxRanges,          \* entries of SymbolTable.ranges
    Data,               \* DATA sections a program may have
    Statements(_),      \* its statements, by the DATA section
    MaxLength           \* bound: statements of a program

ASSUME SlotsAssumption == MAX_RDA_SLOTS \in Nat \ {0} /\ MaxRanges \in Nat /\ MaxLength \in Nat

VARIABLES
    phase,              \* "scan", "emit" or "done"
    source,             \* the program the code was made of
    code,               \* its instructions
    scanned,            \* how many of them have been looked at
    table,              \* SymbolTable: slots, max_slot, ireg_max, ranges
    groups,             \* the DATA section: [start, items], an item being [slot, dim]
    next                \* the slot emit_data_section has come to

dvars == << phase, source, code, scanned, table, groups, next >>

Slots == 0 .. MAX_RDA_SLOTS - 1
IsRda(op) == op.kind = "rda"
IsPlainRda(op) == IsRda(op) /\ op.index = << >>
Highest(S) == IF S = {} THEN 0 ELSE CHOOSE n \in S : \A m \in S : m <= n

-----------------------------------------------------------------------------
(* symbol_table_scan: what one instruction tells.                          *)

Unknown ==
    [used |-> FALSE, is_array |-> FALSE, direct_access |-> FALSE, max_index |-> 0,
     bounds_certain |-> TRUE, index_ireg |-> 0]

\* One I register that indexes the slot, or -1 for several.
SameReg(old, reg) == IF old \in {0, reg} THEN reg ELSE -1
IndexedBy(slot, idx) ==
    IF idx.kind = "lit" THEN [slot EXCEPT !.max_index = Highest({@, idx.value})]
    ELSE [slot EXCEPT !.bounds_certain = FALSE,
                      !.index_ireg = IF idx.kind = "I" THEN SameReg(@, idx.value) ELSE @]
Accessed(slot, op) ==
    IF op.index = << >> THEN [slot EXCEPT !.used = TRUE, !.direct_access = TRUE]
    ELSE [IndexedBy(slot, op.index[1]) EXCEPT !.used = TRUE, !.is_array = TRUE]

\* A subscript has no subscript of its own.
Touch(slots, op) == IF IsRda(op) THEN [slots EXCEPT ![op.value] = Accessed(@, op)] ELSE slots
scan_operand(slots, op) ==
    IF op.index = << >> THEN Touch(slots, op) ELSE Touch(Touch(slots, op), op.index[1])
scan_operands(slots, operands) ==
    LET after[i \in 0 .. Len(operands)] ==
            IF i = 0 THEN slots ELSE scan_operand(after[i - 1], operands[i])
    IN  after[Len(operands)]

Mentioned(op) ==
    {o.value : o \in {p \in {op} \cup ToSet(op.index) : IsRda(p)}}
AllMentioned(operands) == UNION {Mentioned(op) : op \in ToSet(operands)}

\* An I register compared with a number by a conditional jump.
RegOf(ops) == IF ops[1].kind = "I" THEN ops[1] ELSE ops[2]
NumOf(ops) == IF ops[1].kind = "I" THEN ops[2] ELSE ops[1]
LoopBound(ireg_max, instr) ==
    IF instr.verb # "CJ" \/ RegOf(instr.operands).kind # "I" \/ NumOf(instr.operands).kind # "lit"
    THEN ireg_max
    ELSE [ireg_max EXCEPT ![RegOf(instr.operands).value] = Highest({@, NumOf(instr.operands).value})]

\* Ranges begin at the first operand of CLEAR and SAVE and at both of MOVE_BLOCK.
Starts(instr) ==
    CASE instr.verb \in {"CLEAR", "SAVE"} -> SubSeq(instr.operands, 1, 1)
      [] instr.verb = "MOVE_BLOCK" -> instr.operands
      [] OTHER -> << >>
AddRange(ranges, start, count) ==
    IF (\E i \in DOMAIN ranges : ranges[i] = [start |-> start, count |-> count])
       \/ Len(ranges) = MaxRanges
    THEN ranges ELSE Append(ranges, [start |-> start, count |-> count])
AddRangeOf(ranges, op, count) ==
    IF count > 1 /\ IsPlainRda(op) THEN AddRange(ranges, op.value, count) ELSE ranges
AddRanges(ranges, instr) ==
    LET starts == Starts(instr)
        after[i \in 0 .. Len(starts)] ==
            IF i = 0 THEN ranges ELSE AddRangeOf(after[i - 1], starts[i], instr.count)
    IN  after[Len(starts)]

Scanned(t, instr) ==
    [slots |-> scan_operands(t.slots, instr.operands),
     max_slot |-> Max({t.max_slot} \cup AllMentioned(instr.operands)),
     ireg_max |-> LoopBound(t.ireg_max, instr),
     ranges |-> AddRanges(t.ranges, instr)]

-----------------------------------------------------------------------------
(* symbol_table_scan: the guesses at the end.                              *)

\* An array whose next slot is used on its own is none.
ArrayKiller(t) ==
    [t EXCEPT !.slots = [s \in Slots |->
        IF s < t.max_slot /\ ~ @[s].bounds_certain /\ @[s + 1].direct_access
        THEN [@[s] EXCEPT !.is_array = FALSE] ELSE @[s]]]

\* What the register that indexes an array is compared with is its size.
Bound(t, slot) ==
    IF slot.is_array /\ ~ slot.bounds_certain /\ slot.index_ireg > 0 /\ t.ireg_max[slot.index_ireg] > 0
    THEN t.ireg_max[slot.index_ireg] ELSE slot.max_index
LoopBounds(t) ==
    [t EXCEPT !.slots = [s \in Slots |-> [@[s] EXCEPT !.max_index = Bound(t, t.slots[s])]]]

Extended(t, ends) == [t EXCEPT !.max_slot = Max({@} \cup (ends \cap Slots))]
ArrayEnds(t) ==
    {s + t.slots[s].max_index - 1 : s \in {s \in Slots : t.slots[s].is_array /\ t.slots[s].max_index > 0}}

Named(t, s) == t.slots[s].is_array \/ t.slots[s].direct_access
is_confirmed_struct(t, range) ==
    \E s \in Slots : s > range.start /\ s < range.start + range.count /\ Named(t, s)
RangeEnds(t) ==
    {r.start + r.count - 1 :
        r \in {r \in ToSet(t.ranges) : is_confirmed_struct(t, r) \/ Named(t, r.start)}}

ExtendedByArrays(t) == Extended(t, ArrayEnds(t))
ExtendedByRanges(t) == Extended(t, RangeEnds(t))
Guessed(t) == ExtendedByRanges(ExtendedByArrays(LoopBounds(ArrayKiller(t))))

-----------------------------------------------------------------------------
(* emit_data_section: group after group, slot after slot.                  *)

RangesAt(t, s, confirmed) ==
    {i \in DOMAIN t.ranges : t.ranges[i].start = s /\ is_confirmed_struct(t, t.ranges[i]) = confirmed}
FirstCount(t, found) == t.ranges[CHOOSE i \in found : \A j \in found : i <= j].count
struct_map_lookup(t, s) == RangesAt(t, s, TRUE)

array_span_has_interior_names(t, s, dim) ==
    \E k \in Slots : s < k /\ k < s + dim /\ k <= t.max_slot /\ t.slots[k].direct_access

\* The size a slot of its own is declared with; 0 for a scalar.
RangeDim(t, s) == IF RangesAt(t, s, FALSE) = {} THEN 0 ELSE FirstCount(t, RangesAt(t, s, FALSE))
ArrayDim(t, s) == IF t.slots[s].is_array THEN t.slots[s].max_index ELSE 0
\* With a fault: names inside are not looked for.
FitsAlways(t, s, dim) == dim > 0
Fits(t, s, dim) == dim > 0 /\ ~ array_span_has_interior_names(t, s, dim)
Dim(t, s) ==
    IF Fits(t, s, RangeDim(t, s)) THEN RangeDim(t, s)
    ELSE IF Fits(t, s, ArrayDim(t, s)) THEN ArrayDim(t, s) ELSE 0

Size(item) == IF item.dim = 0 THEN 1 ELSE item.dim
Structure(s, count) == [start |-> s, items |-> [j \in 1 .. count |-> [slot |-> s + j - 1, dim |-> 0]]]

\* "vars" has no name anybody uses: its start is -1.
Vars(items) == [start |-> -1, items |-> items]
InVars == groups # << >> /\ groups[Len(groups)].start = -1
AddToVars(item) ==
    IF InVars THEN [groups EXCEPT ![Len(groups)].items = Append(@, item)]
    ELSE Append(groups, Vars(<< item >>))

-----------------------------------------------------------------------------
(* The compiler: slots in the order of the declarations, and instructions  *)
(* with them.  << >> is an error of the analysis.                          *)

ItemsUpTo(data) ==
    LET upTo[g \in 0 .. Len(data)] == IF g = 0 THEN << >> ELSE upTo[g - 1] \o data[g].items
    IN  upTo
Items(data) == ItemsUpTo(data)[Len(data)]
\* Where the slots of the first k items end.
Ends(items) ==
    LET upTo[k \in 0 .. Len(items)] == IF k = 0 THEN 0 ELSE upTo[k - 1] + Size(items[k])
    IN  upTo
SizeOfAll(items) == Ends(items)[Len(items)]
Declared(data, name) == {k \in DOMAIN Items(data) : Items(data)[k].slot = name}
DimOf(data, name) ==
    IF Declared(data, name) = {} THEN 0 ELSE Items(data)[CHOOSE k \in Declared(data, name) : TRUE].dim
SlotOf(data, name) == Ends(Items(data))[(CHOOSE k \in Declared(data, name) : TRUE) - 1]
GroupsOf(data, name) == {g \in DOMAIN data : data[g].start = name}
Group(data, name) == data[CHOOSE g \in GroupsOf(data, name) : TRUE]

SizeIn(data, op) == IF IsPlainRda(op) THEN DimOf(data, op.value) ELSE 0

\* validate_expr: names of variables, or of a group where no subscript is.
Known(data, op) ==
    /\ \A o \in {op} \cup ToSet(op.index) : IsRda(o) => Declared(data, o.value) # {}
    /\ op.kind = "group" => GroupsOf(data, op.value) # {}
MixedMove(data, ops) ==
    /\ ops[1].kind # "lit" /\ ops[1].index = << >> /\ ops[2].index = << >>
    /\ SizeIn(data, ops[1]) # SizeIn(data, ops[2])
validate_verb(data, stmt) ==
    /\ \A i \in DOMAIN stmt.operands : Known(data, stmt.operands[i])
    /\ stmt.verb = "MOVE" => ~ MixedMove(data, stmt.operands)

\* A constant subscript chooses a slot, any other stays.
Rda(slot, index) == [kind |-> "rda", value |-> slot, index |-> index]
Subscript(data, idx) == IF IsRda(idx) THEN Rda(SlotOf(data, idx.value), << >>) ELSE idx
Variable(data, op) ==
    IF op.index = << >> THEN Rda(SlotOf(data, op.value), << >>)
    ELSE IF op.index[1].kind = "lit"
    THEN Rda(SlotOf(data, op.value) + op.index[1].value - 1, << >>)
    ELSE Rda(SlotOf(data, op.value), << Subscript(data, op.index[1]) >>)
Written(data, op) ==
    IF op.kind = "group" THEN Rda(SlotOf(data, Group(data, op.value).items[1].slot), << >>)
    ELSE IF IsRda(op) THEN Variable(data, op) ELSE op

\* The slots behind the name of a group or array; what CLEAR and SAVE count.
Extent(data, op) ==
    IF op.kind = "group" THEN SizeOfAll(Group(data, op.value).items)
    ELSE IF SizeIn(data, op) > 0 THEN SizeIn(data, op) ELSE 1
gen_verb(data, stmt) ==
    LET ops == stmt.operands
        whole == stmt.verb = "MOVE" /\ IsPlainRda(ops[1]) /\ ops[2].index = << >> /\ SizeIn(data, ops[1]) > 0
    IN  [verb |-> IF whole THEN "MOVE_BLOCK" ELSE stmt.verb,
         count |-> CASE whole -> SizeIn(data, ops[1])
                     [] stmt.verb = "CLEAR" -> Extent(data, ops[1])
                     [] stmt.verb = "SAVE" -> Extent(data, ops[2])
                     [] OTHER -> 0,
         operands |-> [i \in DOMAIN ops |-> Written(data, ops[i])]]

\* A program as the parser hands it over: its variables fit the RDA, registers
\* are I1 to I8, only variables have a subscript, and an element that is chosen
\* by a number has a slot.
IsSequence(s) == s \in Seq({s[i] : i \in DOMAIN s})
IsData(data) ==
    /\ IsSequence(data)
    /\ \A g \in DOMAIN data :
          /\ IsSequence(data[g].items) /\ data[g].items # << >>
          /\ \A j \in DOMAIN data[g].items : data[g].items[j].dim \in Nat
    /\ SizeOfAll(Items(data)) <= MAX_RDA_SLOTS
IsSimple(op) ==
    \/ op.kind = "I" /\ op.value \in 1 .. 8
    \/ op.kind = "lit" /\ op.value \in Nat
    \/ op.kind = "rda"
IsOperand(data, op) ==
    \/ op.index = << >> /\ (IsSimple(op) \/ op.kind = "group")
    \/ /\ IsRda(op) /\ op.index = << op.index[1] >>
       /\ IsSimple(op.index[1]) /\ op.index[1].index = << >>
       /\ op.index[1].kind = "lit" => SlotOf(data, op.value) + op.index[1].value - 1 \in Slots
IsStatement(data, stmt) ==
    /\ IsSequence(stmt.operands)
    /\ \A i \in DOMAIN stmt.operands : IsOperand(data, stmt.operands[i])
    /\ stmt.verb \in {"MOVE", "CJ"} => Len(stmt.operands) = 2
    /\ stmt.verb = "SAVE" => Len(stmt.operands) >= 2
    /\ stmt.verb = "CLEAR" => Len(stmt.operands) >= 1

ASSUME ProgramsAssumption ==
    \A data \in Data :
        /\ IsData(data)
        /\ \A stmt \in Statements(data) : validate_verb(data, stmt) => IsStatement(data, stmt)

-----------------------------------------------------------------------------
(* The statement emit_verb writes for an instruction.                      *)

ByGroup(t, instr) ==
    /\ instr.verb \in {"CLEAR", "SAVE"} /\ instr.count > 1 /\ IsPlainRda(instr.operands[1])
    /\ struct_map_lookup(t, instr.operands[1].value) # {}
emit_verb(t, instr) ==
    [verb |-> IF instr.verb = "MOVE_BLOCK" THEN "MOVE" ELSE instr.verb,
     operands |-> [i \in DOMAIN instr.operands |->
        IF i = 1 /\ ByGroup(t, instr) THEN [instr.operands[1] EXCEPT !.kind = "group"]
        ELSE instr.operands[i]]]

-----------------------------------------------------------------------------
Untouched ==
    [slots |-> [s \in Slots |-> Unknown], max_slot |-> -1,
     ireg_max |-> [r \in 1 .. 8 |-> 0], ranges |-> << >>]

DInit ==
    /\ \E data \in Data :
         LET accepted == {stmt \in Statements(data) : validate_verb(data, stmt)}
         IN  \E n \in 1 .. MaxLength : \E body \in [1 .. n -> accepted] :
                /\ source = [groups |-> data, body |-> body]
                /\ code = [i \in 1 .. n |-> gen_verb(data, body[i])]
    /\ phase = "scan" /\ scanned = 0 /\ table = Untouched
    /\ groups = << >> /\ next = 0

symbol_table_scan ==
    /\ phase = "scan" /\ scanned < Len(code)
    /\ scanned' = scanned + 1
    /\ table' = Scanned(table, code[scanned + 1])
    /\ UNCHANGED << phase, source, code, groups, next >>

Guess ==
    /\ phase = "scan" /\ scanned = Len(code)
    /\ table' = Guessed(table)
    /\ phase' = "emit"
    /\ UNCHANGED << source, code, scanned, groups, next >>

\* A group is declared as long as the range, whatever is inside.
EmitStructure ==
    /\ phase = "emit" /\ next <= table.max_slot
    /\ struct_map_lookup(table, next) # {}
    /\ LET count == FirstCount(table, struct_map_lookup(table, next))
       IN  groups' = Append(groups, Structure(next, count)) /\ next' = next + count
    /\ UNCHANGED << phase, source, code, scanned, table >>

\* With a fault: the rest of an array is declared again.
EmitVariableOne ==
    /\ phase = "emit" /\ next <= table.max_slot
    /\ struct_map_lookup(table, next) = {}
    /\ groups' = AddToVars([slot |-> next, dim |-> Dim(table, next)]) /\ next' = next + 1
    /\ UNCHANGED << phase, source, code, scanned, table >>

EmitVariable ==
    /\ phase = "emit" /\ next <= table.max_slot
    /\ struct_map_lookup(table, next) = {}
    /\ LET item == [slot |-> next, dim |-> Dim(table, next)]
       IN  groups' = AddToVars(item) /\ next' = next + Size(item)
    /\ UNCHANGED << phase, source, code, scanned, table >>

EmitDone ==
    /\ phase = "emit" /\ next > table.max_slot
    /\ phase' = "done"
    /\ UNCHANGED << source, code, scanned, table, groups, next >>

DNext == symbol_table_scan \/ Guess \/ EmitStructure \/ EmitVariable \/ EmitDone
DSpec == DInit /\ [][DNext]_dvars

-----------------------------------------------------------------------------
Text == [i \in DOMAIN code |-> emit_verb(table, code[i])]
Refused == \E i \in DOMAIN Text : ~ validate_verb(groups, Text[i])
Again == [i \in DOMAIN Text |-> gen_verb(groups, Text[i])]

(* A wrong guess is refused by the compiler or changes how many slots an   *)
(* instruction is about; it never moves a variable to another slot.        *)
SameSlots ==
    phase = "done" /\ ~ Refused =>
        \A i \in DOMAIN code : Again[i].operands = code[i].operands

\* What the guesses take for granted.  A block is several slots cleared or
\* moved by one instruction; a slot alone is one whose size matters.
Plain(ops) == {op.value : op \in {o \in ToSet(ops) : IsPlainRda(o)}}
Bases(instr) == {op.value : op \in {o \in ToSet(instr.operands) : IsRda(o) /\ o.index # << >>}}
Subscripted == UNION {Bases(instr) : instr \in ToSet(code)}
Having(verbs, many) == {instr \in ToSet(code) : instr.verb \in verbs /\ (instr.count > 1) = many}
Alone == UNION {Plain(instr.operands) : instr \in Having({"MOVE", "CLEAR", "SAVE"}, FALSE)}
Blocks(verbs) ==
    UNION {{s .. s + instr.count - 1 : s \in Plain(instr.operands)} : instr \in Having(verbs, TRUE)}
Firsts == {Min(b) : b \in Blocks({"CLEAR", "MOVE_BLOCK"})}

Apart == \A b, c \in Blocks({"CLEAR", "MOVE_BLOCK"}) : b = c \/ b \cap c = {}
MovedWhole == \A b \in Blocks({"MOVE_BLOCK"}) : \A s \in b \ {Min(b)} : ~ Named(table, s)
NeverAlone == Alone \cap (Subscripted \cup Firsts) = {}
WithinBounds ==
    \A s \in Subscripted :
        (Subscripted \cup Firsts) \cap (s + 1 .. s + table.slots[s].max_index - 1) = {}
Listed == Cardinality(Blocks({"CLEAR", "MOVE_BLOCK"})) <= MaxRanges
Tidy == Having({"SAVE"}, TRUE) = {} /\ Listed /\ Apart /\ MovedWhole /\ NeverAlone /\ WithinBounds

(* A SAVE of several slots says how many: "SAVE: count byte then 2         *)
(* operands (name, start slot)" (decode.c:441), the count of the second.   *)
SavesKept ==
    phase = "done" /\ ~ Refused =>
        \A i \in DOMAIN code : code[i].verb = "SAVE" => Again[i].count = code[i].count

(* The program that is compiled again is the one that was decompiled, when *)
(* each array and group is cleared and moved as one and no register that   *)
(* subscripts an array was compared with more than its size.               *)
CompilesBack == phase = "done" /\ Tidy => ~ Refused /\ Again = code
=============================================================================
