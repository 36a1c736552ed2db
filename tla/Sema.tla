-------------------------------- MODULE Sema --------------------------------
(***************************************************************************)
(* The semantic analysis of the compiler (compiler/sema/sema.c) and its    *)
(* symbol table (symtab.c): a first pass over the program collects the     *)
(* declarations and gives every variable its slots, a second one checks    *)
(* what the statements refer to.                                           *)
(*                                                                         *)
(* A program is [long, children]: whether its name is too long, and its    *)
(* DATA sections [kind, name, vars] and procedures [kind, name, body] in   *)
(* order.  A body is the pre-order sequence of its statements, nested ones *)
(* behind the one that holds them, since both passes visit it so, with the *)
(* comparisons of a condition and the end of a block as items of their     *)
(* own.  An item is [kind, name, labels, operands, bytes] (bytes of code,  *)
(* see Compiler), an operand [k, names]: the identifiers in it, and        *)
(* whether it is one ("ident"), a literal, a literal too "long", or an     *)
(* expression.                                                             *)
(***************************************************************************)
EXTENDS Integers, Sequences, FiniteSets

CONSTANTS
    Main,               \* the name "main"
    None,               \* no name, no procedure
    Programs            \* what the parser may hand over

IsSequence(s) == s \in Seq({s[i] : i \in DOMAIN s})
IsOperand(o) ==
    /\ o.k \in {"ident", "literal", "long", "expr"} /\ IsSequence(o.names)
    /\ o.k = "ident" => Len(o.names) > 0
IsStatement(s) ==
    /\ s.kind \in {"verb", "goto", "call", "block", "compare", "label", "end"} /\ s.bytes \in Nat
    /\ IsSequence(s.labels) /\ IsSequence(s.operands)
    /\ \A i \in DOMAIN s.operands : IsOperand(s.operands[i])
IsChild(c) ==
    \/ /\ c.kind = "data" /\ IsSequence(c.vars)
       /\ \A j \in DOMAIN c.vars : c.vars[j].size \in Nat
    \/ /\ c.kind = "proc" /\ c.name # None /\ IsSequence(c.body)
       /\ \A j \in DOMAIN c.body : IsStatement(c.body[j])

ASSUME ProgramsAssumption ==
    /\ None \notin Programs
    /\ \A p \in Programs : /\ p.long \in BOOLEAN /\ IsSequence(p.children)
                          /\ \A i \in DOMAIN p.children : IsChild(p.children[i])

VARIABLES
    ast,                \* the program, or None
    pass,               \* 1, 2; 3 when sema_analyze returns; 0 before
    at,                 \* index of the child being visited
    item,               \* index of the variable or statement being visited
    var_table,          \* name -> [slot, size]
    next_slot,          \* data_offset / 256
    structures,         \* DATA groups, the newest first
    proc_table,         \* name -> [order, labels]
    error_count,        \* errors of this analysis
    current_proc,       \* name of the procedure being checked, or None
    diag_errors,        \* g_diag.error_count
    warnings,           \* g_diag.warning_count
    werror              \* g_options.warnings_as_errors

svars == << ast, pass, at, item, var_table, next_slot, structures, proc_table,
            error_count, current_proc, diag_errors, warnings, werror >>
tables == << var_table, next_slot, structures, proc_table >>

Empty == [x \in {} |-> 0]
Put(f, x, v) == [y \in DOMAIN f \cup {x} |-> IF y = x THEN v ELSE f[y]]

-----------------------------------------------------------------------------
(* What a verb takes: at least, at most (-1: no limit), and which operands *)
(* must not be literals.                                                   *)
Takes(verbs, lo, hi, vars) == [v \in verbs |-> [min |-> lo, max |-> hi, vars |-> vars]]
And(f, g) == [v \in DOMAIN f \cup DOMAIN g |-> IF v \in DOMAIN f THEN f[v] ELSE g[v]]

Optional ==
    And(Takes({"PURGE_CACHE", "DISCONNECT", "REFRESH", "WAIT"}, 0, 0, {}),
    And(Takes({"EXIT", "RETURN", "CLOSE_WINDOW", "KILL", "CANCEL", "ERASE", "SET_CURSOR", "STOP"}, 0, 1, {}),
    And(Takes({"SOUND"}, 0, 2, {}),
        Takes({"START"}, 0, 4, {}))))

Required ==
    And(Takes({"PUSH", "ERROR", "TRIGGER_FUNCTION", "OPEN_WINDOW", "CLOSE", "DELETE", "CONNECT", "RELEASE"}, 1, 1, {}),
    And(Takes({"NAVIGATE", "OPEN_ERROR_WINDOW", "SEND"}, 1, 2, {}),
    And(Takes({"LINK", "TRANSFER"}, 1, -1, {}),
    And(Takes({"AND", "OR", "XOR", "TEST", "OPEN", "POINT", "RESTORE", "SET_ATTRIBUTE"}, 2, 2, {}),
    And(Takes({"WRITE", "SAVE"}, 2, 3, {}),
    And(Takes({"SET_FUNCTION"}, 2, 4, {}),
    And(Takes({"SET_KEY", "SORT"}, 3, 3, {}),
        Takes({"DEFINE_FIELD"}, 6, 7, {}))))))))

Changing ==
    And(Takes({"ADD", "SUBTRACT", "MULTIPLY", "MOVE", "LENGTH", "NOTE", "RECEIVE"}, 2, 2, {2}),
    And(Takes({"DIVIDE"}, 2, 3, {2, 3}),
    And(Takes({"SWAP"}, 2, 2, {1, 2}),
    And(Takes({"FILL"}, 3, 3, {1}),
    And(Takes({"CLEAR"}, 1, 2, {1, 2}),
        Takes({"POP", "UPPERCASE"}, 1, 1, {1}))))))

Producing ==
    And(Takes({"STRING", "MAKE_FORMAT"}, 2, -1, {1}),
    And(Takes({"SUBSTR"}, 4, 4, {2}),
    And(Takes({"INSTR", "FORMAT"}, 3, 3, {3}),
    And(Takes({"EDIT"}, 3, 8, {1}),
    And(Takes({"FETCH"}, 1, 2, {2}),
    And(Takes({"READ"}, 2, 3, {2}),
        Takes({"LOOKUP"}, 5, 5, {5})))))))

verb_specs == And(And(Optional, Required), And(Changing, Producing))

-----------------------------------------------------------------------------
Child == ast.children[at]
Statement == Child.body[item]
Slots(size) == IF size > 0 THEN size ELSE 1

\* The slots of a section, arrays with one for each element.
SlotCount(vars) == Cardinality(UNION {{j} \X (1 .. Slots(vars[j].size)) : j \in DOMAIN vars})

\* Errors and warnings reported; with -Werror a warning counts for the
\* diagnostics as an error, but not for the analysis.
Report(e, w) ==
    /\ error_count' = error_count + e
    /\ warnings' = warnings + w
    /\ diag_errors' = diag_errors + e + (IF werror THEN w ELSE 0)
One(b) == IF b THEN 1 ELSE 0

Init ==
    /\ ast = None /\ pass = 0 /\ at = 1 /\ item = 1
    /\ var_table = Empty /\ next_slot = 0 /\ structures = << >> /\ proc_table = Empty
    /\ error_count = 0 /\ current_proc = None
    /\ diag_errors = 0 /\ warnings = 0 /\ werror \in BOOLEAN

\* The start of sema_analyze and what it asks of the program as a whole.
CheckProgram ==
    LET procs == {i \in DOMAIN ast.children : ast.children[i].kind = "proc"}
        misnamed == \E i \in procs : /\ \A j \in procs : i <= j
                                     /\ ast.children[i].name # Main
        faults == One(ast.long) + One(misnamed)
    IN  /\ ast # None /\ pass = 0
        /\ pass' = 1 /\ at' = 1 /\ item' = 1
        /\ var_table' = Empty /\ next_slot' = 0 /\ structures' = << >> /\ proc_table' = Empty
        /\ error_count' = faults /\ diag_errors' = diag_errors + faults
        /\ current_proc' = None
        /\ UNCHANGED << ast, warnings, werror >>

Visiting(n, kind) == pass = n /\ at <= Len(ast.children) /\ Child.kind = kind

\* A variable gets the next slots; a second one of that name only a warning.
Declare(slots) ==
    /\ Visiting(1, "data") /\ item <= Len(Child.vars)
    /\ LET v == Child.vars[item]
       IN  IF v.name \in DOMAIN var_table
           THEN Report(0, 1) /\ UNCHANGED << var_table, next_slot >>
           ELSE /\ var_table' = Put(var_table, v.name, [slot |-> next_slot, size |-> v.size])
                /\ next_slot' = next_slot + slots
                /\ Report(0, 0)
    /\ item' = item + 1
    /\ UNCHANGED << ast, pass, at, structures, proc_table, current_proc, werror >>

\* With a fault: an array takes one slot.
DeclareVarFirst == Declare(1)
DeclareVar == Declare(Slots(Child.vars[item].size))

\* A section with a name becomes a group: from the slots of its first
\* variable, as many as all its variables would take.
DefineStructure ==
    LET vars == Child.vars
    IN  /\ Visiting(1, "data") /\ item > Len(vars)
        /\ structures' = IF Child.name # None /\ vars # << >>
                         THEN << [name |-> Child.name, section |-> at,
                                  start_slot |-> var_table[vars[1].name].slot,
                                  count |-> SlotCount(vars)] >> \o structures
                         ELSE structures
        /\ at' = at + 1 /\ item' = 1
        /\ UNCHANGED << ast, pass, var_table, next_slot, proc_table, error_count,
                        current_proc, diag_errors, warnings, werror >>

\* The labels of the procedure visited, and those that are there again.
Labelled(body) == {i \in DOMAIN body : body[i].kind = "label"}
Repeated(body) == {i \in Labelled(body) : \E j \in Labelled(body) : j < i /\ body[j].name = body[i].name}

\* A procedure with the labels in it, unless it is refused.
Collect(refused) ==
    /\ Visiting(1, "proc")
    /\ IF refused
       THEN Report(1, 0) /\ proc_table' = proc_table
       ELSE /\ proc_table' = Put(proc_table, Child.name,
                                 [order |-> Cardinality(DOMAIN proc_table),
                                  labels |-> {Child.body[i].name : i \in Labelled(Child.body)}])
            /\ Report(Cardinality(Repeated(Child.body)), 0)
    /\ at' = at + 1
    /\ UNCHANGED << ast, pass, item, var_table, next_slot, structures, current_proc, werror >>

CollectProc == Collect(Child.name \in DOMAIN proc_table)

\* The end of a pass.
NextPass ==
    /\ pass \in {1, 2} /\ at > Len(ast.children)
    /\ pass' = pass + 1 /\ at' = 1
    /\ UNCHANGED << ast, item, tables, error_count, current_proc, diag_errors, warnings, werror >>

-----------------------------------------------------------------------------
\* validate_expr: identifiers nobody declared, literals that are too long.
Declared(n) == n \in DOMAIN var_table \/ \E i \in DOMAIN structures : structures[i].name = n
ExprFaults(operands, n) ==
    {x \in UNION {{i} \X DOMAIN operands[i].names : i \in 1 .. n} :
        ~ Declared(operands[x[1]].names[x[2]])}
      \cup {<< i, 0 >> : i \in {k \in 1 .. n : operands[k].k = "long"}}
AllFaults(operands) == Cardinality(ExprFaults(operands, Len(operands)))

SizeOf(o) == IF o.k = "ident" /\ o.names[1] \in DOMAIN var_table
             THEN var_table[o.names[1]].size ELSE 0

\* validate_verb: a wrong number of operands ends it; only the first eight
\* operands are looked at.
VerbFaults(verb, ops) ==
    IF verb \notin DOMAIN verb_specs THEN AllFaults(ops)
    ELSE LET spec == verb_specs[verb]
             n == IF Len(ops) < 8 THEN Len(ops) ELSE 8
             restricted == {i \in 1 .. n : i \in spec.vars /\ ops[i].k \in {"literal", "long"}}
             mixed == /\ verb = "MOVE" /\ ops[1].k = "ident" /\ ops[2].k = "ident"
                      /\ SizeOf(ops[1]) # SizeOf(ops[2])
             swapped == verb = "SWAP" /\ \E i \in 1 .. n : SizeOf(ops[i]) > 0
         IN  IF Len(ops) < spec.min \/ (spec.max >= 0 /\ Len(ops) > spec.max) THEN 1
             ELSE Cardinality(ExprFaults(ops, n)) + Cardinality(restricted)
                    + One(mixed) + One(swapped)

EnterProc ==
    /\ Visiting(2, "proc") /\ current_proc = None
    /\ current_proc' = Child.name
    /\ UNCHANGED << ast, pass, at, item, tables, error_count, diag_errors, warnings, werror >>

Validating(kinds) ==
    /\ Visiting(2, "proc") /\ current_proc # None
    /\ item <= Len(Child.body) /\ Statement.kind \in kinds
    /\ item' = item + 1
    /\ UNCHANGED << ast, pass, at, tables, current_proc, werror >>

ValidateVerb ==
    /\ Validating({"verb"})
    /\ Report(VerbFaults(Statement.name, Statement.operands), 0)

\* GOTO, and GOTO_DEPENDING_ON with its selector and any number of labels.
ValidateGoto ==
    /\ Validating({"goto"})
    /\ LET labels == Statement.labels
       IN  Report(AllFaults(Statement.operands)
                    + Cardinality({i \in DOMAIN labels : labels[i] \notin proc_table[current_proc].labels}), 0)

\* An unknown procedure is a warning; a known one must not come before
\* the lowest order.
Called(lowest) ==
    /\ Validating({"call"})
    /\ LET q == Statement.name
           backward == q \in DOMAIN proc_table /\ proc_table[q].order < lowest
       IN  Report(AllFaults(Statement.operands) + One(backward), One(q \notin DOMAIN proc_table))

\* With a fault: a procedure may call itself.
ValidateProcCallSelf == Called(proc_table[current_proc].order)
ValidateProcCall == Called(proc_table[current_proc].order + 1)

\* IF, WHILE and DO, the comparisons of a condition, labels.
ValidateOther ==
    /\ Validating({"block", "compare", "label", "end"})
    /\ Report(AllFaults(Statement.operands), 0)

LeaveProc ==
    /\ Visiting(2, "proc") /\ current_proc # None /\ item > Len(Child.body)
    /\ current_proc' = None /\ at' = at + 1 /\ item' = 1
    /\ UNCHANGED << ast, pass, tables, error_count, diag_errors, warnings, werror >>

SkipData ==
    /\ Visiting(2, "data")
    /\ at' = at + 1
    /\ UNCHANGED << ast, pass, item, tables, error_count, current_proc, diag_errors, warnings, werror >>

Analyze ==
    \/ CheckProgram \/ DeclareVar \/ DefineStructure \/ CollectProc \/ NextPass
    \/ EnterProc \/ ValidateVerb \/ ValidateGoto \/ ValidateProcCall \/ ValidateOther
    \/ LeaveProc \/ SkipData
-----------------------------------------------------------------------------
\* What the analysis has to find out, said of the program as a whole.
Children(kind) == {i \in DOMAIN ast.children : ast.children[i].kind = kind}
ProcNames == {ast.children[i].name : i \in Children("proc")}
Declarations == UNION {{<< i, j >> : j \in DOMAIN ast.children[i].vars} : i \in Children("data")}
NameAt(d) == ast.children[d[1]].vars[d[2]].name
Before(d, e) == d[1] < e[1] \/ (d[1] = e[1] /\ d[2] < e[2])
Groups == {ast.children[i].name : i \in {k \in Children("data") : ast.children[k].vars # << >>}} \ {None}
Known == {NameAt(d) : d \in Declarations} \cup Groups
First(those) == CHOOSE d \in those : \A e \in those : d = e \/ Before(d, e)
FirstSize(n) ==
    LET those == {d \in Declarations : NameAt(d) = n}
    IN  IF those = {} THEN 0 ELSE ast.children[First(those)[1]].vars[First(those)[2]].size

GoodOperand(o) == o.k # "long" /\ \A i \in DOMAIN o.names : o.names[i] \in Known
Extent(o) == IF o.k = "ident" THEN FirstSize(o.names[1]) ELSE 0
GoodVerb(s) ==
    LET first == {i \in DOMAIN s.operands : s.name \in DOMAIN verb_specs => i <= 8}
    IN  /\ \A i \in first : GoodOperand(s.operands[i])
        /\ s.name \in DOMAIN verb_specs =>
             LET spec == verb_specs[s.name]
             IN  /\ Len(s.operands) >= spec.min
                 /\ spec.max # -1 => Len(s.operands) <= spec.max
                 /\ \A i \in first \cap spec.vars : s.operands[i].k # "literal"
        /\ s.name = "MOVE" /\ s.operands[1].k = "ident" /\ s.operands[2].k = "ident" =>
             Extent(s.operands[1]) = Extent(s.operands[2])
        /\ s.name = "SWAP" => \A i \in first : Extent(s.operands[i]) = 0

GoodStatement(i, s) ==
    IF s.kind = "verb" THEN GoodVerb(s)
    ELSE /\ \A k \in DOMAIN s.operands : GoodOperand(s.operands[k])
         /\ s.kind = "goto" =>
              \A k \in DOMAIN s.labels :
                 \E j \in DOMAIN ast.children[i].body :
                    /\ ast.children[i].body[j].kind = "label"
                    /\ ast.children[i].body[j].name = s.labels[k]
         /\ s.kind = "call" =>
              \A j \in Children("proc") : ast.children[j].name = s.name => i < j

WellFormed ==
    /\ ~ ast.long
    /\ \A i \in Children("proc") :
         /\ (\A j \in Children("proc") : i <= j) => ast.children[i].name = Main
         /\ \A j \in Children("proc") : ast.children[i].name = ast.children[j].name => i = j
         /\ \A j, k \in DOMAIN ast.children[i].body :
              LET s == ast.children[i].body[j]
                  t == ast.children[i].body[k]
              IN  s.kind = "label" /\ t.kind = "label" /\ s.name = t.name => j = k
         /\ \A j \in DOMAIN ast.children[i].body : GoodStatement(i, ast.children[i].body[j])

\* The slots of the variables, arrays included, do not overlap and leave no
\* gap, whatever was declared twice and whatever an earlier program of the same
\* process left in the tables; and a CLEAR or SAVE of a DATA group takes the
\* slots of its members and no others, if none of them was declared before.
\* (symtab_define_var, symtab_init, collect_declarations)
SlotSet(n) == var_table[n].slot .. var_table[n].slot + Slots(var_table[n].size) - 1
AllNew(i) ==
    \A d, e \in Declarations : d[1] = i /\ d # e /\ NameAt(d) = NameAt(e) => Before(d, e) /\ e[1] # i
GroupExact(g) ==
    LET members == {v.name : v \in {ast.children[g.section].vars[j] :
                                       j \in DOMAIN ast.children[g.section].vars}}
    IN  AllNew(g.section) =>
          g.start_slot .. g.start_slot + g.count - 1 = UNION {SlotSet(n) : n \in members}
SlotsPartitioned ==
    pass > 0 =>
      /\ \A m, n \in DOMAIN var_table : m # n => SlotSet(m) \cap SlotSet(n) = {}
      /\ \A k \in 0 .. next_slot - 1 : \E n \in DOMAIN var_table : k \in SlotSet(n)
      /\ \A n \in DOMAIN var_table : SlotSet(n) \subseteq 0 .. next_slot - 1
      /\ \A g \in DOMAIN structures : GroupExact(structures[g])

\* The two passes accept just the programs the generator can link: unique
\* names, a label for every GOTO in its own procedure, calls only forward,
\* operands that were declared.  (sema_analyze)
AcceptsWellFormed == pass = 3 => (error_count = 0 <=> WellFormed)
=============================================================================
