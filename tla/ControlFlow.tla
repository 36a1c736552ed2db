---------------------------- MODULE ControlFlow ----------------------------
(***************************************************************************)
(* The code of IF, WHILE, DO and GOTO (compiler/codegen/codegen_control.c, *)
(* gen_statement and gen_proc of codegen.c) run side by side with the      *)
(* statements it was made from.  What either side does that can be seen is *)
(* an event: a verb executed, two operands compared, the return.  The two  *)
(* sides share their events; unfolding a statement or following a jump is  *)
(* silent.                                                                 *)
(*                                                                         *)
(* Conditions: [k |-> "cmp", id, op], [k |-> "and" or "or", l, r].         *)
(* Statements: "empty", "verb" (id), "return", "label" and "goto" (to),    *)
(* "do" (body), "while" (c, body), "if" (c, then, else): body, then and    *)
(* else are sequences, of one statement where the grammar has one.         *)
(* Instructions: [op, id, to]; LABEL marks the place of a label.           *)
(***************************************************************************)
EXTENDS Integers, Sequences, SequencesExt

CONSTANTS
    Programs,       \* procedure bodies to compile
    MaxTerms,       \* size of terms[] in gen_condition_false_jump: 32
    Stale           \* what an unset slot of a node's children may hold

VARIABLES
    program,        \* the body of the procedure
    code,           \* its instructions
    cont,           \* what the source has still to do
    pc,             \* the next instruction
    done            \* both have returned

vars == << program, code, cont, pc, done >>

-----------------------------------------------------------------------------
(* The parser (tbol.y): an empty statement is no node, and ast_add_child   *)
(* adds nothing for it.                                                    *)

Null == [k |-> "NULL"]

RECURSIVE Node(_)
Nodes(ss) == SelectSeq([i \in DOMAIN ss |-> Node(ss[i])], LAMBDA n : n # Null)
Node(s) ==
    CASE s.k = "empty" -> Null
      [] s.k = "do"    -> [k |-> "do", children |-> Nodes(s.body)]
      [] s.k = "while" -> [k |-> "while", children |-> << s.c >> \o Nodes(s.body)]
      [] s.k = "if"    -> [k |-> "if", children |-> << s.c >> \o Nodes(s.then) \o Nodes(s.else)]
      [] OTHER -> s

-----------------------------------------------------------------------------
(* The code generator.  g is what has been generated: the code, and the    *)
(* counters that number the labels.  A label is << name, number, term >>,  *)
(* the names the program uses being distinct from those of the generator.  *)

User(l) == << l, 0, 0 >>
NoLabel == User("")
Emit(g, op, id, to) == [g EXCEPT !.code = Append(@, [op |-> op, id |-> id, to |-> to])]
define_label(g, l) == Emit(g, "LABEL", "", l)
emit_jump(g, l) == Emit(g, "JUMP", "", l)
emit_cond_jump(g, op, c, l) == Emit(g, op, c.id, l)

\* With a fault, to try the properties: LT's complement taken for GT.
get_inverse_cmp_opcode_strict(op) ==
    [EQ |-> "NE", NE |-> "EQ", LT |-> "GT", GT |-> "LE", LE |-> "GT", GE |-> "LT"][op]

get_inverse_cmp_opcode(op) ==
    [EQ |-> "NE", NE |-> "EQ", LT |-> "GE", GT |-> "LE", LE |-> "GT", GE |-> "LT"][op]

get_simple_goto_target(s) ==
    IF s.k = "goto" THEN s.to
    ELSE IF s.k = "do" /\ Len(s.children) = 1 /\ s.children[1].k = "goto" THEN s.children[1].to
    ELSE ""

RECURSIVE collect_or_terms(_, _)
collect_or_terms(c, max) ==
    IF max <= 0 THEN << >>
    ELSE IF c.k # "or" THEN << c >>
    ELSE LET left == collect_or_terms(c.l, max)
         IN  left \o collect_or_terms(c.r, max - Len(left))

\* Where the jump after the middle term i of n goes, the terms counted from
\* 0: to the next jump of the chain, the last one to the body.
CascadeStuck(or, i, n) == << "or_casc", or, i - 1 >>    \* with a fault
Cascade(or, i, n) == IF i < n - 2 THEN << "or_casc", or, i >> ELSE << "or_body", or, 0 >>

\* f[i] is the code up to the middle term i.
RECURSIVE gen_condition_false_jump(_, _, _)
gen_or(terms, false, g0) ==
    LET or == g0.ors
        n == Len(terms)
        check(i) == << "or_chk", or, i >>
        g == [g0 EXCEPT !.ors = @ + 1]
        first == emit_jump(gen_condition_false_jump(terms[1], check(1), g),
                           IF n = 2 THEN << "or_body", or, 0 >> ELSE << "or_casc", or, 0 >>)
        f[i \in 0 .. n - 2] ==
            IF i = 0 THEN first
            ELSE LET tested == gen_condition_false_jump(terms[i + 1], check(i + 1),
                                                        define_label(f[i - 1], check(i)))
                 IN  emit_jump(define_label(tested, << "or_casc", or, i - 1 >>),
                               Cascade(or, i, n))
        last == gen_condition_false_jump(terms[n], false, define_label(f[n - 2], check(n - 1)))
    IN  define_label(last, << "or_body", or, 0 >>)

gen_condition_false_jump(c, false, g) ==
    CASE c.k = "cmp" -> emit_cond_jump(g, get_inverse_cmp_opcode(c.op), c, false)
      [] c.k = "and" -> gen_condition_false_jump(c.r, false,
                                                 gen_condition_false_jump(c.l, false, g))
      [] c.k = "or"  ->
            LET terms == collect_or_terms(c, MaxTerms)
            IN  IF Len(terms) = 1
                THEN gen_condition_false_jump(terms[1], false, [g EXCEPT !.ors = @ + 1])
                ELSE gen_or(terms, false, g)

\* children[1] of an IF or a WHILE is read whether it was set or not.
Body(s, g) == IF Len(s.children) > 1 THEN s.children[2] ELSE g.stale

RECURSIVE gen_statement(_, _)
gen_if(s, g0) ==
    LET else_label == << "else", g0.ifs, 0 >>
        end_label == << "endif", g0.ifs, 0 >>
        g == [g0 EXCEPT !.ifs = @ + 1]
        cond == s.children[1]
        then_stmt == Body(s, g)
        target == get_simple_goto_target(then_stmt)
        has_else == Len(s.children) > 2
        tested == gen_condition_false_jump(cond, IF has_else THEN else_label ELSE end_label, g)
        then == gen_statement(then_stmt, tested)
        else == define_label(emit_jump(then, end_label), else_label)
    IN  IF g.if_goto_opt /\ ~ has_else /\ cond.k = "cmp" /\ target # ""
        THEN emit_cond_jump(g, cond.op, cond, User(target))
        ELSE define_label(IF has_else THEN gen_statement(s.children[3], else) ELSE then,
                          end_label)

gen_while(s, g0) ==
    LET top_label == << "while", g0.whiles, 0 >>
        end_label == << "endwhile", g0.whiles, 0 >>
        g == define_label([g0 EXCEPT !.whiles = @ + 1], top_label)
        tested == gen_condition_false_jump(s.children[1], end_label, g)
    IN  define_label(emit_jump(gen_statement(Body(s, g), tested), top_label), end_label)

gen_do_block(children, g) == FoldLeft(LAMBDA h, s : gen_statement(s, h), g, children)

gen_statement(s, g) ==
    CASE s.k = "label"  -> define_label(g, User(s.to))
      [] s.k = "verb"   -> Emit(g, "VERB", s.id, NoLabel)
      [] s.k = "return" -> Emit(g, "RETURN", "", NoLabel)
      [] s.k = "goto"   -> emit_jump(g, User(s.to))
      [] s.k = "if"     -> gen_if(s, g)
      [] s.k = "while"  -> gen_while(s, g)
      [] s.k = "do"     -> gen_do_block(s.children, g)
      [] OTHER          -> g

\* gen_proc: the statements and an implicit RETURN.
gen_proc(body, opt, stale) ==
    Emit(gen_do_block(Nodes(body),
                      [code |-> << >>, ors |-> 0, ifs |-> 0, whiles |-> 0,
                       if_goto_opt |-> opt, stale |-> stale]),
         "RETURN", "", NoLabel).code

-----------------------------------------------------------------------------
(* The meaning of the source: a condition is evaluated from left to right  *)
(* and no further than its value needs.                                    *)

Test(c, yes, no) == << [k |-> "test", c |-> c, yes |-> yes, no |-> no] >>

\* What is left to do behind a label l in ss, and then rest: for each such
\* label, of which a program has one.
RECURSIVE Behind(_, _, _)
Behind(ss, l, rest) ==
    UNION {LET s == ss[i]
               after == SubSeq(ss, i + 1, Len(ss)) \o rest
           IN  CASE s.k = "label" -> IF s.to = l THEN {after} ELSE {}
                 [] s.k = "do"    -> Behind(s.body, l, after)
                 [] s.k = "while" -> Behind(s.body, l, << s >> \o after)
                 [] s.k = "if"    -> Behind(s.then, l, after) \cup Behind(s.else, l, after)
                 [] OTHER         -> {}
           : i \in DOMAIN ss}

\* A silent step of the source whose next item is s.
Unfold(s, rest) ==
    CASE s.k \in {"empty", "label"} -> rest
      [] s.k = "do"    -> s.body \o rest
      [] s.k = "goto"  -> CHOOSE c \in Behind(program, s.to, << >>) : TRUE
      [] s.k = "if"    -> Test(s.c, s.then, s.else) \o rest
      [] s.k = "while" -> Test(s.c, s.body \o << s >>, << >>) \o rest
      [] s.k = "test"  ->
            (IF s.c.k = "and" THEN Test(s.c.l, Test(s.c.r, s.yes, s.no), s.no)
                              ELSE Test(s.c.l, s.yes, Test(s.c.r, s.yes, s.no))) \o rest

\* The event the source is at.
SourceEvent ==
    IF cont = << >> THEN << "RETURN", "" >>
    ELSE CASE Head(cont).k = "verb"   -> << "VERB", Head(cont).id >>
           [] Head(cont).k = "return" -> << "RETURN", "" >>
           [] Head(cont).k = "test" /\ Head(cont).c.k = "cmp" -> << "COMPARE", Head(cont).c.id >>
           [] OTHER -> << "silent", "" >>

\* The event the code is at.
Comparison == {"EQ", "NE", "LT", "GT", "LE", "GE"}
CodeEvent ==
    IF code[pc].op \in Comparison THEN << "COMPARE", code[pc].id >>
    ELSE IF code[pc].op \in {"JUMP", "LABEL"} THEN << "silent", "" >>
    ELSE << code[pc].op, code[pc].id >>

SourceReady == SourceEvent[1] # "silent"
CodeReady == CodeEvent[1] # "silent"

-----------------------------------------------------------------------------
Init ==
    /\ program \in Programs
    /\ \E opt \in BOOLEAN, stale \in Stale : code = gen_proc(program, opt, stale)
    /\ cont = program
    /\ pc = 1
    /\ done = FALSE

\* A jump to a label that is nowhere keeps its zero and goes on behind it.
Target(l) ==
    LET places == {i \in DOMAIN code : code[i].op = "LABEL" /\ code[i].to = l}
    IN  IF places = {} THEN pc + 1 ELSE CHOOSE i \in places : TRUE

SourceStep ==
    /\ ~ done /\ ~ SourceReady
    /\ cont' = Unfold(Head(cont), Tail(cont))
    /\ UNCHANGED << program, code, pc, done >>

CodeStep ==
    /\ ~ done /\ ~ CodeReady
    /\ pc' = IF code[pc].op = "JUMP" THEN Target(code[pc].to) ELSE pc + 1
    /\ UNCHANGED << program, code, cont, done >>

Together(kind) == ~ done /\ SourceEvent = CodeEvent /\ CodeEvent[1] = kind

Verb ==
    /\ Together("VERB")
    /\ cont' = Tail(cont)
    /\ pc' = pc + 1
    /\ UNCHANGED << program, code, done >>

\* The operands compare as they will; op holds of the order they are in.
Holds(op, order) ==
    order \in [EQ |-> {"eq"}, NE |-> {"lt", "gt"}, LT |-> {"lt"}, GT |-> {"gt"},
               LE |-> {"lt", "eq"}, GE |-> {"gt", "eq"}][op]

Compare(order) ==
    /\ Together("COMPARE")
    /\ cont' = (IF Holds(Head(cont).c.op, order) THEN Head(cont).yes ELSE Head(cont).no)
                 \o Tail(cont)
    /\ pc' = IF Holds(code[pc].op, order) THEN Target(code[pc].to) ELSE pc + 1
    /\ UNCHANGED << program, code, done >>

Return ==
    /\ Together("RETURN")
    /\ done' = TRUE
    /\ UNCHANGED << program, code, cont, pc >>

Next == SourceStep \/ CodeStep \/ Verb \/ (\E order \in {"lt", "eq", "gt"} : Compare(order)) \/ Return

\* Each side gets on with its silent steps.
Spec == Init /\ [][Next]_vars /\ WF_vars(SourceStep) /\ WF_vars(CodeStep)

-----------------------------------------------------------------------------
\* The code does what the source says: whenever both are at an event it is
\* the same one, so that no verb is executed, left out or executed out of
\* turn, and no comparison is made that short-circuit evaluation would not
\* make.  (gen_if, gen_while, gen_condition_false_jump)
Faithful == ~ done /\ SourceReady /\ CodeReady => SourceEvent = CodeEvent

\* Neither side is left behind: when one is at an event the other gets to
\* one too; no chain of jumps runs in circles and no endless loop of the
\* source is left by the code.
KeepsUp == (SourceReady \/ CodeReady) ~> (SourceReady /\ CodeReady)
=============================================================================
