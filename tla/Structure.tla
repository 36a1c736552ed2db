------------------------------ MODULE Structure ------------------------------
(***************************************************************************)
(* How the decompiler makes statements of code again                       *)
(* (decompiler/structure.c): where it sees an IF, an ELSE, a WHILE or a    *)
(* chain of ANDs and ORs in conditional and unconditional jumps, by a mode *)
(* for each conditional jump, and the search of verify.c for modes whose   *)
(* text the compiler makes the same code of.  The statements it found are  *)
(* then run side by side with the code, as ControlFlow does.               *)
(*                                                                         *)
(* The code has places instead of labels here: an instruction is           *)
(* [op, id, to], its address its index, to an address or 0.                *)
(***************************************************************************)
EXTENDS ControlFlow, FiniteSets, TLC

VARIABLES
    original,       \* the program the code was made of, << >> when it is run itself
    found           \* what the search ended with: "same" code or "other"

recovery == << original, found >>

\* The code as the linker leaves it.
Place(c, l) == CHOOSE i \in DOMAIN c : c[i].op = "LABEL" /\ c[i].to = l
Address(c, i) == Cardinality({j \in 1 .. i - 1 : c[j].op # "LABEL"}) + 1
Linked(c, is) ==
    [n \in DOMAIN is |->
        [op |-> is[n].op, id |-> is[n].id,
         to |-> IF is[n].to = NoLabel THEN 0 ELSE Address(c, Place(c, is[n].to))]]
Bytecode(c) == Linked(c, SelectSeq(c, LAMBDA x : x.op # "LABEL"))

is_conditional(i) == i.op \in Comparison
label(a) == ToString(a)

-----------------------------------------------------------------------------
(* What the code looks like around a place.                                *)

Referrers(is, a) == {i \in DOMAIN is : is[i].to = a}

\* A chain of jumps is followed to where it ends, or 256 of them.
RECURSIVE resolve_jump_chain(_, _, _)
resolve_jump_chain(is, a, guard) ==
    IF guard = 0 \/ a \notin DOMAIN is \/ is[a].op # "JUMP" THEN a
    ELSE resolve_jump_chain(is, is[a].to, guard - 1)

\* The comparisons that follow each other when they fail, each reached by the
\* one before it only.
RECURSIVE OrTerms(_, _)
OrTerms(is, terms) ==
    LET cur == Last(terms)
        nt == is[cur].to
    IN  IF /\ Len(terms) < 64 /\ nt \in DOMAIN is /\ nt # terms[1]
           /\ is_conditional(is[nt]) /\ Referrers(is, nt) \subseteq {cur}
        THEN OrTerms(is, Append(terms, nt)) ELSE terms

IsOr(is, i, terms, labels) ==
    /\ i + 1 \in DOMAIN is /\ is[i + 1].op = "JUMP" /\ i + 1 \notin labels
    /\ Len(terms) >= 2
    /\ Last(terms) + 1 < is[Last(terms)].to /\ Last(terms) + 1 \in DOMAIN is

\* With a fault: that they lead to the same body is taken for granted.
detect_or_chain_any(is, i, labels, terms) == IsOr(is, i, terms, labels)

\* Whether the terms are those of an OR that begins at i: whatever holds
\* first leads to the same body.
detect_or_chain(is, i, labels, terms) ==
    /\ IsOr(is, i, terms, labels)
    /\ \A k \in DOMAIN terms : resolve_jump_chain(is, terms[k] + 1, 256) = Last(terms) + 1

\* The last of the comparisons from i on that fail to the same place.
RECURSIVE AndEnd(_, _, _)
AndEnd(is, i, labels) ==
    IF /\ i + 1 \in DOMAIN is /\ is_conditional(is[i + 1])
       /\ is[i + 1].to = is[i].to /\ i + 1 \notin labels
    THEN AndEnd(is, i + 1, labels) ELSE i

inverted_op(op) == [EQ |-> "NE", NE |-> "EQ", LT |-> "GE", GT |-> "LE", LE |-> "GT", GE |-> "LT"][op]
fmt_atom(i, invert) == [k |-> "cmp", id |-> i.id, op |-> IF invert THEN inverted_op(i.op) ELSE i.op]

Joined(is, kind, ks) ==
    FoldLeft(LAMBDA c, k : [k |-> kind, l |-> c, r |-> fmt_atom(is[k], TRUE)],
             fmt_atom(is[ks[1]], TRUE), Tail(ks))

\* The condition at i, whose terms are in turn those of an OR or end with
\* last: where the code goes on when it fails and when it holds.
emit_terms(is, i, or, terms, last) ==
    IF or
    THEN [or |-> TRUE, c |-> Joined(is, "or", terms), fail |-> is[Last(terms)].to,
          body |-> Last(terms) + 1]
    ELSE [or |-> FALSE, c |-> Joined(is, "and", [k \in 1 .. last - i + 1 |-> i + k - 1]),
          fail |-> is[i].to, body |-> last + 1]
TryOr(is, i, labels, terms) ==
    emit_terms(is, i, detect_or_chain(is, i, labels, terms), terms, AndEnd(is, i, labels))
emit_condition(is, i, labels) == TryOr(is, i, labels, OrTerms(is, << i >>))

\* What the body from b on, before e, ends in; 0 when it is empty.
body_last(b, e) == IF b < e THEN e - 1 ELSE 0

JumpsTo(is, i, a) == i # 0 /\ is[i].op = "JUMP" /\ is[i].to = a
IsElse(is, c, last) == last > c.body /\ is[last].op = "JUMP" /\ is[last].to > c.fail

FailsTo(is, i, end, c, last) ==
    /\ ~ JumpsTo(is, last, i)
    /\ (IF IsElse(is, c, last) THEN is[last].to ELSE c.fail) = end
IfEndsAt(is, i, end, c) == FailsTo(is, i, end, c, body_last(c.body, c.fail))
else_range_is_single_if(is, i, end, labels) ==
    is_conditional(is[i]) /\ IfEndsAt(is, i, end, emit_condition(is, i, labels))

-----------------------------------------------------------------------------
(* The statements.  s is what has been written: out, and the labels to     *)
(* write, with those that have been.                                       *)

GotoLabel(a) == [k |-> "goto", to |-> label(a)]
IfThen(c, t, e) == [k |-> "if", c |-> c, then |-> << t >>, else |-> e]
DoBlock(ss) == [k |-> "do", body |-> ss]
Put(s, ss) == [s EXCEPT !.out = @ \o ss]

\* A conditional jump written as a verb is nothing the compiler knows.
emit_verb(i) ==
    IF i.op = "JUMP" THEN GotoLabel(i.to)
    ELSE IF i.op = "RETURN" THEN [k |-> "return"]
    ELSE IF i.op = "VERB" THEN [k |-> "verb", id |-> i.id]
    ELSE [k |-> "unknown"]

RECURSIVE emit_block(_, _, _, _, _)

Inside(is, mt, b, e, s) == emit_block(is, mt, b, e, [s EXCEPT !.out = << >>])
Back(inner, s) == [inner EXCEPT !.out = s.out]

\* [stmt, s]: the body from b on, before e, and what has become of the labels.
Bracketed(inner, s) == [stmt |-> DoBlock(inner.out), s |-> Back(inner, s)]
emit_body(is, mt, b, e, s) ==
    IF b >= e THEN [stmt |-> [k |-> "empty"], s |-> s]
    ELSE IF e - b > 1 \/ b \in s.labels THEN Bracketed(Inside(is, mt, b, e, s), s)
    ELSE [stmt |-> emit_verb(is[b]), s |-> s]

\* The ELSE branch, from f on, before e, of the IF at i: its statements, the
\* first of which is the branch.  Without a block its label is not written.
Else(cuddled, inner, s) ==
    [stmts |-> IF cuddled THEN inner.out ELSE << DoBlock(inner.out) >>, s |-> Back(inner, s)]
ElseBlock(is, mt, f, e, cuddled, s) ==
    Else(cuddled, Inside(is, mt, f, e, [s EXCEPT !.labels = IF cuddled THEN @ \ {f} ELSE @]), s)
emit_else(is, mt, i, f, e, s) ==
    IF ~ is_conditional(is[f]) /\ e - f = 1 THEN [stmts |-> << emit_verb(is[f]) >>, s |-> s]
    ELSE ElseBlock(is, mt, f, e,
                   Referrers(is, f) \subseteq {i} /\ else_range_is_single_if(is, f, e, s.labels), s)

\* The labels only the terms of an OR referred to go with them.
WithoutTerms(is, i, body, s) ==
    [s EXCEPT !.labels = @ \ {a \in {is[t].to : t \in i .. body - 1} :
                                 Referrers(is, a) \subseteq i .. body - 1}]

\* [next, s]: what has been written of the conditional jump at i, and where
\* that ends.  A loop jumps back to it; an ELSE is what the body jumps over.
Wrote(next, s, ss) == [next |-> next, s |-> Put(s, ss)]
WithElse(c, end, then, e) ==
    Wrote(end, e.s, << IfThen(c, then, << Head(e.stmts) >>) >> \o Tail(e.stmts))
Close(is, mt, i, c, last, shape, b) ==
    IF shape = "while" THEN Wrote(c.fail, b.s, << [k |-> "while", c |-> c.c, body |-> << b.stmt >>] >>)
    ELSE IF shape = "if" THEN Wrote(c.fail, b.s, << IfThen(c.c, b.stmt, << >>) >>)
    ELSE WithElse(c.c, is[last].to, b.stmt, emit_else(is, mt, i, c.fail, is[last].to, b.s))
Open(is, mt, i, c, last, shape, s) ==
    Close(is, mt, i, c, last, shape,
          emit_body(is, mt, c.body, IF shape = "if" THEN c.fail ELSE last, s))
Shape(is, mt, i, c, last) ==
    IF JumpsTo(is, last, i) THEN "while"
    ELSE IF mt[i] # "NO_ELSE" /\ IsElse(is, c, last) THEN "else" ELSE "if"
Structured(is, mt, i, c, last, s) == Open(is, mt, i, c, last, Shape(is, mt, i, c, last), s)

JumpsOver(is, i, labels) ==
    i + 1 \in DOMAIN is /\ is[i + 1].op = "JUMP" /\ i + 2 = is[i].to /\ i + 1 \notin labels
IfGoto(i, invert, to) == << IfThen(fmt_atom(i, invert), GotoLabel(to), << >>) >>
NotFlat(is, mt, i, c, s) ==
    IF ~ c.or /\ JumpsOver(is, i, s.labels)
    THEN Wrote(is[i].to, s, IfGoto(is[i], TRUE, is[i + 1].to))
    ELSE Structured(is, mt, i, c, body_last(c.body, c.fail),
                    IF c.or THEN WithoutTerms(is, i, c.body, s) ELSE s)
emit_conditional(is, mt, i, s) ==
    IF mt[i] = "FLAT" THEN Wrote(i + 1, s, IfGoto(is[i], FALSE, is[i].to))
    ELSE NotFlat(is, mt, i, emit_condition(is, i, s.labels), s)

PutLabel(ip, s) ==
    IF ip \in s.labels \ s.emitted
    THEN [Put(s, << [k |-> "label", to |-> label(ip)] >>) EXCEPT !.emitted = @ \cup {ip}] ELSE s
\* The RETURN at the end is the one the compiler adds.
Bare(is, ip, labels) == is[ip].op = "RETURN" /\ ip = Len(is) /\ ip + 1 \notin labels
emit_instruction(is, mt, ip, s) ==
    IF is_conditional(is[ip]) THEN emit_conditional(is, mt, ip, s)
    ELSE Wrote(ip + 1, s, IF Bare(is, ip, s.labels) THEN << >> ELSE << emit_verb(is[ip]) >>)
Rest(is, mt, end, r) == emit_block(is, mt, r.next, end, r.s)
emit_block(is, mt, ip, end, s) ==
    IF ip >= end \/ ip \notin DOMAIN is THEN s
    ELSE Rest(is, mt, end, emit_instruction(is, mt, ip, PutLabel(ip, s)))

emit_structured_proc(is, mt) ==
    emit_block(is, mt, 1, Len(is) + 1,
               [out |-> << >>, emitted |-> {},
                labels |-> {is[i].to : i \in DOMAIN is} \cap DOMAIN is]).out

-----------------------------------------------------------------------------
(* The search for modes (emit_verified, try_mode), in a program of one     *)
(* procedure and without a limit of tries, which Verify has.               *)

RECURSIVE Within(_, _)
\* The statements of a kind, those inside others included.
Within(ss, kinds) ==
    UNION {(IF ss[i].k \in kinds THEN {ss[i]} ELSE {})
             \cup (IF ss[i].k \in {"do", "while"} THEN Within(ss[i].body, kinds) ELSE {})
             \cup (IF ss[i].k = "if" THEN Within(ss[i].then \o ss[i].else, kinds) ELSE {})
           : i \in DOMAIN ss}

\* The compiler takes a text when it knows the verbs and every label.
Accepted(text) ==
    /\ Within(text, {"unknown"}) = {}
    /\ {s.to : s \in Within(text, {"goto"})} \subseteq {s.to : s \in Within(text, {"label"})}

Compiled(text) == gen_proc(text, FALSE, Null)

Judge(is, text) ==
    IF ~ Accepted(text) THEN "fails" ELSE IF Bytecode(Compiled(text)) = is THEN "same" ELSE "other"
try_mode(is, mt) == Judge(is, emit_structured_proc(is, mt))

\* A try << j, from, m >>: mode m for the jump j, where it has the mode from,
\* taken back when the text is not accepted.
Judged(s, mt, result) ==
    IF result = "fails" THEN [s EXCEPT !.result = "other"] ELSE [mt |-> mt, result |-> result]
TryMode(is, s, mt) == Judged(s, mt, try_mode(is, mt))
Ratchet(is, s, try) ==
    IF s.result = "same" \/ s.mt[try[1]] # try[2] THEN s
    ELSE TryMode(is, s, [s.mt EXCEPT ![try[1]] = try[3]])

Tries(cjs) == [n \in DOMAIN cjs |-> << cjs[n], "FULL", "NO_ELSE" >>]
                 \o [n \in DOMAIN cjs |-> << cjs[n], "NO_ELSE", "FLAT" >>]
Conditionals(is) == SelectSeq([i \in DOMAIN is |-> i], LAMBDA i : is_conditional(is[i]))
Search(is, first) ==
    IF first.result # "other" THEN first
    ELSE FoldLeft(LAMBDA s, try : Ratchet(is, s, try), first, Tries(Conditionals(is)))
AllIn(is, m) == [i \in DOMAIN is |-> m]
emit_verified(is) ==
    Search(is, [mt |-> AllIn(is, "FULL"), result |-> try_mode(is, AllIn(is, "FULL"))])

-----------------------------------------------------------------------------
\* The code of a program is run beside the program itself, or beside what the
\* decompiler makes of it: the text the search has found to give the same
\* code, and the one that has a jump for every jump.
Decompiled(is, s) ==
    /\ found = s.result
    /\ \E flat \in BOOLEAN :
          /\ flat \/ s.result = "same"
          /\ program = emit_structured_proc(is, IF flat THEN AllIn(is, "FLAT") ELSE s.mt)
Decompile(is) == Decompiled(is, emit_verified(is))
DInit ==
    /\ original \in Programs
    /\ code = Compiled(original)
    /\ Decompile(Bytecode(code))
    /\ cont = program /\ pc = 1 /\ done = FALSE

SInit == DInit \/ (Init /\ original = << >> /\ found = "same")
SNext == Next /\ UNCHANGED recovery
SSpec == SInit /\ [][SNext]_<< vars, recovery >>
           /\ WF_vars(SourceStep /\ UNCHANGED recovery) /\ WF_vars(CodeStep /\ UNCHANGED recovery)

-----------------------------------------------------------------------------
RECURSIVE Unmixed(_, _)
Unmixed(c, kind) == c.k = "cmp" \/ (c.k = kind /\ Unmixed(c.l, kind) /\ Unmixed(c.r, kind))

\* Whatever the IFs, WHILEs and GOTOs of a program are: when none of its
\* conditions has an AND and an OR, the search finds a text the compiler makes
\* the same code of.  (emit_condition, emit_block, emit_verified)
Recovers ==
    (\A s \in Within(original, {"if", "while"}) : Unmixed(s.c, "and") \/ Unmixed(s.c, "or"))
        => found = "same"
=============================================================================
