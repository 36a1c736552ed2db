------------------------------- MODULE Parser -------------------------------
(***************************************************************************)
(* What the parser makes of a text: the scanner lexer/tbol.l with the      *)
(* events and the DEFINEs of lexer/preproc.c, and the grammar              *)
(* parser/tbol.y with its locations and its recovery from errors.          *)
(*                                                                         *)
(* A text is the files of a program by their names: each a sequence of     *)
(* lines, each a sequence of words.  A word is as wide as any other and    *)
(* one blank follows it, so that a column stands for a word: what this     *)
(* module is about is where things are said to be.  Lines and columns are  *)
(* counted from 1, as the compiler does.                                   *)
(*                                                                         *)
(* A DEFINE has for its value one word and is not within a statement the   *)
(* parser gives up; the depth of COPY and the buffers are in Preproc.      *)
(***************************************************************************)
EXTENDS Integers, SequencesExt, TLC

CONSTANTS
    Main,       \* the name of the source among the files of a text
    Literals,   \* the words that are numbers
    Registers   \* I1 .. I8, D1 .. D8, P0 .. P8, and what is written like them

Width == 2

-----------------------------------------------------------------------------
(* The verbs and how many operands each takes, as verb_stmt lists them.    *)

NoOperand == [v \in {"DISCONNECT", "PURGE_CACHE", "REFRESH", "WAIT"} |-> {0}]

OptionalOperand ==
    [v \in {"RETURN", "EXIT", "CLOSE_WINDOW", "ERASE", "SET_CURSOR", "KILL",
            "CANCEL", "START", "STOP"} |-> {0, 1}]
    @@ ("OPEN_ERROR_WINDOW" :> {0, 1, 2}) @@ ("SOUND" :> {0, 2})

OneOperand ==
    [v \in {"CLOSE", "CONNECT", "OPEN_WINDOW", "POP", "PUSH", "RELEASE",
            "UPPERCASE", "ERROR", "TRIGGER_FUNCTION", "DELETE"} |-> {1}]
    @@ [v \in {"CLEAR", "NAVIGATE", "FETCH"} |-> {1, 2}]

TwoOperands ==
    [v \in {"ADD", "AND", "LENGTH", "MOVE", "MULTIPLY", "NOTE", "OPEN", "OR",
            "POINT", "RECEIVE", "SET_ATTRIBUTE", "SUBTRACT", "SWAP", "TEST",
            "XOR"} |-> {2}]
    @@ [v \in {"READ", "WRITE"} |-> {2, 3}] @@ ("SEND" :> {1, 2})

ThreeOperands ==
    [v \in {"SAVE", "DIVIDE"} |-> {2, 3}] @@ ("RESTORE" :> {2})
    @@ [v \in {"FILL", "INSTR", "FORMAT", "SORT", "SET_KEY"} |-> {3}]

ManyOperands ==
    ("SUBSTR" :> {4}) @@ ("SET_FUNCTION" :> 2 .. 4) @@ ("LOOKUP" :> {5})
    @@ ("DEFINE_FIELD" :> {6, 7}) @@ ("EDIT" :> Nat \ 0 .. 2)
    @@ [v \in {"STRING", "LINK", "TRANSFER"} |-> Nat \ {0}]

\* MAKE_FORMAT has operands of another form, GOTO and GOTO_DEPENDING_ON labels.
Operands ==
    NoOperand @@ OptionalOperand @@ OneOperand @@ TwoOperands @@ ThreeOperands
    @@ ManyOperands

Punctuation == {";", ",", "(", ")", ":"}
Comparisons == {"=", "<>", "<", ">", "<=", ">="}
Reserved ==
    {"PROGRAM", "DATA", "DEFINE", "PROC", "END_PROC", "IF", "THEN", "ELSE", "DO",
     "END", "WHILE", "GOTO", "GOTO_DEPENDING_ON", "AND", "OR", "MAKE_FORMAT", "ABS",
     "TIMEOUT", "PRIORITY", "OPT_HDRS"}
Directions == {"FIRST", "NEXT", "BACK", "LAST"}

IsName(w) == w \notin Punctuation \cup Comparisons \cup Literals

\* The kind of token a word is when it is not DEFINEd.
Kind(w) ==
    IF w \in Punctuation \cup Comparisons \cup Reserved \cup Directions
             \cup DOMAIN Operands
    THEN w
    ELSE IF w \in Literals THEN "LIT" ELSE IF w \in Registers THEN "REG" ELSE "IDENT"

-----------------------------------------------------------------------------
(* The scanner.  Its state: the files being read, innermost last, with     *)
(* what is left of each and the place to return to; the place; the start   *)
(* condition; what is DEFINEd; what this token has expanded; the tokens    *)
(* and the events so far.                                                  *)

\* The words of a file with the ends of its lines.
Words(lines) == FlattenSeq([i \in DOMAIN lines |-> Append(lines[i], "NL")])

Open(f, text) == [file |-> f, rest |-> Words(text[f]), line |-> 0, column |-> 0]

Start(text) ==
    [open |-> << Open(Main, text) >>, line |-> 1, column |-> 1, cond |-> "INITIAL",
     copy |-> [line |-> 0, column |-> 0, name |-> ""],
     defines |-> [n \in {} |-> << >>], expanding |-> {},
     tokens |-> << >>, events |-> << >>]

File(s) == Last(s.open).file
Rest(s, r) == [s EXCEPT !.open[Len(s.open)].rest = r]
\* Past a word and the blank behind it.
Past(s) == [Rest(s, Tail(Last(s.open).rest)) EXCEPT !.column = @ + Width + 1]

\* preproc_add_define: a line of a COPY file is counted on from the line of
\* the COPY, and is stored as it is within the file.
AddDefine(s, name, value, at) ==
    LET d == Len(s.open)
        l == IF d > 1 THEN at.line - s.open[d - 1].line + 1 ELSE at.line
    IN  [s EXCEPT !.defines = (name :> [value |-> value, file |-> File(s),
                                        line |-> IF l < 1 THEN 1 ELSE l, column |-> at.first])
                              @@ @]

\* define_stmt is reduced when its ";" has been read, before anything behind it.
Reduce(s) ==
    LET n == Len(s.tokens) IN
    IF /\ n >= 5 /\ s.tokens[n].kind = ";" /\ s.tokens[n - 4].kind = "DEFINE"
       /\ s.tokens[n - 2].kind = ","
    THEN AddDefine(s, s.tokens[n - 3].word, s.tokens[n - 1].word, s.tokens[n - 4])
    ELSE s

\* A token for the parser; after each, preproc_clear_expansions.
Deliver(s, kind, w) ==
    Reduce([Past(s) EXCEPT
        !.expanding = {},
        !.tokens = Append(@, [kind |-> kind, word |-> w, file |-> File(s), line |-> s.line,
                              first |-> s.column, last |-> s.column + Width - 1,
                              events |-> Len(s.events)])])

\* handle_identifier: the value of a DEFINE is put back into the input, behind
\* the name it stands for.
Identifier(s, w) ==
    IF w \in DOMAIN s.defines
    THEN IF w \in s.expanding
         THEN Deliver(s, "IDENT", w)
         ELSE LET d == s.defines[w] IN
              [Rest(s, << d.value >> \o Tail(Last(s.open).rest)) EXCEPT
                 !.column = @ + Width,
                 !.expanding = @ \cup {w},
                 !.events = Append(@, [kind |-> "DEFINE_REF", file |-> File(s), line |-> s.line,
                                       first |-> s.column, last |-> s.column + Width - 1,
                                       name |-> w, def |-> d])]
    ELSE Deliver(s, Kind(w), w)

\* preproc_push_file: the line and the column go on within the file.
PushFile(s, text) ==
    LET f == s.copy.name
        p == [Past(s) EXCEPT !.cond = "INITIAL"]
        here == [Last(p.open) EXCEPT !.line = p.line, !.column = p.column - 1]
    IN  IF f \notin DOMAIN text \/ \E i \in 1 .. Len(s.open) - 1 : s.open[i].file = f
        THEN p
        ELSE [p EXCEPT
                !.column = here.column,
                !.open = Front(@) \o << here, Open(f, text) >>,
                !.events = Append(@, [kind |-> "COPY", file |-> File(s), line |-> s.copy.line,
                                      first |-> s.copy.column,
                                      last |-> s.copy.column + Width + 1 + Width,
                                      name |-> f, def |-> << >>])]

\* preproc_pop_file: the line and the column are those behind the COPY.
PopFile(s) ==
    LET o == Front(s.open) IN
    [s EXCEPT !.open = o, !.line = Last(o).line, !.column = Last(o).column + 1]

\* "expected filename", "expected ';'", "expected identifier": yyless(0) has
\* the word read again, behind where it was.
Again(s) == [s EXCEPT !.cond = "INITIAL", !.column = @ + Width]

\* One rule of tbol.l.
Rule(s, text) ==
    LET w == Head(Last(s.open).rest) IN
    IF w = "NL" THEN [Rest(s, Tail(Last(s.open).rest)) EXCEPT !.line = @ + 1, !.column = 1]
    ELSE CASE s.cond = "INITIAL" ->
                IF w = "COPY"
                THEN [Past(s) EXCEPT !.cond = "COPY_STATE",
                                     !.copy = [line |-> s.line, column |-> s.column, name |-> ""]]
                ELSE IF w = "DEFINE"
                     THEN [Deliver(s, "DEFINE", w) EXCEPT !.cond = "DEFINE_NAME"]
                     ELSE IF Kind(w) \in {"IDENT"} \cup Directions THEN Identifier(s, w)
                          ELSE Deliver(s, Kind(w), w)
           [] s.cond = "COPY_STATE" ->
                IF IsName(w) THEN [Past(s) EXCEPT !.cond = "COPY_SEMI", !.copy.name = w]
                ELSE Again(s)
           [] s.cond = "COPY_SEMI" -> IF w = ";" THEN PushFile(s, text) ELSE Again(s)
           [] s.cond = "DEFINE_NAME" ->
                IF IsName(w) THEN [Deliver(s, "IDENT", w) EXCEPT !.cond = "INITIAL"]
                ELSE Again(s)

RECURSIVE Scan(_, _)
Scan(s, text) ==
    IF Last(s.open).rest # << >> THEN Scan(Rule(s, text), text)
    ELSE IF Len(s.open) > 1 THEN Scan(PopFile(s), text)
         ELSE s

-----------------------------------------------------------------------------
(* The tree.  A node has where it begins, where it is said to end, and the *)
(* nodes below it; a node that is not given an end ends where it begins.   *)

Node(kind, name, tok, last, below) ==
    [kind |-> kind, name |-> name, file |-> tok.file,
     first |-> << tok.line, tok.first >>, last |-> last, nodes |-> below]

StartOf(tok) == << tok.line, tok.first >>
EndOf(tok) == << tok.line, tok.last >>

\* ast_new gives a node no other end than its beginning.
Point(kind, name, tok, below) == Node(kind, name, tok, StartOf(tok), below)

\* What a rule makes of the tokens from some place on: the nodes and the place
\* behind, or that the token at that place cannot be.  Place 0: given up.
Got(nodes, j) == [ok |-> TRUE, nodes |-> nodes, at |-> j]
Fail(j) == [ok |-> FALSE, nodes |-> << >>, at |-> j]
From(i) == Got(<< >>, i)

At(t, i) == IF i <= Len(t) THEN t[i].kind ELSE "EOF"

\* Behind r another rule; behind r a token, which leaves no node; one node made
\* of r.
Both(r, s) == IF s.ok THEN Got(r.nodes \o s.nodes, s.at) ELSE s
Then(r, P(_)) == IF r.ok THEN Both(r, P(r.at)) ELSE r
Token(t, r, kinds) ==
    IF ~ r.ok THEN r ELSE IF At(t, r.at) \in kinds THEN Got(r.nodes, r.at + 1) ELSE Fail(r.at)
Tokens(t, i, each) == FoldLeft(LAMBDA r, k : Token(t, r, {k}), From(i), each)
Make(r, N(_)) == IF r.ok THEN Got(<< N(r) >>, r.at) ELSE r

\* error ';': what there is of a sentence is popped, the tokens from the wrong
\* one up to the next ";" are discarded.
Recover(t, i, r) ==
    LET ends == {j \in r.at .. Len(t) : t[j].kind = ";"} IN
    IF r.ok \/ r.at = 0 THEN r
    ELSE IF ends = {} THEN Fail(0)
    ELSE Got(<< Point("ERROR", "", t[i], << >>) >>, 1 + CHOOSE j \in ends : \A k \in ends : j <= k)

-----------------------------------------------------------------------------
(* Operands and conditions.                                                *)

StartsExpr(k) == k \in {"LIT", "REG", "IDENT"}

RECURSIVE Expr(_, _)
Expr(t, i) ==
    LET base == Node(t[i].kind, t[i].word, t[i], EndOf(t[i]), << >>) IN
    IF ~ StartsExpr(At(t, i)) THEN Fail(i)
    ELSE IF t[i].kind = "LIT" \/ At(t, i + 1) # "(" THEN Got(<< base >>, i + 1)
    ELSE Make(Token(t, Then(Got(<< base >>, i + 2), LAMBDA j : Expr(t, j)), {")"}),
              LAMBDA r : Node("INDEXED", "", t[i], EndOf(t[r.at - 1]), r.nodes))

\* Operands, counts of which are good.
RECURSIVE ExprList(_, _, _)
ExprListTail(t, e, counts) ==
    IF ~ e.ok THEN e
    ELSE IF At(t, e.at) = "," /\ \E c \in Len(e.nodes) + 1 .. Len(e.nodes) + 7 : c \in counts
    THEN ExprList(t, Got(e.nodes, e.at + 1), counts)
    ELSE IF Len(e.nodes) \in counts THEN e ELSE Fail(e.at)
ExprList(t, r, counts) == ExprListTail(t, Then(r, LAMBDA j : Expr(t, j)), counts)

Arguments(t, i, counts) ==
    IF StartsExpr(At(t, i)) \/ 0 \notin counts THEN ExprList(t, From(i), counts) ELSE From(i)

\* A condition is an OR of terms, a term an AND of factors; the node of each
\* begins at its operator.
RECURSIVE Factor(_, _), Term(_, _, _), Links(_, _, _)
Compare(t, left) ==
    Make(Then(Token(t, left, Comparisons), LAMBDA j : Expr(t, j)),
         LAMBDA r : Point("COMPARE", "", t[left.at], r.nodes))
Factor(t, i) ==
    IF At(t, i) = "(" THEN Token(t, Links(t, Term(t, i + 1, "OR"), "OR"), {")"})
    ELSE Compare(t, Expr(t, i))

Term(t, i, op) ==
    IF op = "OR" THEN Links(t, Term(t, i, "AND"), "AND") ELSE Factor(t, i)

Links(t, c, op) ==
    IF ~ c.ok \/ At(t, c.at) # op THEN c
    ELSE Links(t, Make(Then(Got(c.nodes, c.at + 1), LAMBDA j : Term(t, j, op)),
                       LAMBDA r : Point("LOGIC", "", t[c.at], r.nodes)), op)

Condition(t, i) == Links(t, Term(t, i, "OR"), "OR")

-----------------------------------------------------------------------------
(* Statements.                                                             *)

IsLabelName(k) == k \in {"IDENT", "ABS"} \cup (DOMAIN Operands \ {"AND", "OR"})

Verb(t, i, name, counts) ==
    Make(Arguments(t, i + 1, counts), LAMBDA r : Point("VERB_STMT", name, t[i], r.nodes))

\* MOVE a, b, ABS and NAVIGATE FIRST are verbs of their own.
Abs(t, r) ==
    IF ~ r.ok \/ At(t, r.at) # "," THEN r
    ELSE Token(t, Got(<< [r.nodes[1] EXCEPT !.name = "MOVE_ABS"] >>, r.at + 1), {"ABS"})
Move(t, i) == Abs(t, Verb(t, i, "MOVE", {2}))

Navigate(t, i) ==
    IF At(t, i + 1) \in Directions
    THEN Got(<< Point("VERB_STMT", "NAVIGATE_" \o t[i + 1].kind, t[i], << >>) >>, i + 2)
    ELSE Verb(t, i, "NAVIGATE", {1, 2})

\* SEND's modifiers, in any order: of several times the first, of the rest all.
IsModifier(k) == k \in {"TIMEOUT", "PRIORITY", "OPT_HDRS"}
RECURSIVE Modifiers(_, _)
ModifiersTail(t, m) ==
    IF m.ok /\ At(t, m.at) = "," THEN Modifiers(t, m.at + 1) ELSE m
Modifiers(t, i) ==
    ModifiersTail(t, IF At(t, i) \in {"PRIORITY", "OPT_HDRS"} THEN From(i + 1)
                     ELSE Tokens(t, i, << "TIMEOUT", "(", "LIT", ")" >>))
Modified(t, r) ==
    IF r.ok /\ At(t, r.at) = "," THEN Then(Got(r.nodes, r.at + 1), LAMBDA j : Modifiers(t, j)) ELSE r

SendTail(t, i, one) ==
    IF one.ok /\ At(t, one.at) = "," /\ IsModifier(At(t, one.at + 1)) THEN Modified(t, one)
    ELSE Modified(t, Verb(t, i, "SEND", {1, 2}))
Send(t, i) == SendTail(t, i, Verb(t, i, "SEND", {1}))

GotoLabel(t, i) ==
    IF IsLabelName(At(t, i + 1))
    THEN Got(<< Node("GOTO", t[i + 1].word, t[i], EndOf(t[i + 1]), << >>) >>, i + 2)
    ELSE Fail(i + 1)

\* The labels of a GOTO_DEPENDING_ON are identifiers without an end.
RECURSIVE LabelList(_, _)
LabelList(t, r) ==
    LET nodes == Append(r.nodes, Point("IDENT", t[r.at].word, t[r.at], << >>)) IN
    IF ~ IsLabelName(At(t, r.at)) THEN Fail(r.at)
    ELSE IF At(t, r.at + 1) = "," THEN LabelList(t, Got(nodes, r.at + 2)) ELSE Got(nodes, r.at + 1)

GotoDependingOn(t, i) ==
    Make(Then(Token(t, Expr(t, i + 1), {","}), LAMBDA j : LabelList(t, From(j))),
         LAMBDA r : Point("GOTO_DEPENDING_ON", "", t[i], r.nodes))

\* target:length, target::length or target:length:length.
FormatSpec(t, i, e) ==
    LET two == At(t, e.at + 1) = "LIT" /\ At(t, e.at + 2) = ":"
        form == IF two THEN << ":", "LIT", ":", "LIT" >>
                ELSE IF At(t, e.at + 1) = ":" THEN << ":", ":", "LIT" >> ELSE << ":", "LIT" >>
    IN  Make(Then(e, LAMBDA j : Tokens(t, j, form)), LAMBDA r : Point("FORMAT_SPEC", "", t[i], r.nodes))

RECURSIVE FormatSpecs(_, _)
FormatSpecsTail(t, f) ==
    IF f.ok /\ At(t, f.at) = "," THEN Then(Got(f.nodes, f.at + 1), LAMBDA j : FormatSpecs(t, j)) ELSE f
FormatSpecs(t, i) == FormatSpecsTail(t, FormatSpec(t, i, Expr(t, i)))

MakeFormat(t, i) ==
    Make(Then(Token(t, Expr(t, i + 1), {","}), LAMBDA j : FormatSpecs(t, j)),
         LAMBDA r : Point("VERB_STMT", "MAKE_FORMAT", t[i], r.nodes))

ProcCall(t, i) ==
    Make(Arguments(t, i + 1, Nat),
         LAMBDA r : Node("PROC_CALL", t[i].word, t[i], EndOf(t[r.at - 1]), r.nodes))

SimpleStmt(t, i) ==
    LET k == At(t, i) IN
    IF k = "IDENT" THEN ProcCall(t, i)
    ELSE IF k = "GOTO" THEN GotoLabel(t, i)
    ELSE IF k = "GOTO_DEPENDING_ON" THEN GotoDependingOn(t, i)
    ELSE IF k = "MAKE_FORMAT" THEN MakeFormat(t, i)
    ELSE IF k = "MOVE" THEN Move(t, i)
    ELSE IF k = "NAVIGATE" THEN Navigate(t, i)
    ELSE IF k = "SEND" THEN Send(t, i)
    ELSE IF k \in DOMAIN Operands THEN Verb(t, i, k, Operands[k])
    ELSE Fail(i)

\* define_stmt and define_in_proc: said to end where its ";" begins.  The node
\* of the value is freed.
Define(t, i) ==
    Make(Token(t, Then(Tokens(t, i, << "DEFINE", "IDENT", "," >>), LAMBDA j : Expr(t, j)), {";"}),
         LAMBDA r : Node("DEFINE", t[i + 1].word, t[i], StartOf(t[r.at - 1]), << >>))

\* A body that cannot begin with its first token is given up as a whole: all up
\* to what closes it is one error, and what it belongs to is given no end.
Begins(k) ==
    k \in {"IDENT", ";", "IF", "WHILE", "DEFINE", "GOTO", "GOTO_DEPENDING_ON", "MAKE_FORMAT", "ABS"}
         \cup DOMAIN Operands
Closes(t, i, closer) ==
    At(t, i) = closer /\ (closer = "END" => At(t, i + 1) = ";")
GiveUp(t, i, closer) ==
    LET ends == {j \in i .. Len(t) : Closes(t, j, closer)} IN
    IF ends = {} THEN Fail(0)
    ELSE Got(<< Point("ERROR", "", t[i], << >>) >>, CHOOSE j \in ends : \A k \in ends : j <= k)

\* Where the body at i makes what begins at start end.
BodyEnd(t, i, start, end) == StartOf(t[IF Begins(At(t, i)) THEN end ELSE start])

RECURSIVE Statement(_, _), StmtList(_, _, _, _, _)
StmtBody(t, i, closer) ==
    IF Begins(At(t, i)) THEN StmtList(t, i, closer, FALSE, << >>) ELSE GiveUp(t, i, closer)

DoBlock(t, i) ==
    Make(Token(t, Token(t, StmtBody(t, i + 1, "END"), {"END"}), {";"}),
         LAMBDA s : Node("DO_BLOCK", "", t[i], BodyEnd(t, i + 1, i, s.at - 1), s.nodes))

Body(t, i) == IF At(t, i) = "DO" THEN DoBlock(t, i) ELSE Statement(t, i)

\* IF and WHILE are said to end where their last body begins; a body that is
\* an empty statement leaves no node.
Otherwise(t, i, kind, c, b) ==
    IF b.ok /\ kind = "IF_STMT" /\ At(t, b.at) = "ELSE"
    THEN Make(Then(Got(b.nodes, b.at + 1), LAMBDA j : Body(t, j)),
              LAMBDA r : Node(kind, "", t[i], StartOf(t[b.at + 1]), r.nodes))
    ELSE Make(b, LAMBDA r : Node(kind, "", t[i], StartOf(t[c.at]), r.nodes))
WithBody(t, i, kind, c) == Otherwise(t, i, kind, c, Then(c, LAMBDA j : Body(t, j)))
Guarded(t, i, kind) == WithBody(t, i, kind, Token(t, Condition(t, i + 1), {"THEN"}))

\* A simple statement is given the end of its last token.
Ended(t, r) ==
    Make(Token(t, r, {";"}), LAMBDA e : [e.nodes[1] EXCEPT !.last = EndOf(t[e.at - 2])])

Statement(t, i) ==
    LET k == At(t, i) IN
    Recover(t, i, IF k = ";" THEN From(i + 1)
                  ELSE IF k = "IF" THEN Guarded(t, i, "IF_STMT")
                  ELSE IF k = "WHILE" THEN Guarded(t, i, "WHILE_STMT")
                  ELSE IF k = "DEFINE" THEN Define(t, i)
                  ELSE Ended(t, SimpleStmt(t, i)))

\* Statements and labels up to what closes them, END or END_PROC; the first
\* that is not a label must be a statement.
StmtListTail(t, s, closer) ==
    IF s.ok THEN StmtList(t, s.at, closer, TRUE, s.nodes) ELSE s
StmtList(t, i, closer, begun, before) ==
    IF begun /\ Closes(t, i, closer) THEN Got(before, i)
    ELSE IF IsLabelName(At(t, i)) /\ At(t, i + 1) = ":"
    THEN StmtList(t, i + 2, closer, begun,
                  Append(before, Node("LABEL", t[i].word, t[i], EndOf(t[i + 1]), << >>)))
    ELSE StmtListTail(t, Then(Got(before, i), LAMBDA j : Statement(t, j)), closer)

-----------------------------------------------------------------------------
(* The program.                                                            *)

VarDecl(t, i) ==
    Make(IF At(t, i + 1) = "(" THEN Tokens(t, i, << "IDENT", "(", "LIT", ")" >>)
         ELSE Tokens(t, i, << "IDENT" >>),
         LAMBDA r : Node("VAR_DECL", t[i].word, t[i], EndOf(t[r.at - 1]), << >>))
RECURSIVE VarDecls(_, _)
VarDeclsTail(t, v) ==
    IF v.ok /\ At(t, v.at) = "," THEN Then(Got(v.nodes, v.at + 1), LAMBDA j : VarDecls(t, j)) ELSE v
VarDecls(t, i) == VarDeclsTail(t, VarDecl(t, i))

\* DATA name = variables; and, without DATA, one more group.
DataSection(t, i) ==
    LET n == IF At(t, i) = "DATA" THEN i + 1 ELSE i IN
    Make(Token(t, Then(Tokens(t, n, << "IDENT", "=" >>), LAMBDA j : VarDecls(t, j)), {";"}),
         LAMBDA r : Node("DATA_SECTION", t[n].word, t[i], StartOf(t[r.at - 1]), r.nodes))

ProcHead(t, i) == Tokens(t, i, << "PROC", "IDENT", "=" >>)

Definition(t, i) ==
    Recover(t, i, IF At(t, i) \in {"DATA", "IDENT"} THEN DataSection(t, i)
                  ELSE IF At(t, i) = "DEFINE" THEN Define(t, i) ELSE ProcHead(t, i))

RECURSIVE Definitions(_, _)
Definitions(t, r) ==
    IF ~ r.ok \/ ProcHead(t, r.at).ok THEN r
    ELSE Definitions(t, Then(r, LAMBDA j : Definition(t, j)))

Proc(t, i) ==
    Make(Token(t, StmtBody(t, i + 3, "END_PROC"), {"END_PROC"}),
         LAMBDA s : Node("PROC", t[i + 1].word, t[i], BodyEnd(t, i + 3, i, s.at - 1), s.nodes))

\* Something else between procedures is discarded and leaves no node.
Between(r) == [r EXCEPT !.nodes = << >>]

RECURSIVE ProcList(_, _)
ProcList(t, r) ==
    IF ~ r.ok \/ At(t, r.at) = "EOF" THEN r
    ELSE ProcList(t, Then(r, LAMBDA j : IF ProcHead(t, j).ok THEN Proc(t, j)
                                        ELSE Between(Recover(t, j, ProcHead(t, j)))))

\* A program is said to end where its first procedure begins; one with an
\* error before the first ";" is called <error> and has no end.
WithProcs(t, d) == Then(d, LAMBDA j : ProcList(t, From(j)))
Title(t) == Tokens(t, 2, << "IDENT", ";" >>)
FirstProc(nodes) == nodes[SelectInSeq(nodes, LAMBDA n : n.kind = "PROC")].first
Program(t) ==
    IF At(t, 1) # "PROGRAM" THEN Fail(0)
    ELSE Make(WithProcs(t, Definitions(t, Between(Recover(t, 1, Title(t))))),
              LAMBDA r : IF Title(t).ok
                         THEN Node("PROGRAM", t[2].word, t[1], FirstProc(r.nodes), r.nodes)
                         ELSE Point("PROGRAM", "<error>", t[1], r.nodes))

\* A tree as a list of its nodes, each before those below it.
RECURSIVE Nodes(_)
Nodes(n) == << n >> \o FlattenSeq([i \in DOMAIN n.nodes |-> Nodes(n.nodes[i])])

\* tbol_parse_string: the tree, none when the parser gives up, and the events.
\* A first token that is not PROGRAM ends the parse at once.
Parse(text) ==
    LET s == Scan(Start(text), text)
        p == Program(s.tokens)
        seen == IF s.tokens = << >> \/ s.tokens[1].kind = "PROGRAM" THEN Len(s.events)
                ELSE s.tokens[1].events
    IN  [nodes |-> IF p.ok THEN Nodes(p.nodes[1]) ELSE << >>,
         events |-> SubSeq(s.events, 1, seen)]
=============================================================================
