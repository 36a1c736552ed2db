------------------------------ MODULE Queries ------------------------------
(***************************************************************************)
(* What the language server answers about one program: the requests of     *)
(* lsp/handlers.c that read the tree and the events of the last parse, and *)
(* the hints of lsp/document.c.                                            *)
(*                                                                         *)
(* The files of the text are all open, and every document has the result   *)
(* of the parse of the source with the texts of the editor: which document *)
(* is parsed when is in LspDocs.  Lines and columns are counted from 1 here *)
(* and in the tree, from 0 in the protocol.  The tree has the lines of a   *)
(* COPY file as if they stood in the source, from the line of the COPY on. *)
(* The wording of an answer is left out.                                   *)
(***************************************************************************)
EXTENDS Parser, FiniteSets

CONSTANTS
    Texts,                                      \* the texts of the program
    Variables, Procedures, Labels, Defines      \* what the names in them name

VARIABLES
    text,   \* the files the editor shows, none before they are opened
    ast,    \* the nodes of the tree, each before those below it
    stale,  \* history: the tree is not that of the text
    events, \* of the last parse
    answer  \* to the request being answered

vars == << text, ast, stale, events, answer >>

Parsed == [t \in Texts |-> Parse(t)]

Nothing == [request |-> "none", document |-> Main, at |-> << 1, 1 >>, result |-> << >>]
Init ==
    /\ text = << >> /\ ast = << >> /\ stale = FALSE /\ events = << >>
    /\ answer = Nothing

Document(d) == text[d]
WordsOf(d, l) == Document(d)[l]

-----------------------------------------------------------------------------
(* Lines, positions and nodes.                                             *)

AtMost(p, q) == p[1] < q[1] \/ (p[1] = q[1] /\ p[2] <= q[2])
Larger(a, b) == IF a >= b THEN a ELSE b

\* find_copy_line: the line of the first COPY of the file, 0 if there is none.
CopyLine(f) ==
    LET i == SelectInSeq(events, LAMBDA e : e.kind = "COPY" /\ e.name = f) IN
    IF i = 0 THEN 0 ELSE events[i].line

\* With a fault: the line is that of the tree.
LocalAsIs(f, l) == l
\* transparent_to_copy_local: the line within the file of a line of the tree.
Local(f, l) == IF CopyLine(f) = 0 THEN l ELSE Larger(1, l - CopyLine(f) + 1)

\* lsp_to_ast_line, for a document and its context.
TreeLine(d, l) == IF d # Main /\ CopyLine(d) > 0 THEN l + CopyLine(d) - 1 ELSE l
TreeAt(d, p) == << TreeLine(d, p[1]), p[2] >>

\* position_in_range: the end belongs to the range.
InRange(p, n) == AtMost(n.first, p) /\ AtMost(p, n.last)

\* find_node_at_position: of the nodes of the file around a place that of the
\* fewest lines, of these that of the fewest columns, of these the first.
\* None or one.
NodeAt(d, p) ==
    LET around == {i \in DOMAIN ast : ast[i].file = d /\ InRange(p, ast[i])}
        Size(i) == << ast[i].last[1] - ast[i].first[1], ast[i].last[2] - ast[i].first[2] >>
        best == {i \in around : \A j \in around \ {i} :
                                  AtMost(Size(i), Size(j)) /\ (Size(i) = Size(j) => i < j)}
    IN  IF around = {} THEN << >> ELSE << ast[CHOOSE i \in best : TRUE] >>


\* get_identifier_at_node.
HasName(n) ==
    n.kind \in {"IDENT", "VAR_DECL", "PROC", "PROC_CALL", "LABEL", "DEFINE", "PROGRAM", "GOTO"}

\* The first of a sequence, if there is one.
FirstOf(s) == SubSeq(s, 1, IF s = << >> THEN 0 ELSE 1)

\* preproc_event_find_at.
EventAt(d, p) ==
    FirstOf(SelectSeq(events, LAMBDA e : /\ e.file = d /\ e.line = p[1]
                                         /\ e.first <= p[2] /\ p[2] <= e.last))

\* find_definition: the first node of the kind with the name.
FindDefinition(name, kind) ==
    FirstOf(SelectSeq(ast, LAMBDA n : n.kind = kind /\ n.name = name))

Location(f, first, last) == [file |-> f, first |-> first, last |-> last]
\* Where a node stands in its own file.
Place(n) ==
    Location(n.file, << Local(n.file, n.first[1]), n.first[2] >>,
             << Local(n.file, n.last[1]), n.last[2] >>)

-----------------------------------------------------------------------------
(* hover, definition, references, prepareRename.                           *)

\* get_hover_info.
HoverInfo(n) ==
    IF n.kind \in {"PROGRAM", "DATA_SECTION", "VAR_DECL", "DEFINE", "PROC", "LABEL",
                   "VERB_STMT", "IDENT", "REG"}
    THEN << [kind |-> n.kind, name |-> n.name,
             from |-> IF n.kind \in {"VAR_DECL", "DEFINE"} THEN n.file ELSE ""] >>
    ELSE << >>

\* The event under the cursor comes first; those of the source alone are looked
\* at.
EventUnder(d, p) == IF d = Main THEN EventAt(d, p) ELSE << >>

Hover(d, p) ==
    LET e == EventUnder(d, p)
        n == NodeAt(d, TreeAt(d, p))
    IN  IF ast = << >> THEN << >>
        ELSE IF e # << >>
        THEN << [kind |-> e[1].kind, name |-> e[1].name,
                 from |-> IF e[1].kind = "COPY" THEN e[1].name ELSE e[1].def.file] >>
        ELSE IF n = << >> THEN << >> ELSE HoverInfo(n[1])

\* What a node is a reference to; another node stands for itself.
DefinitionOf(n) ==
    IF n.kind = "IDENT"
    THEN FirstOf(FindDefinition(n.name, "VAR_DECL") \o FindDefinition(n.name, "PROC")
                   \o FindDefinition(n.name, "LABEL") \o FindDefinition(n.name, "DEFINE"))
    ELSE IF n.kind = "PROC_CALL" THEN FindDefinition(n.name, "PROC")
    ELSE IF n.kind = "GOTO" THEN FindDefinition(n.name, "LABEL")
    ELSE IF HasName(n) THEN << n >> ELSE << >>

\* The line an event has of a DEFINE is that of its file already.
GotoDefinition(d, p) ==
    LET e == EventUnder(d, p)
        n == NodeAt(d, TreeAt(d, p))
        def == IF n = << >> THEN << >> ELSE DefinitionOf(n[1])
        Point1(f, at) == << Location(f, at, at) >>
    IN  IF ast = << >> THEN << >>
        ELSE IF e # << >> /\ e[1].kind = "COPY" THEN Point1(e[1].name, << 1, 1 >>)
        ELSE IF e # << >> THEN Point1(e[1].def.file, << e[1].def.line, e[1].def.column >>)
        ELSE [i \in DOMAIN def |-> Place(def[i])]

\* With a fault: a label a GOTO names is not one of its references.
RefersNoGoto(n, name) ==
    n.name = name /\ n.kind \in {"IDENT", "VAR_DECL", "PROC", "LABEL", "DEFINE", "PROC_CALL"}
Refers(n, name) ==
    n.name = name /\ n.kind \in {"IDENT", "VAR_DECL", "PROC", "LABEL", "DEFINE", "GOTO", "PROC_CALL"}

\* collect_references_ex, with the files whose nodes it keeps.
ReferencesIn(name, files) ==
    LET refs == SelectSeq(ast, LAMBDA n : Refers(n, name) /\ n.file \in files) IN
    [i \in DOMAIN refs |-> Place(refs[i])]

\* Of a COPY file its own and those of the source, of a source all.  What other
\* sources of the workspace have is in LspServer.
References(d, p) ==
    LET n == NodeAt(d, TreeAt(d, p)) IN
    IF n = << >> \/ ~ HasName(n[1]) THEN << >>
    ELSE IF d # Main THEN ReferencesIn(n[1].name, {d}) \o ReferencesIn(n[1].name, {Main})
    ELSE ReferencesIn(n[1].name, {m.file : m \in ToSet(ast)})

\* extract_word_at: the word around a column, 0 when it is a blank.
WordAt(d, p) ==
    LET k == (p[2] + Width) \div (Width + 1) IN
    IF p[2] % (Width + 1) # 0 /\ k <= Len(WordsOf(d, p[1])) THEN k ELSE 0
ColumnOf(k) == (Width + 1) * (k - 1) + 1

PrepareRename(d, p) ==
    LET k == WordAt(d, p)
        w == WordsOf(d, p[1])[k]
        at == << p[1], ColumnOf(k) >>
    IN  IF ast = << >> \/ k = 0 THEN << >>
        ELSE IF \/ w \in Punctuation \cup Comparisons
                \/ \A kind \in {"VAR_DECL", "PROC", "LABEL", "DEFINE"} : FindDefinition(w, kind) = << >>
        THEN << >>
        ELSE << Location(d, at, << at[1], at[2] + Width >>) >>

-----------------------------------------------------------------------------
(* completion, signatureHelp.                                              *)

\* The word before the one being typed: "" at the beginning of a line.
WordBefore(d, p) ==
    LET words == WordsOf(d, p[1])
        k == Min({p[2] - 1, (Width + 1) * Len(words)}) \div (Width + 1)
    IN  IF k = 0 THEN "" ELSE words[k]

\* A new name is being typed.
NamesSomething(w) == w \in {"PROC", "PROGRAM", "DEFINE", "COPY", "DATA"}

\* From the first DATA on and before the first PROC of the tree; the line is
\* that of the document, also in a COPY file.
InData(l) ==
    LET Firsts(kind) == FirstOf(SelectSeq(ast[1].nodes, LAMBDA n : n.kind = kind)) IN
    /\ ast # << >>
    /\ Firsts("DATA_SECTION") # << >> /\ l >= Firsts("DATA_SECTION")[1].first[1]
    /\ Firsts("PROC") = << >> \/ l < Firsts("PROC")[1].first[1]

\* collect_names_with_origin.
NamesOf(kind, d) ==
    LET nodes == SelectSeq(ast, LAMBDA n : n.kind = kind) IN
    [i \in DOMAIN nodes |->
        [kind |-> kind, name |-> nodes[i].name, from |-> IF nodes[i].file = d THEN "" ELSE nodes[i].file]]

\* Keywords, snippets, registers and constants are offered as one item.
Completion(d, p) ==
    IF NamesSomething(WordBefore(d, p)) \/ InData(p[1]) THEN << >>
    ELSE << [kind |-> "FIXED", name |-> "", from |-> ""] >>
         \o NamesOf("VAR_DECL", d) \o NamesOf("PROC", d) \o NamesOf("LABEL", d) \o NamesOf("DEFINE", d)

\* verb_signatures: how many parameters it shows; an optional or repeated one
\* counts as one.
Parameters ==
    [v \in {"RETURN", "EXIT", "DISCONNECT", "PURGE_CACHE", "WAIT", "REFRESH"} |-> 0]
    @@ [v \in {"UPPERCASE", "CLEAR", "RELEASE", "GOTO", "LINK", "TRANSFER", "PUSH", "POP", "CLOSE",
               "ERROR", "DELETE", "OPEN_WINDOW", "CLOSE_WINDOW", "OPEN_ERROR_WINDOW", "KILL",
               "START", "STOP", "CANCEL", "CONNECT", "ERASE", "SET_CURSOR", "TRIGGER_FUNCTION"} |-> 1]
    @@ [v \in {"MOVE", "ADD", "SUBTRACT", "SUB", "MULTIPLY", "MUL", "STRING", "LENGTH", "SAVE", "RESTORE",
               "NAVIGATE", "SEND", "FETCH", "SWAP", "NOTE", "POINT", "OPEN", "SOUND", "MAKE_FORMAT",
               "XOR", "TEST", "AND", "OR", "RECEIVE", "GOTO_DEPENDING_ON"} |-> 2]
    @@ [v \in {"INSTR", "SORT", "FILL", "READ", "WRITE", "SET_ATTRIBUTE", "SET_KEY", "FORMAT",
               "EDIT"} |-> 3]
    @@ [v \in {"DIVIDE", "DIV", "SUBSTR", "SET_FUNCTION"} |-> 4]
    @@ [v \in {"LOOKUP"} |-> 5] @@ [v \in {"DEFINE_FIELD"} |-> 7]

\* extract_verb_from_line stops at an underscore.
Prefix(w) ==
    IF w = "GOTO_DEPENDING_ON" THEN "GOTO"
    ELSE IF w \in {"OPEN_WINDOW", "OPEN_ERROR_WINDOW"} THEN "OPEN"
    ELSE IF w = "CLOSE_WINDOW" THEN "CLOSE"
    ELSE IF w \in {"SET_CURSOR", "SET_ATTRIBUTE", "SET_KEY", "SET_FUNCTION", "DEFINE_FIELD",
                   "MAKE_FORMAT", "PURGE_CACHE", "TRIGGER_FUNCTION"}
    THEN ""
    ELSE w

\* The signature of the verb a line begins with; the parameter is counted by
\* the commas before the cursor.
SignatureHelp(d, p) ==
    LET words == WordsOf(d, p[1])
        verb == IF words = << >> THEN "" ELSE Prefix(words[1])
        before == {k \in DOMAIN words : words[k] = "," /\ ColumnOf(k) < p[2]}
    IN  IF verb \notin DOMAIN Parameters THEN << >>
        ELSE << [verb |-> verb, parameters |-> Parameters[verb], active |-> Cardinality(before)] >>

-----------------------------------------------------------------------------
(* documentSymbol and workspace/symbol.                                    *)

\* make_symbol: what is highlighted is within the range.
Symbol(n, first, last, below) ==
    LET name == << first[1], first[2] + Width >> IN
    [kind |-> n.kind, name |-> n.name, first |-> first, last |-> last,
     selected |-> IF AtMost(name, last) THEN name ELSE last, below |-> below]

\* One that has nothing below is as long as its name.
NameSymbol(n, first) == Symbol(n, first, << first[1], first[2] + Width >>, << >>)

FarRight == 999

\* extract_symbols: what a COPY file has stands at the line of the COPY.
RECURSIVE Outline(_, _)
Outline(n, d) ==
    LET copied == n.file # d
        first == IF copied THEN << CopyLine(n.file), 1 >> ELSE n.first
        last == IF copied THEN << CopyLine(n.file), FarRight >> ELSE n.last
        below == FlattenSeq([i \in DOMAIN n.nodes |-> Outline(n.nodes[i], d)])
    IN  IF copied /\ CopyLine(n.file) = 0 THEN << >>
        ELSE IF n.kind = "PROGRAM" THEN << Symbol(n, n.first, n.last, below) >>
        ELSE IF n.kind \in {"DATA_SECTION", "PROC"} THEN << Symbol(n, first, last, below) >>
        ELSE IF n.kind \in {"VAR_DECL", "LABEL"} THEN << NameSymbol(n, first) >>
        ELSE below

\* extract_copy_symbols: what is the COPY file's own, in its lines.
RECURSIVE CopyOutline(_, _)
CopyOutline(n, d) ==
    LET first == << Local(d, n.first[1]), n.first[2] >>
        last == << Larger(first[1], Local(d, n.last[1])), n.last[2] >>
        below == FlattenSeq([i \in DOMAIN n.nodes |-> CopyOutline(n.nodes[i], d)])
    IN  IF n.file # d THEN below
        ELSE IF n.kind \in {"DATA_SECTION", "PROC"} THEN << Symbol(n, first, last, below) >>
        ELSE IF n.kind \in {"VAR_DECL", "LABEL", "DEFINE"} THEN << NameSymbol(n, first) >>
        ELSE below

DocumentSymbols(d) ==
    IF ast = << >> THEN << >>
    ELSE IF d # Main /\ CopyLine(d) > 0 THEN CopyOutline(ast[1], d) ELSE Outline(ast[1], d)

\* collect_workspace_symbols: each document has those of its tree, at the lines
\* of the tree.  A query is a name or empty.
RECURSIVE SymbolsBelow(_, _, _)
SymbolsBelow(n, query, container) ==
    LET listed == n.kind \in {"PROGRAM", "VAR_DECL", "DEFINE", "PROC", "LABEL"}
        within == IF n.kind \in {"PROGRAM", "PROC"} THEN n.name ELSE container
    IN  (IF listed /\ query \in {"", n.name}
         THEN << [kind |-> n.kind, name |-> n.name, container |-> container,
                  first |-> n.first, last |-> n.last] >>
         ELSE << >>)
        \o FlattenSeq([i \in DOMAIN n.nodes |-> SymbolsBelow(n.nodes[i], query, within)])

WorkspaceSymbols(query) ==
    [d \in DOMAIN text |-> IF ast = << >> THEN << >> ELSE SymbolsBelow(ast[1], query, "")]

-----------------------------------------------------------------------------
(* foldingRange, semanticTokens, selectionRange.                           *)

\* The nodes of the document itself.
Own(d, kinds) == SelectSeq(ast, LAMBDA n : n.file = d /\ n.kind \in kinds)

FoldingRanges(d) ==
    LET nodes == Own(d, {"PROC", "DO_BLOCK", "IF_STMT", "WHILE_STMT", "DATA_SECTION"})
        lines == [i \in DOMAIN nodes |-> << Local(d, nodes[i].first[1]), Local(d, nodes[i].last[1]) >>]
    IN  SelectSeq(lines, LAMBDA f : f[1] < f[2])

\* The line in the document of one in the tree: 0 or less before its COPY.
Unclamped(d, l) == l - (TreeLine(d, 1) - 1)

\* collect_semantic_tokens: declarations of variables, calls, labels.
TokenType(n) ==
    IF n.kind = "VAR_DECL" THEN "variable" ELSE IF n.kind = "PROC_CALL" THEN "function" ELSE "label"
TokensOf(d) ==
    LET nodes == SelectSeq(Own(d, {"VAR_DECL", "PROC_CALL", "LABEL"}),
                           LAMBDA n : Unclamped(d, n.first[1]) >= 1)
    IN  SortSeq([i \in DOMAIN nodes |->
                    [line |-> Unclamped(d, nodes[i].first[1]), column |-> nodes[i].first[2],
                     type |-> TokenType(nodes[i])]],
                LAMBDA a, b : ~ AtMost(<< b.line, b.column >>, << a.line, a.column >>))

\* With a fault: a column is counted from the token before, also on a new line.
DeltasColumn(tokens) ==
    LET Before(i) == IF i = 1 THEN [line |-> 1, column |-> 1] ELSE tokens[i - 1] IN
    [i \in DOMAIN tokens |->
        [line |-> tokens[i].line - Before(i).line, column |-> tokens[i].column - Before(i).column,
         type |-> tokens[i].type]]
\* Each token relative to the one before it.
Deltas(tokens) ==
    LET Before(i) == IF i = 1 THEN [line |-> 1, column |-> 1] ELSE tokens[i - 1] IN
    [i \in DOMAIN tokens |->
        [line |-> tokens[i].line - Before(i).line,
         column |-> tokens[i].column - (IF tokens[i].line = Before(i).line THEN Before(i).column ELSE 1),
         type |-> tokens[i].type]]

SemanticTokens(d) == Deltas(TokensOf(d))

\* compute_effective_end: a node that ends where it begins ends where the last
\* below it does, or with the line.
IsPoint(n) == n.first = n.last
RECURSIVE EffectiveEnd(_)
EffectiveEnd(n) ==
    LET ends == {n.first} \cup {EffectiveEnd(n.nodes[i]) : i \in DOMAIN n.nodes}
        last == CHOOSE e \in ends : \A f \in ends : AtMost(f, e)
    IN  IF ~ IsPoint(n) THEN n.last
        ELSE IF last = n.first THEN << last[1], FarRight >> ELSE last

\* node_contains_for_selection: such a node reaches to the end of its line.
Surrounds(n, p) ==
    IF IsPoint(n) THEN p[1] = n.first[1] /\ p[2] >= n.first[2] ELSE InRange(p, n)

\* collect_selection_ancestors and the chain made of them, the innermost last;
\* the 64 nodes it stops at are more than a text has at one place.
SelectionRanges(d, p) ==
    LET nodes == SelectSeq(ast, LAMBDA n : /\ n.file = d /\ Surrounds(n, TreeAt(d, p))
                                            /\ Unclamped(d, n.first[1]) >= 1)
    IN  IF ast = << >> THEN << >>
        ELSE IF nodes = << >> THEN << << p, << p[1], p[2] + 1 >> >> >>
        ELSE [i \in DOMAIN nodes |->
                << << Unclamped(d, nodes[i].first[1]), nodes[i].first[2] >>,
                   << Unclamped(d, EffectiveEnd(nodes[i])[1]), EffectiveEnd(nodes[i])[2] >> >>]

-----------------------------------------------------------------------------
(* The hints with the diagnostics of a source.                             *)

\* With a fault: the labels of a GOTO_DEPENDING_ON are not looked at.
ReferencedByGoto(nodes, name, kind) ==
    \E i \in DOMAIN nodes : nodes[i].kind = kind /\ nodes[i].name = name
\* has_reference: the labels of a GOTO_DEPENDING_ON are behind its selector.
Referenced(nodes, name, kind) ==
    \E i \in DOMAIN nodes :
       \/ nodes[i].kind = kind /\ nodes[i].name = name
       \/ /\ kind = "GOTO" /\ nodes[i].kind = "GOTO_DEPENDING_ON"
          /\ \E j \in 2 .. Len(nodes[i].nodes) :
                nodes[i].nodes[j].kind = "IDENT" /\ nodes[i].nodes[j].name = name

\* define_was_expanded.
Expanded(happened, name) ==
    \E i \in DOMAIN happened : happened[i].kind = "DEFINE_REF" /\ happened[i].name = name

\* append_unused_diagnostics: what the source itself declares and nothing
\* refers to; the procedure main needs no reference.
Hints(parse) ==
    LET nodes == parse.nodes
        declared == SelectSeq(nodes, LAMBDA n : n.file = Main /\ n.kind \in {"VAR_DECL", "DEFINE", "LABEL", "PROC"})
        Used(n) == \/ n.kind = "PROC" /\ n.name = "MAIN"
                   \/ Referenced(nodes, n.name, IF n.kind = "PROC" THEN "PROC_CALL"
                                                ELSE IF n.kind = "LABEL" THEN "GOTO" ELSE "IDENT")
                   \/ n.kind = "DEFINE" /\ Expanded(parse.events, n.name)
    IN  SelectSeq(declared, LAMBDA n : ~ Used(n))

-----------------------------------------------------------------------------
(* The text changes or is opened, and the server answers one request after *)
(* another.                                                                *)

\* document_parse: the tree of a parse that gives up does not replace the one
\* there is, the events do.
DidChange(t) ==
    /\ answer = Nothing
    /\ text' = t
    /\ \E parse \in {Parsed[t]} :
         LET given == parse.nodes # << >>
             hints == Hints(parse)
         IN  /\ ast' = IF given THEN parse.nodes ELSE ast
             /\ stale' = ~ given
             /\ events' = parse.events
             /\ answer' = [request |-> "diagnostics", document |-> Main, at |-> << 1, 1 >>,
                           result |-> [i \in DOMAIN hints |->
                                         [kind |-> hints[i].kind, name |-> hints[i].name,
                                          first |-> hints[i].first, last |-> hints[i].last]]]

Answer(request, d, p, result) ==
    /\ answer = Nothing
    /\ answer' = [request |-> request, document |-> d, at |-> p, result |-> result]
    /\ UNCHANGED << text, ast, stale, events >>

OnHover(d, p) == Answer("hover", d, p, Hover(d, p))
OnDefinition(d, p) == Answer("definition", d, p, GotoDefinition(d, p))
OnReferences(d, p) == Answer("references", d, p, References(d, p))
OnPrepareRename(d, p) == Answer("prepareRename", d, p, PrepareRename(d, p))
OnCompletion(d, p) == Answer("completion", d, p, Completion(d, p))
OnSignatureHelp(d, p) == Answer("signatureHelp", d, p, SignatureHelp(d, p))
OnSelectionRange(d, p) == Answer("selectionRange", d, p, SelectionRanges(d, p))
OnDocumentSymbol(d) == Answer("documentSymbol", d, << 1, 1 >>, DocumentSymbols(d))
OnFoldingRange(d) == Answer("foldingRange", d, << 1, 1 >>, FoldingRanges(d))
OnSemanticTokens(d) == Answer("semanticTokens", d, << 1, 1 >>, SemanticTokens(d))
OnWorkspaceSymbol(query) == Answer("workspaceSymbol", Main, << 1, 1 >>, WorkspaceSymbols(query))

\* The client has read the answer.
Read == answer # Nothing /\ answer' = Nothing /\ UNCHANGED << text, ast, stale, events >>

Cursors(d) == {<< l, c >> : l \in DOMAIN Document(d), c \in 1 .. 60}
Cursor(d, p) == p[2] <= (Width + 1) * Len(WordsOf(d, p[1])) + 1

Next ==
    \/ \E t \in Texts : DidChange(t)
    \/ Read
    \/ /\ text # << >>
       /\ \/ \E d \in DOMAIN text :
               \/ OnDocumentSymbol(d) \/ OnFoldingRange(d) \/ OnSemanticTokens(d)
               \/ \E p \in Cursors(d) :
                    /\ Cursor(d, p)
                    /\ \/ OnHover(d, p) \/ OnDefinition(d, p) \/ OnReferences(d, p)
                       \/ OnPrepareRename(d, p) \/ OnCompletion(d, p) \/ OnSignatureHelp(d, p)
                       \/ OnSelectionRange(d, p)
          \/ \E query \in {""} \cup Procedures : OnWorkspaceSymbol(query)

Spec == Init /\ [][Next]_vars

-----------------------------------------------------------------------------
(* What the answers are compared with is read off the words of the text,   *)
(* without scanner, tree and events.                                       *)

\* A place: the file, the line and which word of the line.
AllPlaces ==
    UNION {UNION {{<< f, l, k >> : k \in DOMAIN text[f][l]} : l \in DOMAIN text[f]}
              : f \in DOMAIN text}
WordOf(place) == text[place[1]][place[2]][place[3]]
Places(w) == {place \in AllPlaces : WordOf(place) = w}

\* A name stands for something new behind PROC or DEFINE, before a colon, and
\* in the list of a DATA.
Declares(place) ==
    LET line == text[place[1]][place[2]]
        k == place[3]
        Behind(w) == k > 1 /\ line[k - 1] = w
    IN  \/ line[k] \in Procedures /\ Behind("PROC")
        \/ line[k] \in Defines /\ Behind("DEFINE")
        \/ line[k] \in Labels /\ k < Len(line) /\ line[k + 1] = ":"
        \/ line[k] \in Variables
           /\ \E j \in 1 .. k - 2 : line[j] = "DATA" /\ \A i \in j .. k : line[i] # ";"

Names == Variables \cup Procedures \cup Labels \cup Defines

\* The columns of the tree are others than those of the file on the first line
\* of a COPY file, which are counted on from the COPY, and behind a name that
\* was replaced by what it is DEFINEd as.
Shifted(place) ==
    \/ place[1] # Main /\ place[2] = 1
    \/ \E j \in 1 .. place[3] - 1 : LET p == << place[1], place[2], j >> IN
                                    WordOf(p) \in Defines /\ ~ Declares(p)

\* The tree is that of the text, and the text has no error.
Whole == ast # << >> /\ ~ stale /\ \A i \in DOMAIN ast : ast[i].kind # "ERROR"

\* The places a question is about: where the cursor is at the beginning of a
\* name, none or one.
AskedAbout(request, names) ==
    IF answer.request # request \/ ~ Whole THEN {}
    ELSE {place \in AllPlaces :
        /\ place[1] = answer.document /\ << place[2], ColumnOf(place[3]) >> = answer.at
        /\ WordOf(place) \in names /\ ~ Shifted(place)}

\* Go-to-definition leads from every use of a name to the file and the line
\* that declare it, in and out of COPY files and through files that copy
\* others; a DEFINEd name is looked for from the source alone.
\* (handle_definition, "find the definition")
DefinitionFound ==
    \A place \in AskedAbout("definition", Names) :
        (WordOf(place) \in Defines => place[1] = Main)
        => \E d \in Places(WordOf(place)) :
              /\ Declares(d) /\ Len(answer.result) = 1
              /\ answer.result[1].file = d[1] /\ answer.result[1].first[1] = d[2]

\* References are all places the name stands at, each once and no other: asked
\* in a COPY file, those in it and in the source.  (handle_references)
ReferencesExact ==
    \A place \in AskedAbout("references", Names \ Defines) :
        LET files == IF place[1] = Main THEN DOMAIN text ELSE {place[1], Main}
            all == {p \in Places(WordOf(place)) : p[1] \in files}
            found == answer.result
        IN  /\ Len(found) = Cardinality(all)
            /\ {<< found[i].file, found[i].first[1] >> : i \in DOMAIN found}
                 = {<< p[1], p[2] >> : p \in all}

\* What is hinted at as unused stands nowhere else in the program; of what the
\* source declares and nothing else names nothing is missed, but MAIN.
\* (append_unused_diagnostics)
UnusedExact ==
    answer.request = "diagnostics" /\ Whole =>
        {answer.result[i].name : i \in DOMAIN answer.result}
          = {WordOf(p) : p \in {q \in AllPlaces : /\ WordOf(q) \in Names \ {"MAIN"} /\ q[1] = Main
                                                  /\ Declares(q) /\ Places(WordOf(q)) = {q}}}

\* The tokens as the client puts them together again.
Decoded(deltas) ==
    LET At2[i \in 0 .. Len(deltas)] ==
            IF i = 0 THEN [line |-> 1, column |-> 1, type |-> ""]
            ELSE LET d == deltas[i] IN
                 [line |-> At2[i - 1].line + d.line, type |-> d.type,
                  column |-> d.column + IF d.line = 0 THEN At2[i - 1].column ELSE 1]
    IN  {At2[i] : i \in DOMAIN deltas}

\* On lines with nothing shifted every declaration of a variable, label and
\* call of a procedure is coloured at its place, and nothing else is, in
\* sources and COPY files.  (handle_semantic_tokens)
TokensExact ==
    answer.request = "semanticTokens" /\ Whole =>
        LET d == answer.document
            plain == {l \in DOMAIN text[d] :
                        \A k \in DOMAIN text[d][l] : ~ Shifted(<< d, l, k >>)}
            Type(p) == IF WordOf(p) \in Procedures THEN "function"
                       ELSE IF WordOf(p) \in Labels THEN "label" ELSE "variable"
            tokens == {p \in AllPlaces : /\ p[1] = d /\ p[2] \in plain
                                         /\ \/ WordOf(p) \in Procedures /\ ~ Declares(p)
                                            \/ WordOf(p) \in Variables \cup Labels /\ Declares(p)}
        IN  {x \in Decoded(answer.result) : x.line \in plain}
              = {[line |-> p[2], column |-> ColumnOf(p[3]), type |-> Type(p)] : p \in tokens}
=============================================================================
