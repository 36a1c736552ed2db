----------------------------- MODULE Formatter -----------------------------
(***************************************************************************)
(* The formatter (formatter/tbol_fmt.c), a chain of passes over the text,  *)
(* each of which reads lines, not syntax: which words begin and end a line *)
(* decides how deep it is indented, where a line is broken and where a     *)
(* blank line goes.  The language server runs it on the text of the editor *)
(* (handle_formatting) and the decompiler, or tbolfmt, on a whole file.    *)
(*                                                                         *)
(* A text is [lines, newline]: whether the last line ends with a newline.  *)
(* A line is [indent, words]; words are separated by one blank.  A word is *)
(* a keyword, "END;", "END_PROC;", a comment in braces, a string, a label  *)
(* or what is left of a statement.  Keywords are in capitals.              *)
(***************************************************************************)
EXTENDS Integers, Sequences, FiniteSets, SequencesExt, TLC

CONSTANTS
    Comments,           \* the words that are comments
    Quoting,            \* those of them with an apostrophe
    Labels,             \* names like label_7: the word of its line -> of its GOTO
    Literals            \* string -> [leading, hex]: printable characters before the
                        \* first escape (-1: there is none), the word in hexadecimal
CONSTANTS
    Programs,           \* sequences of words
    Newlines,           \* does the last line end with a newline
    MaxSpaced,          \* bound: line breaks of a text with an empty line
    Options             \* of tbol_fmt, from the command line or the editor

Line(indent, words) == [indent |-> indent, words |-> words]
WithWords(line, words) == [line EXCEPT !.words = words]
Text(lines, newline) == [lines |-> lines, newline |-> newline]
Words(text) == FlattenSeq([i \in DOMAIN text.lines |-> text.lines[i].words])

Blank(line) == line.words = << >>
Begins(line, w) == line.words # << >> /\ line.words[1] = w
Final(words) == words[Len(words)]
Ends(words, keywords) == IsSuffix(keywords, words)
Lowest(S) == IF S = {} THEN 0 ELSE CHOOSE i \in S : \A j \in S : i <= j
Highest(S) == IF S = {} THEN 0 ELSE CHOOSE i \in S : \A j \in S : j <= i

-----------------------------------------------------------------------------
(* Passes that rewrite words.                                              *)

\* An apostrophe in a comment begins a string for pass_hex_literals, so the
\* literals behind it are taken for what is between two strings.
Paired(words, i) == Len(SelectSeq(SubSeq(words, 1, i - 1), LAMBDA w : w \in Quoting)) % 2 = 0
InHex(w) == Literals[w].leading \in 0 .. 7

HexLine(words, before) ==
    [i \in DOMAIN words |->
        IF words[i] \in DOMAIN Literals /\ InHex(words[i]) /\ Paired(before \o words, Len(before) + i)
        THEN Literals[words[i]].hex ELSE words[i]]

RECURSIVE HexLines(_, _, _)
HexLines(lines, i, before) ==
    IF i > Len(lines) THEN << >>
    ELSE << WithWords(lines[i], HexLine(lines[i].words, before)) >>
         \o HexLines(lines, i + 1, before \o lines[i].words)

pass_hex_literals(text) == [text EXCEPT !.lines = HexLines(@, 1, << >>)]

\* A line with nothing but a label no statement names.
Unreferenced(line, words) ==
    /\ Len(line.words) = 1 /\ line.words[1] \in DOMAIN Labels
    /\ \A i \in DOMAIN words : words[i] # Labels[line.words[1]]
StripLines(lines, words) == SelectSeq(lines, LAMBDA l : ~ Unreferenced(l, words))
pass_strip_labels(text) == [text EXCEPT !.lines = StripLines(@, Words(text))]

-----------------------------------------------------------------------------
(* Passes that join and split lines.                                       *)

\* END; alone, and a line that begins with ELSE behind it.  ELSE at the very
\* end of the text has neither blank nor newline behind it.
Cuddled(text, i) ==
    /\ i < Len(text.lines)
    /\ text.lines[i].words = << "END;" >> /\ Begins(text.lines[i + 1], "ELSE")
    /\ Len(text.lines[i + 1].words) > 1 \/ i + 1 < Len(text.lines) \/ text.newline

RECURSIVE CuddleFrom(_, _)
CuddleFrom(text, i) ==
    IF i > Len(text.lines) THEN [lines |-> << >>, newline |-> text.newline]
    ELSE LET joined == Cuddled(text, i)
             rest == CuddleFrom(text, IF joined THEN i + 2 ELSE i + 1)
             line == IF joined THEN WithWords(text.lines[i], << "END;" >> \o text.lines[i + 1].words)
                     ELSE text.lines[i]
         IN  [lines |-> << line >> \o rest.lines,
              newline |-> IF joined /\ i + 1 = Len(text.lines) THEN TRUE ELSE rest.newline]
pass_cuddle_else(text) == CuddleFrom(text, 1)

\* Where what follows the keyword at k begins, comments skipped; 0 when there
\* is nothing, or a DO block.
body_start_after_kw(words, k) ==
    LET b == Lowest({i \in k + 1 .. Len(words) : words[i] \notin Comments})
    IN  IF b # 0 /\ words[b] = "DO" THEN 0 ELSE b

\* The first THEN and the first ELSE of a line: the one that comes first, if
\* something follows it.  ELSE IF stays together.
find_keyword(words, kw) == Lowest({i \in DOMAIN words : words[i] = kw})
Splits(words, k) ==
    /\ k # 0 /\ body_start_after_kw(words, k) # 0
    /\ words[k] = "ELSE" => words[body_start_after_kw(words, k)] # "IF"
find_split_point(words) ==
    Lowest({k \in {find_keyword(words, "THEN"), find_keyword(words, "ELSE")} : Splits(words, k)})

RECURSIVE Pieces(_, _)
Pieces(words, k) ==
    IF k = 0 THEN << words >>
    ELSE IF words[k] = "ELSE" /\ k > 1 /\ SubSeq(words, 1, k - 1) # << "END;" >>
    THEN LET rest == SubSeq(words, k, Len(words))
         IN  << SubSeq(words, 1, k - 1) >> \o Pieces(rest, find_split_point(rest))
    ELSE LET rest == SubSeq(words, body_start_after_kw(words, k), Len(words))
         IN  << SubSeq(words, 1, k) >> \o Pieces(rest, find_split_point(rest))

\* The first piece of a line keeps its indentation.
SplitLine(line, pieces) ==
    [j \in DOMAIN pieces |-> Line(IF j = 1 /\ ~ Blank(line) THEN line.indent ELSE 0, pieces[j])]
pass_then_newline(text) ==
    [text EXCEPT !.lines =
        FlattenSeq([i \in DOMAIN @ |-> SplitLine(@[i], Pieces(@[i].words, find_split_point(@[i].words)))])]

-----------------------------------------------------------------------------
(* pass_indent: a line after the other, with the depth of the blocks, one  *)
(* more for a line behind a bare THEN or ELSE, and whether it is in the    *)
(* DATA section.                                                           *)

is_top_level(words) ==
    \/ words[1] \in {"PROGRAM", "COPY", "DEFINE", "PROC"} /\ Len(words) > 1
    \/ words[1] = "END_PROC;"

opens_block(words) ==
    \/ words = << "DO" >>
    \/ Ends(words, << "THEN", "DO" >>) \/ Ends(words, << "ELSE", "DO" >>)

\* The line without the comments at its end.
CodeOf(words) == SubSeq(words, 1, Highest({i \in DOMAIN words : words[i] \notin Comments}))
ends_bare(words) == words # << >> /\ Final(words) \in {"THEN", "ELSE"}

Less(n) == IF n > 0 THEN n - 1 ELSE 0

\* What the state is after a line, and how deep the line is.
AtTop(state, words) ==
    LET closed == IF words[1] = "END_PROC;" THEN Less(state.depth) ELSE state.depth
    IN  [state EXCEPT !.data = FALSE, !.at = 0,
                      !.depth = IF words[1] = "PROC" THEN closed + 1 ELSE closed]
InData(state, words) == [state EXCEPT !.at = IF Final(words) = "=" THEN 1 ELSE 2]
InBody(state, words) ==
    LET closes == words[1] = "END;"
        deep == state.depth + state.extra
        opened == IF closes /\ Len(words) > 1 /\ words[2] = "ELSE" THEN Tail(words) ELSE words
    IN  [state EXCEPT
            !.at = IF closes THEN Less(deep) ELSE deep,
            !.depth = (IF closes THEN Less(@) ELSE @) + (IF opens_block(opened) THEN 1 ELSE 0),
            !.extra = IF ends_bare(CodeOf(words)) THEN 1 ELSE 0]
Indented(state, words) ==
    IF words = << >> THEN [state EXCEPT !.at = 0]
    ELSE IF is_top_level(words) THEN AtTop(state, words)
    ELSE IF words[1] = "DATA" THEN [state EXCEPT !.data = TRUE, !.at = 0]
    ELSE IF state.data THEN InData(state, words) ELSE InBody(state, words)

RECURSIVE IndentFrom(_, _, _, _)
IndentFrom(lines, i, state, width) ==
    << Line(width * state.at, lines[i].words) >>
    \o IF i = Len(lines) THEN << >>
       ELSE IndentFrom(lines, i + 1, Indented(state, lines[i + 1].words), width)

Outside == [depth |-> 0, extra |-> 0, data |-> FALSE, at |-> 0]
pass_indent(text, width) ==
    IF text.lines = << >> THEN text
    ELSE Text(IndentFrom(text.lines, 1, Indented(Outside, text.lines[1].words), width), TRUE)

-----------------------------------------------------------------------------
(* pass_blank_lines: a blank line before and after a block of IF or WHILE, *)
(* before DATA and PROC.  Depths are read from the indentation.            *)

is_if_or_while(line) == Begins(line, "IF") \/ Begins(line, "WHILE")
is_cuddled_else(line) == Begins(line, "END;") /\ Len(line.words) > 1 /\ line.words[2] = "ELSE"
opens_do(line) == Ends(line.words, << "THEN", "DO" >>) \/ Ends(line.words, << "ELSE", "DO" >>)

\* The last line of what belongs to line i: the deeper ones behind it, and
\* for an IF without DO its ELSE.
Past(lines, i, else) ==
    Lowest({j \in i + 1 .. Len(lines) :
              /\ ~ Blank(lines[j])
              /\ lines[j].indent <= lines[i].indent
              /\ ~ (else /\ lines[j].indent = lines[i].indent /\ Begins(lines[j], "ELSE"))})
LastBefore(lines, i, stop) == Highest({j \in i .. stop - 1 : j = i \/ ~ Blank(lines[j])})
BlockEnd(lines, i, else) ==
    LET stop == Past(lines, i, else) IN LastBefore(lines, i, IF stop = 0 THEN Len(lines) + 1 ELSE stop)

\* Down the lines with a stack of what the open blocks are (1 for IF and
\* WHILE, 2 for another DO), to the lines after which a block is over.
Push(stack, kind) == << kind >> \o stack
Popped(stack) == IF stack = << >> THEN -1 ELSE Head(stack)
Rest(stack) == IF stack = << >> THEN << >> ELSE Tail(stack)

RECURSIVE BlockEnds(_, _, _)
BlockEnds(lines, i, stack) ==
    IF i > Len(lines) THEN {}
    ELSE IF Blank(lines[i]) THEN BlockEnds(lines, i + 1, stack)
    ELSE IF is_cuddled_else(lines[i])
    THEN IF opens_do(lines[i])
         THEN BlockEnds(lines, i + 1, Push(Rest(stack), Popped(stack)))
         ELSE (IF Popped(stack) = 1 THEN {BlockEnd(lines, i, FALSE)} ELSE {})
              \cup BlockEnds(lines, i + 1, Rest(stack))
    ELSE IF Begins(lines[i], "END;")
    THEN (IF Popped(stack) = 1 THEN {i} ELSE {}) \cup BlockEnds(lines, i + 1, Rest(stack))
    ELSE IF is_if_or_while(lines[i]) /\ opens_do(lines[i])
    THEN BlockEnds(lines, i + 1, Push(stack, 1))
    ELSE IF opens_do(lines[i]) \/ Begins(lines[i], "DO")
    THEN BlockEnds(lines, i + 1, Push(stack, 2))
    ELSE (IF is_if_or_while(lines[i]) THEN {BlockEnd(lines, i, TRUE)} ELSE {})
         \cup BlockEnds(lines, i + 1, stack)

\* The depth the next statement has: that of the IF the line is the body of.
Opener(lines, i) ==
    Highest({j \in 1 .. i - 1 : /\ ~ Blank(lines[j])
                              /\ \/ is_if_or_while(lines[j]) /\ ~ opens_do(lines[j])
                                 \/ lines[j].indent < lines[i].indent})
Sibling(lines, i) ==
    LET j == Opener(lines, i)
    IN  IF Begins(lines[i], "END;") \/ j = 0 THEN lines[i].indent ELSE lines[j].indent

\* With a fault: an empty line before the line is not seen.
BlankBeforeAlways(lines, i) ==
    /\ i > 1 /\ ~ Blank(lines[i])
    /\ \/ is_if_or_while(lines[i]) /\ lines[i - 1].indent = lines[i].indent
       \/ lines[i].indent = 0 /\ (Begins(lines[i], "DATA") \/ Begins(lines[i], "PROC"))
BlankBefore(lines, i) ==
    /\ i > 1 /\ ~ Blank(lines[i]) /\ ~ Blank(lines[i - 1])
    /\ \/ is_if_or_while(lines[i]) /\ lines[i - 1].indent = lines[i].indent
       \/ lines[i].indent = 0 /\ (Begins(lines[i], "DATA") \/ Begins(lines[i], "PROC"))
\* An IF behind the block on its depth puts the blank line before itself.
BlankAfter(lines, i) ==
    /\ i < Len(lines) /\ ~ Blank(lines[i + 1])
    /\ lines[i + 1].indent = Sibling(lines, i)
    /\ ~ Begins(lines[i + 1], "END;") /\ ~ Begins(lines[i + 1], "END_PROC;")
    /\ ~ (is_if_or_while(lines[i + 1]) /\ lines[i + 1].indent = lines[i].indent)

Gap(lines, ends, i) == BlankBefore(lines, i) \/ (i - 1 \in ends /\ BlankAfter(lines, i - 1))
Spaced(lines, ends) ==
    FlattenSeq([i \in DOMAIN lines |->
        IF Gap(lines, ends, i) THEN << Line(0, << >>), lines[i] >> ELSE << lines[i] >>])
pass_blank_lines(text) == [text EXCEPT !.lines = Spaced(@, BlockEnds(@, 1, << >>))]

-----------------------------------------------------------------------------
(* tbol_fmt, and who calls it.                                             *)

Reindent(text, width) ==
    IF width > 0 THEN pass_blank_lines(pass_indent(text, width)) ELSE text
ASSUME OptionsType ==
    Options \subseteq [strip_labels : BOOLEAN, cuddle_else : BOOLEAN, indent_width : Nat]
tbol_fmt(text, opts) ==
    LET literal == pass_hex_literals(text)
        labelled == IF opts.strip_labels THEN pass_strip_labels(literal) ELSE literal
        cuddled == IF opts.cuddle_else THEN pass_cuddle_else(labelled) ELSE labelled
    IN  Reindent(pass_then_newline(cuddled), opts.indent_width)

VARIABLES
    text,               \* what is formatted
    call                \* history: the formatting done last

fvars == << text, call >>

\* The same words, in lines that end behind the places of a set, with an empty
\* line behind one of them.
Lines(words, places, blank) ==
    LET ends == SelectSeq([i \in DOMAIN words |-> i], LAMBDA i : i \in places \cup {Len(words)})
        line(l) == Line(0, SubSeq(words, IF l = 1 THEN 1 ELSE ends[l - 1] + 1, ends[l]))
    IN  FlattenSeq([l \in DOMAIN ends |->
            IF ends[l] = blank THEN << line(l), Line(0, << >>) >> ELSE << line(l) >>])

FInit ==
    /\ \E words \in Programs, newline \in Newlines :
         \E places \in SUBSET (1 .. Len(words) - 1) :
            \E blank \in {0} \cup (IF Cardinality(places) <= MaxSpaced THEN places ELSE {}) :
            text = Text(Lines(words, places, blank), newline)
    /\ call = [by |-> "nobody"]

\* The client applies the one edit it gets: everything up to the line after
\* the last newline is replaced, and what stands behind that newline stays.
Replaced(old, formatted) ==
    IF old.newline \/ old.lines = << >> THEN formatted
    ELSE Text(Append(formatted.lines, Final(old.lines)), FALSE)

Format(by, opts, formatted) ==
    /\ call' = [by |-> by, opts |-> opts]
    /\ text' = formatted

\* When nothing changes there is no edit.
Edited(old, formatted) == IF formatted = old THEN old ELSE Replaced(old, formatted)

\* With a fault: labels are stripped as for the decompiler.
handle_formatting_strip(opts) ==
    /\ ~ opts.strip_labels /\ opts.cuddle_else
    /\ Format("editor", opts,
              Edited(text, tbol_fmt(text, [opts EXCEPT !.strip_labels = TRUE])))
\* textDocument/formatting.
handle_formatting(opts) ==
    /\ ~ opts.strip_labels /\ opts.cuddle_else
    /\ Format("editor", opts, Edited(text, tbol_fmt(text, opts)))

\* tbolfmt, and the decompiler for the text it prints.
tbolfmt(opts) == Format("tbolfmt", opts, tbol_fmt(text, opts))

FNext == \E opts \in Options : handle_formatting(opts) \/ tbolfmt(opts)
FSpec == FInit /\ [][FNext]_fvars

-----------------------------------------------------------------------------
\* What the parser makes of a text: its words without the comments, a string
\* with escapes and its hexadecimal form being the same.
Meaning(t) ==
    LET words == SelectSeq(Words(t), LAMBDA w : w \notin Comments)
    IN  [i \in DOMAIN words |->
            IF words[i] \in DOMAIN Literals /\ Literals[words[i]].leading # -1
            THEN Literals[words[i]].hex ELSE words[i]]
Used(words) ==
    SelectSeq(words, LAMBDA w : w \in DOMAIN Labels => \E i \in DOMAIN words : words[i] = Labels[w])

(* Formatting does not change what the text means; labels nothing names    *)
(* may go, but not in the editor.  Lines are joined, split and indented by *)
(* their words, and the editor replaces only a range of its text.          *)
SameProgram ==
    [][/\ Used(Meaning(text')) = Used(Meaning(text))
       /\ ~ call'.opts.strip_labels => Meaning(text') = Meaning(text)]_fvars

(* Formatting what has been formatted changes nothing (run_tests.sh: "Each *)
(* test runs twice and asserts byte-identical output"): no pass undoes     *)
(* what one behind it has done.                                            *)
Idempotent == [][call' = call => text' = text]_fvars

(* A comment is never lost.                                                *)
KeepsWords == [][~ call'.opts.strip_labels => Len(Words(text')) = Len(Words(text))]_fvars
=============================================================================
