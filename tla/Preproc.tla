------------------------------- MODULE Preproc -------------------------------
(***************************************************************************)
(* The input of the TBOL compiler: the COPY stack of lexer/preproc.c on    *)
(* top of the buffer stack of lexer/tbol.l, through any number of parses   *)
(* of one process, as tbol_parse_string of shared/tbol_parse.c makes them  *)
(* for the language server.                                                *)
(*                                                                         *)
(* A text is a sequence of words: keywords, names, ";" and NL, the end of  *)
(* a line.  Names here are not DEFINEd, so that no name expands.  Of the   *)
(* parser only this is of interest: it reads on to the end of the input    *)
(* unless the first token is not PROGRAM, when it gives up at once.        *)
(*                                                                         *)
(* A COPY that finds file_stack full leaves the scanner one buffer short.  *)
(* It may then come to read a file that is closed, which C does not        *)
(* define; here that reads as the end of the file.                         *)
(***************************************************************************)
EXTENDS Integers, SequencesExt

CONSTANTS
    Disks,              \* [documents, content]: the documents [file, text] that
                        \* may be parsed, the COPY files there are, name -> text
    NULL,
    MAX_INCLUDE_DEPTH,  \* of include_stack and of file_stack: 32
    MaxParses           \* bound

Conditions == {"INITIAL", "DEFINE_NAME", "COPY_STATE", "COPY_SEMI"}

ASSUME PreprocAssumption ==
    /\ MAX_INCLUDE_DEPTH \in Nat /\ MaxParses \in Nat
    /\ \A k \in Disks :
          /\ \A d \in k.documents : d.file \in STRING /\ d.text \in Seq(STRING)
          /\ \A c \in DOMAIN k.content : k.content[c] \in Seq(STRING)

VARIABLES
    disk,
    buffers,            \* flex's stack of buffers: what is left of each
    fp, yyin,           \* files, by number: the document's, the one being read
    file_stack,         \* those to return to
    cond,               \* flex's start condition
    copy_filename,      \* the name after COPY
    include_stack,      \* the includers and the lines to return to
    current_filename, current_line,
    parsing,            \* within tbol_parse_string
    document,           \* what is being, or was last, parsed
    tokens,             \* what the parser has been given of it
    opened, closed,     \* files opened so far, files closed
    twice,              \* a file was closed again
    parses

files == << file_stack, yyin, opened, closed, twice >>
stacks == << buffers, files, include_stack, current_filename >>
parse == << disk, fp, document, parses >>
vars == << stacks, parse, cond, copy_filename, current_line, parsing, tokens >>

Top == buffers[Len(buffers)]
Word == Head(Top)
IsName(w) == w \notin {";", "NL"}

Init ==
    /\ disk \in Disks
    /\ buffers = << << >> >>
    /\ file_stack = << >> /\ yyin = 0 /\ fp = 0
    /\ cond = "INITIAL"
    /\ copy_filename = NULL
    /\ include_stack = << >>
    /\ current_filename = NULL /\ current_line = 1
    /\ parsing = FALSE
    /\ document = NULL
    /\ tokens = << >>
    /\ opened = 0 /\ closed = {} /\ twice = FALSE
    /\ parses = 0

-----------------------------------------------------------------------------
\* With a fault: what an earlier parse left above the bottom is read first.
StartParseBelow(d) ==
    /\ ~ parsing /\ parses < MaxParses
    /\ parsing' = TRUE
    /\ document' = d /\ tokens' = << >>
    /\ parses' = parses + 1
    /\ opened' = opened + 1 /\ fp' = opened + 1 /\ yyin' = opened + 1
    /\ buffers' = [buffers EXCEPT ![1] = d.text]
    /\ include_stack' = << >>
    /\ current_filename' = d.file /\ current_line' = 1
    /\ UNCHANGED << disk, file_stack, cond, copy_filename, closed, twice >>

\* tbol_parse_string up to yyparse: preproc_init empties the include stack,
\* yyrestart refills the buffer on top.
StartParse(d) ==
    /\ ~ parsing /\ parses < MaxParses
    /\ parsing' = TRUE
    /\ document' = d /\ tokens' = << >>
    /\ parses' = parses + 1
    /\ opened' = opened + 1 /\ fp' = opened + 1 /\ yyin' = opened + 1
    /\ buffers' = [buffers EXCEPT ![Len(buffers)] = d.text]
    /\ include_stack' = << >>
    /\ current_filename' = d.file /\ current_line' = 1
    /\ UNCHANGED << disk, file_stack, cond, copy_filename, closed, twice >>

Close(f) == closed' = closed \cup {f} /\ twice' = (twice \/ f \in closed)

\* After yyparse: the document is closed, preproc_cleanup empties the stack.
\* Buffers and files the parser did not get to the end of stay.
EndParse ==
    /\ parsing' = FALSE
    /\ include_stack' = << >>
    /\ Close(fp)
    /\ UNCHANGED << file_stack, yyin, opened, current_filename >>

-----------------------------------------------------------------------------
(* The rules of tbol.l.                                                    *)

Consume == buffers' = [buffers EXCEPT ![Len(buffers)] = Tail(Top)]
Skip == Consume /\ UNCHANGED << files, include_stack, current_filename, parsing, tokens >>
Rule(c) == parsing /\ cond = c /\ Top # << >>

\* A token for the parser; YYABORT when it cannot begin a program.
Deliver(kind) ==
    /\ Consume
    /\ tokens' = Append(tokens, [kind |-> kind, word |-> Word, file |-> current_filename,
                                line |-> current_line])
    /\ IF tokens = << >> /\ kind # "PROGRAM"
       THEN EndParse
       ELSE UNCHANGED << files, include_stack, current_filename, parsing >>

NewLine ==
    /\ \E c \in Conditions : Rule(c)
    /\ Word = "NL"
    /\ Skip
    /\ current_line' = current_line + 1
    /\ UNCHANGED << parse, cond, copy_filename >>

Token ==
    /\ Rule("INITIAL")
    /\ Word \notin {"NL", "COPY"}
    /\ Deliver(IF Word \in {"PROGRAM", "DEFINE", ";"} THEN Word ELSE "IDENT")
    /\ cond' = IF Word = "DEFINE" THEN "DEFINE_NAME" ELSE "INITIAL"
    /\ UNCHANGED << parse, copy_filename, current_line >>

\* Any word is a name after DEFINE.
DefineName ==
    /\ Rule("DEFINE_NAME")
    /\ IsName(Word)
    /\ Deliver("IDENT")
    /\ cond' = "INITIAL"
    /\ UNCHANGED << parse, copy_filename, current_line >>

CopyKeyword ==
    /\ Rule("INITIAL")
    /\ Word = "COPY"
    /\ Skip
    /\ cond' = "COPY_STATE"
    /\ UNCHANGED << parse, copy_filename, current_line >>

\* And any word is the name of a file after COPY.
CopyName ==
    /\ Rule("COPY_STATE")
    /\ IsName(Word)
    /\ Skip
    /\ copy_filename' = Word
    /\ cond' = "COPY_SEMI"
    /\ UNCHANGED << parse, current_line >>

\* What cannot follow is reported and read again in the initial condition.
Unexpected ==
    /\ \/ Rule("DEFINE_NAME") /\ Word = ";"
       \/ Rule("COPY_STATE") /\ Word = ";"
       \/ Rule("COPY_SEMI") /\ IsName(Word)
    /\ cond' = "INITIAL"
    /\ copy_filename' = IF cond = "COPY_SEMI" THEN NULL ELSE copy_filename
    /\ UNCHANGED << stacks, parse, current_line, parsing, tokens >>

\* preproc_push_file refuses what is too deep, not there, or one of the
\* includers of the file being read.
\* With a fault: the search leaves out the first entry.
IncludersButFirst == {include_stack[i].filename : i \in DOMAIN include_stack \ {1}}

Includers == {include_stack[i].filename : i \in DOMAIN include_stack}
Refused(c) ==
    \/ Len(include_stack) >= MAX_INCLUDE_DEPTH
    \/ c \notin DOMAIN disk.content
    \/ c \in Includers

\* With a fault: the file to return to is not saved.
lexer_push_buffer_forget(below, c) ==
    /\ opened' = opened + 1
    /\ buffers' = Append(below, disk.content[c]) /\ yyin' = opened + 1
    /\ UNCHANGED << file_stack, closed, twice >>

\* lexer_push_buffer, called for buffers without the copied text in them,
\* has no room when file_stack is full, and says nothing.
lexer_push_buffer(below, c) ==
    /\ opened' = opened + 1
    /\ UNCHANGED << closed, twice >>
    /\ IF Len(file_stack) >= MAX_INCLUDE_DEPTH
       THEN buffers' = below /\ UNCHANGED << file_stack, yyin >>
       ELSE /\ file_stack' = Append(file_stack, yyin)
            /\ buffers' = Append(below, disk.content[c])
            /\ yyin' = opened + 1

CopySemicolon ==
    LET below == [buffers EXCEPT ![Len(buffers)] = Tail(Top)]
    IN  /\ Rule("COPY_SEMI")
        /\ Word = ";"
        /\ cond' = "INITIAL" /\ copy_filename' = NULL
        /\ IF Refused(copy_filename)
           THEN buffers' = below /\ UNCHANGED << files, include_stack, current_filename >>
           ELSE /\ include_stack' = Append(include_stack, [filename |-> current_filename,
                                                           line |-> current_line])
                /\ lexer_push_buffer(below, copy_filename)
                /\ current_filename' = copy_filename
        /\ UNCHANGED << parse, current_line, parsing, tokens >>

\* With a fault: the file that has been read is not closed.
lexer_pop_buffer_open ==
    IF file_stack = << >>
    THEN UNCHANGED << buffers, files >>
    ELSE /\ buffers' = Front(buffers)
         /\ yyin' = Last(file_stack) /\ file_stack' = Front(file_stack)
         /\ UNCHANGED << opened, closed, twice >>

lexer_pop_buffer ==
    IF file_stack = << >>
    THEN UNCHANGED << buffers, files >>
    ELSE /\ Close(yyin)
         /\ buffers' = Front(buffers)
         /\ yyin' = Last(file_stack) /\ file_stack' = Front(file_stack)
         /\ UNCHANGED opened

\* With a fault: the line is left as lexer_set_filename sets it.
PopFileLine ==
    /\ parsing /\ Top = << >> /\ include_stack # << >>
    /\ lexer_pop_buffer
    /\ include_stack' = Front(include_stack)
    /\ current_filename' = Last(include_stack).filename
    /\ current_line' = 1
    /\ UNCHANGED << parse, cond, copy_filename, parsing, tokens >>

\* With a fault: the include stack is not popped.
PopFileKeep ==
    /\ parsing /\ Top = << >> /\ include_stack # << >>
    /\ lexer_pop_buffer
    /\ current_filename' = Last(include_stack).filename
    /\ current_line' = Last(include_stack).line
    /\ UNCHANGED << parse, include_stack, cond, copy_filename, parsing, tokens >>

\* The end of a COPY file; whatever the start condition, it stays.
PopFile ==
    /\ parsing /\ Top = << >> /\ include_stack # << >>
    /\ lexer_pop_buffer
    /\ include_stack' = Front(include_stack)
    /\ current_filename' = Last(include_stack).filename
    /\ current_line' = Last(include_stack).line
    /\ UNCHANGED << parse, cond, copy_filename, parsing, tokens >>

\* The end of the document: yyterminate, and the parser is done.
EndOfInput ==
    /\ parsing /\ Top = << >> /\ include_stack = << >>
    /\ EndParse
    /\ UNCHANGED << buffers, parse, cond, copy_filename, current_line, tokens >>

Lex == \/ NewLine \/ Token \/ DefineName \/ CopyKeyword \/ CopyName \/ Unexpected
       \/ CopySemicolon \/ PopFile \/ EndOfInput

Next == (\E d \in disk.documents : StartParse(d)) \/ Lex

Spec == Init /\ [][Next]_vars
\* A parse that has been started is carried on with.
FairSpec == Spec /\ WF_vars(Lex)

-----------------------------------------------------------------------------
\* The values of the variables.  flex's stack of buffers and file_stack are
\* in step; every includer has a line to return to.
Filenames == STRING \cup {NULL}
TypeOK ==
    /\ buffers \in Seq(Seq(STRING)) /\ Len(buffers) = Len(file_stack) + 1
    /\ file_stack \in Seq(Nat) /\ Len(file_stack) <= MAX_INCLUDE_DEPTH
    /\ include_stack \in Seq([filename : Filenames, line : Nat \ {0}])
    /\ Len(include_stack) <= MAX_INCLUDE_DEPTH
    /\ cond \in Conditions
    /\ cond = "COPY_SEMI" => copy_filename \in STRING
    /\ current_filename \in Filenames /\ current_line \in Nat \ {0}
    /\ opened \in Nat /\ fp \in Nat /\ yyin \in Nat

\* A file is inside itself at most once more: only its own COPY of itself is
\* not seen to be circular, and that no more than once, so that the depth of
\* COPY is bounded by the files there are, whatever MAX_INCLUDE_DEPTH.
\* (is_in_include_stack)
NoCycle ==
    \A i, j \in DOMAIN include_stack :
        i < j /\ include_stack[i].filename = include_stack[j].filename => j = i + 1

\* No file is closed twice, and a parse that was not given up leaves none
\* open.  (lexer_pop_buffer, tbol_parse_string)
GivenUp == Len(tokens) = 1 /\ tokens[1].kind # "PROGRAM"
ClosedOnce ==
    /\ ~ twice
    /\ ~ parsing /\ parses > 0 /\ ~ GivenUp => fp .. opened \subseteq closed

\* The texts a parse is reading: its part of the stacks, which lies on what
\* parses that were given up have left, with the line each is to be continued
\* at.  Only the text on top can be within a COPY or DEFINE.
Left == Len(file_stack) - Len(include_stack)
FrameAt(i) ==
    LET n == Len(include_stack)
    IN  [file |-> IF i <= n THEN include_stack[i].filename ELSE current_filename,
         rest |-> buffers[Left + i],
         line |-> IF i <= n THEN include_stack[i].line ELSE current_line,
         expects |-> IF i <= n THEN "INITIAL" ELSE cond,
         name |-> IF i > n /\ cond = "COPY_SEMI" THEN copy_filename ELSE NULL]
Frames == IF parsing THEN [i \in 1 .. Len(include_stack) + 1 |-> FrameAt(i)] ELSE << >>
Promise == INSTANCE CopyText WITH frames <- Frames

\* The parser is given what CopyText promises, in every parse and however the
\* ones before it ended: the stacks stay in step, COPY by COPY, and what an
\* earlier parse left on them is never read.
\* (lexer_push_buffer, lexer_pop_buffer, preproc_push_file, preproc_pop_file)
ReadsAsPromised == Promise!CSpec

\* What that needs of the texts.  A COPY that is carried out finds room in
\* file_stack, whatever the parses given up have left there; no text, and no
\* parse, ends within a COPY or DEFINE.
Room == Rule("COPY_SEMI") /\ Word = ";" /\ ~ Refused(copy_filename) => Len(file_stack) < MAX_INCLUDE_DEPTH
EndsClean == ~ parsing \/ Top = << >> => cond = "INITIAL"

\* Every parse comes to its end, circular COPYs and all.
Finishes == parsing ~> ~ parsing
=============================================================================
