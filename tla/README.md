# A verification development for the TBOL toolchain

TBOL is the language of the Prodigy service. The repository holds a compiler
(`tbolc`), a decompiler (`tboldc`) that verifies its own output by compiling it
again, a disassembler (`tboldasm`), a formatter (`tbol-fmt`) and a language
server (`tbol-lsp`), on top of a shared library that parses source and decodes
bytecode. This directory holds TLA+ models of the parts whose correctness is
hard to test, the TLC configurations that check them, and proofs that TLAPS
checks.

    cd tla
    tlc -config MCCodegen.cfg MCCodegen      # model-check one configuration
    tlapm CodegenProofs.tla                  # check the proofs of one module

## 1. The system

| Part | Source | State it keeps | Operations |
|---|---|---|---|
| Preprocessor | `compiler/lexer/` | stack of open files (32), stack of DEFINE expansions (32), defines, COPY overrides (16), recorded events | push and pop a file, expand a name, record an event |
| Parser | `compiler/parser/tbol.y`, `shared/tbol_parse.c`, `shared/ast.c` | the tree | one reduction per rule |
| Semantic analysis | `compiler/sema/` | symbol table, RDA and PEV slots handed out, labels and procedures | collect declarations, collect labels, validate |
| Code generator | `compiler/codegen/` | code buffer, tables of labels and procedures, forward references, counters of generated labels | one function per statement; `define_label`, `define_proc`, `emit_jump` |
| Pipeline | `compiler/main.c`, `compile.c`, `diag/`, `options.c` | options, counted diagnostics | compile one file, the `.cod` and the `.sdb` it leaves |
| Bytecode library | `shared/bytecode/` | the decoded program, procedures, symbols | `decode_program`, `find_procedures`, symbol analysis |
| Decompiler | `decompiler/` | mode table of the conditional jumps, temporary files | structure a procedure; search for a mode table whose text compiles back (`emit_verified`); final check (`verify_roundtrip`) |
| Disassembler, formatter | `disassembler/`, `formatter/` | none | print |
| Language server | `lsp/` | lifecycle state, open documents with their trees and diagnostics | one handler per message |

How they meet:

* The compiler's stages run one after the other on global tables; each is
  reset by hand at the start of a compilation or of a procedure.
* Compiler and bytecode library never call each other. They meet in the
  bytes: what `codegen_operand.c`, `codegen.c` and `codegen_verbs.c` write,
  `decode.c` must read with the same lengths, and nothing in the code marks
  where an instruction starts.
* The decompiler calls the compiler as a library (`tbolc_compile_file`), on
  files in `$TMP` whose names are the same in every run.
* The language server links the parser and the preprocessor and feeds them
  documents the editor has not saved.

What is hard:

* *Order.* References are recorded before the thing they refer to exists and
  are patched in three places, by name, while one of the tables is cleared for
  every procedure.
* *Agreement at a distance.* Mode bytes, counts and the one- and two-byte
  forms are decided in some half a dozen places of the compiler and in one
  switch of the decoder.
* *Shared names.* Two decompilers at once, or one after a crash, read each
  other's temporary files.
* *Nested bounded loops.* The search of `emit_verified` walks procedures,
  jumps and modes under one counter of tries and takes modes back.
* *Limits.* Tables of labels and procedures, `terms[32]`, eight validated
  operands, 16-bit distances.
* *Guesses.* The structurer reads jumps as IF, ELSE, WHILE, DO, AND and OR by
  where they lead; several sources compile to the same code.
* *Partial failure.* The parser recovers, a table is full, a debug file
  cannot be written: what do the result, the files and the caller say?

What makes each part correct:

| Part | Correct when |
|---|---|
| Linker of the code generator | every jump ends at the label the source names, in its procedure; a bound jump is not written again; a table that is full is not passed over silently |
| Operands and instructions | the decoder finds every instruction where it was written, with its operands, counts and offsets, and no other |
| Control flow | the code executes the same verbs and comparisons in the same order as the source, and does not run in circles where the source does not |
| Symbol analysis | the declarations guessed put every variable back into its slot |
| Search of the decompiler | source handed out compiles to the original; the search ends, within its budget, and never on a text that is worse than the first |
| Semantic analysis | names that compile have one meaning; slots handed out do not overlap |
| Preprocessor | a file is never inside itself; every file that was opened is closed; expansion ends |
| Language server | diagnostics shown are those of the text shown, COPY files included; what is asked about a name is answered for the places it stands at, in the lines of the file they are in; the lifecycle is that of the protocol |
| Pipeline | a result of 0 means there is a `.cod` of this source |

## 2. Modules

| Module | Models | State |
|---|---|---|
| `Linker` | what linking promises: a jump is bound in the step in which its name gets a place, and never moves | `jump`, `entry`, `place`, `goes`, `status` |
| `Codegen` | the linker of the compiler: `define_label`, `define_proc`, `emit_jump`, `emit_cond_jump`, `gen_goto_depending_on`, `gen_proc_call`, `gen_proc`, end of `codegen_generate` | `size` (emit_get_offset), `word` (the patched words), `labels`, `proc_defs`, `refs` (the list of emit.c), `current_proc_name`, `error_count`, `result` as in the code. `begun`, `named`, `site` and `where` are history: what the source meant |
| `OperandCodec` | one operand: `compute_operand_value`, `needs_extended_encoding`, `emit_operand` against `read_operand` | none, functions |
| `Instructions` | every verb of `verb_table` with its handler, every opcode of `opcode_table`, and the loop of `decode_program` | the statements still to write, the code, the decoder's position, what was written and what was decoded |
| `ControlFlow` | `gen_if`, `gen_while`, `gen_do_block`, `gen_condition_false_jump` with its OR cascades, the IF-GOTO option, and what the parser makes of empty statements | the code, what the source still has to do, the program counter |
| `Structure` | `structure.c`: chains of jumps, `detect_or_chain`, the AND group, IF, ELSE and WHILE, the modes of a conditional jump; and the search over them, on the code `ControlFlow` generates | that of `ControlFlow`, with `original` and `found`: the program the code was made of, and how the search ended |
| `Sema` | `sema.c`, `symtab.c`: slots of RDA, PEV and GEV variables, arrays and groups, procedures, labels, the check of every statement | the symbol table (`var_table`, `next_slot`, `structures`, `proc_table`), where the two passes are, errors and warnings |
| `Compiler` | `main.c`, `options.c`, `compile.c`, `diag.c`, the result of `codegen_generate`, `sdb_mark` and `write_sdb`: a process from its arguments, or from the call of another tool, to its files, around `Sema` | options, stage, exit value, the state of the `.cod` and the `.sdb`, the line table; `emitted` is history: which statement each address was written for |
| `DataSection` | the variables a program gets back: the symbol analysis (`symtab_analysis.c`), `emit_data_section`, how `emit_verb` names a group, and the compiler's side of it: slots in the order of the declarations, block moves, CLEAR and SAVE with their counts | the program and its `code`, the symbol `table`, how much of the code has been looked at, the DATA section written so far (`groups`, `next`) |
| `Verify` | `emit_verified`, `try_mode`, `verify_roundtrip`, the end of `main`, for any number of runs that share the temporary directory, some of which may be killed | per run: place in the loops, tries, mode table, last result; shared: the files; and what the compiler is known to make of each text |
| `Preproc` | the scanner's stacks through any number of parses in one process: `preproc_push_file`, `preproc_pop_file`, `lexer_push_buffer`, `lexer_pop_buffer`, the rules of `tbol.l` that concern COPY and DEFINE, beginning and end of `tbol_parse_string` | `include_stack`, `file_stack`, `yyin`, `copy_filename`, `current_filename`, `current_line`; `buffers` (flex's stack, what is left of each text), `cond` (the start condition). `tokens`, `opened`, `closed` and `twice` are history: what the parser was given, which files were closed |
| `CopyText` | what the scanner promises the parser, abstractly: the words of a document with each COPY replaced by its file, word by word | `frames`, the texts being read, one within the other; `tokens` |
| `LspDocs` | the documents of the language server: `handle_did_open`, `handle_did_change`, `handle_did_save`, `handle_did_close`, `handle_configuration_response`, `document_parse_with_overrides`, `document_parse_copy`, the COPY index | `documents` in the order of the store, `content`, `index`, `parent` (parent_src_uri), `shown` (the parse behind the diagnostics published last), `paths`, `style`, `pending`; and the `disk` |
| `Formatter` | `tbol_fmt.c`, pass after pass, and its two callers | the `text` (lines with an indentation and words) and the last `call` |
| `LspServer` | dispatch and the lifecycle (`server.c`, `main.c`), the configuration request, references and rename over several documents, on `LspDocs` | `state`, `supports`, `next_request_id`, `unanswered`, `exit`; `applied`, `stopped` and `answer` are history |
| `Parser` | scanner and grammar as functions: `tbol.l` with the DEFINEs and events of `preproc.c`, `tbol.y` rule by rule with the place of every node and the recovery from errors | none, functions |
| `Queries` | what the server answers from the tree and the events of the last parse: definition, references, hover, prepareRename, completion, signatureHelp, outline, workspace symbols, folding, colours, selection, and the hints of `append_unused_diagnostics` | `text` (the files of the editor), `ast`, `events`, `answer`; `stale` is history: the tree is not that of the text |
| `CodegenProofs`, `OperandCodecProofs`, `InstructionsProofs`, `VerifyProofs`, `PreprocProofs`, `LspServerProofs`, `CompilerProofs` (with `Sema`), `DataSectionProofs` | theorems about these | |
| `MC*` | values for TLC | |

`Instructions` uses `OperandCodec` for its operands. `Codegen` and
`Instructions` split the work of one function each: `Instructions` sees the
bytes of an instruction with the offset carried as it comes, `Codegen` sees
only lengths and offsets. `ControlFlow` takes from both that a jump arrives at
its label and that an instruction is decoded as it was written. `LspDocs`
takes from `Preproc` that a parse reads the text it is given and the files that
text copies, each once and to its end, whatever was parsed before
(`OwnText`): there a parse is one step. `Queries` extends `Parser` and takes from `LspDocs` that the tree is that of
the text. `LspServer` extends `LspDocs`,
`Compiler` extends `Sema`, `Structure` extends `ControlFlow`; `DataSection` has
of `Sema` and `Instructions` what it needs, for one program at a time; `Codegen` is shown
to implement `Linker`.

An operator whose comment begins with "With a fault" is a variation of the
definition that follows it, with an error a programmer could make in that
code. No specification uses it; it is there to see that a property would
notice.

### How the models abstract

* Names compare without regard to case in the code, so they are model values.
* Bytes are numbers in `Instructions` and `OperandCodec`. `Codegen` has only
  lengths, because a label is an offset and nothing else.
* Numeric literals are written as text by the compiler, and are texts here.
  The attribute bytes of SET_ATTRIBUTE and the function numbers of
  SET_FUNCTION are carried from the statement to the code.
* In `ControlFlow` a verb and a comparison are events with an identity; what
  they do to the data is not seen, and a comparison may come out each way.
* In `Verify` the compiler is an arbitrary function from text to outcome,
  found out at the first compilation of a text and kept. That it depends on
  nothing but the text is what the search itself relies on. The outcome
  "no error and no code" exists because `compile.c` returns 0 after the parser
  has recovered from a syntax error.
* In `Preproc` a text is a sequence of words: keywords, names, `;` and the end
  of a line; comments and blanks are left out. Names do not expand. Of the
  parser it has that a parse is given up when the first token is not PROGRAM,
  and otherwise reads on to the end.
  Once `file_stack` is full, later pops close the wrong files, and reading a
  closed one is undefined; the runs stay below that, and `GivenUpWithin` of
  `MCPreproc` (with `MAX_INCLUDE_DEPTH = 2` and `MaxParses = 4`) shows it.
* In `LspDocs` a message is handled in one step, for the server reads the next
  one when the handler has returned. Of a text only the COPY files it names
  matter; two versions are two texts. What is shown is the parse itself (which
  source, with which text, which texts of which COPY files), so that "fresh"
  means: a parse now would be given the same. The client opens a closed
  document, changes, saves and closes an open one, as the protocol has it.
* What `Sema` refuses is a guard in `Codegen` (two labels of a name, a GOTO to
  no label, a call backwards) and a limit of the statements of `MCInstructions`
  (the operands `verb_specs` lets through). In `Sema` a body is the pre-order
  sequence of its statements, because both passes visit it so; an operand is
  the names in it and the kind of node it is.
* In `Compiler` the parser is its outcome (a tree, errors, warnings, whether it
  gave up), and a statement is a number of bytes: the line table asks for no
  more. Files are "none", "old", "cut" or "new".
* In `Structure` an address is the index of an instruction and jumps carry it,
  for the linker is known to bind them rightly (`Codegen`). Compiling a text
  again is the generator of `ControlFlow` itself.
* In `DataSection` the source is compiled, its code analysed, declared and
  compiled again. Of a statement only the operands and the count matter. A
  subscript that is a literal does not come out of this compiler, so an array
  gets its size from a comparison of its register or from a whole move, CLEAR
  or SAVE. A literal stands in a jump for the conditional jump that holds it.
* In `Formatter` words are separated by one blank, keywords are capital and the
  labels are those of the decompiler (`label_7`). A label in
  other letters, and `END;` with two blanks before ELSE, the passes do not see.
* In `LspServer` a text has the names outside comments and strings and those it
  defines; what is edited within a line is not seen.

* In `Parser` and `Queries` a word is two columns wide and a blank follows it;
  comments and strings do not occur, and a DEFINE stands for one word. Lines and
  columns are what these modules are about, so they are counted as the code
  counts them, with the columns that go wrong on the first line of a COPY file
  and behind a DEFINEd name. The operators take the place in the token sequence
  and return nodes and place; an error within a rule is the token it stopped at,
  and the recovery is the ";" the parser skips to. Both modules were compared
  with the compiled parser and language server on some 1600 texts put together
  at random, good ones and wrong ones, and agree with them node by node.

## 3. What the runs check

| Run | Question | Bounds |
|---|---|---|
| `codegen` | do jumps and calls link as the source means and as `Linker` promises, in every order; does an overflow of a table pass for success; distances at the limits of 16 bits | three procedures where the table holds two, two labels where it holds one; 49200 bytes in blocks of 16383, which puts distances just below, at and beyond 32767; every way writing the files can fail |
| `instructions` | does the decoder stay in step | every verb and every count of operands on which the two sides agree, one operand at a time (or all of them) of each kind that changes the length, followed by a second statement and RETURN |
| `instructions_many` | violated: a STRING of sixteen operands, the last of them long, which the compiler accepts and the decoder loses | that program |
| `controlflow` | does the code do what the source says, and the source the decompiler makes of the code; does either side fall behind; does the search find a text that compiles back | one statement, or one inside another, in the middle of a procedure with labels before, inside and behind; conditions of up to four comparisons in thirteen shapes; each compiled with and without the IF-GOTO option and decompiled when that is off |
| `compile` | do slots overlap; does the analysis accept the well-formed programs and no others; do result and files agree; does the line table find each statement | two compilations in one process by each of three entries; DATA sections with doubled names, arrays and groups; eighteen bodies, good and with one thing wrong, alone and behind another procedure; every failure of opening and writing |
| `verify` | what is handed out is right though two runs share files and one may be killed; success is true, and the result never worse, of a run the other does not disturb; the search ends | two programs of two procedures with two jumps in the first, five tries for the one (one less than its search would use) and one for the other |
| `preproc` | is each document read as its own text, COPY files included, in however many parses, and as `CopyText` promises; is every file closed once; does every parse end | three parses of documents that copy files in files, in circles, deeper than the limit of 6, with a COPY or DEFINE that is none, or that are given up within a COPY |
| `datasection` | does every operand come back to its slot; does the same code come back when arrays and groups are whole | three DATA sections of seven and eight slots (scalars, arrays, both in groups); up to three statements of ADD, MOVE, CLEAR, SAVE and a comparison with every operand; eight slots and two ranges in place of 222 and 32, so the last array runs into the end and the table overflows |
| `lsp` | are the diagnostics shown those of the texts in the editor, for sources and for COPY files | two sources, two COPY files, one found by an include path only; every order of opening, changing, saving, closing and the client's answer |
| `formatter` | does formatting keep the program, and change nothing the second time | programs of one block inside another with statements around, up to ten words, broken into lines at every set of places, with an empty line behind each of up to three of them; a comment between any two words of the shorter ones; labels, literals, DATA and PROC; two widths and none, with and without stripping and cuddling |
| `queries` | do definition, references and colours agree with the words of the text, in the lines of the file they are in; are the unused hints right | 25 texts: a program split in every way between a source and two COPY files, one within the other or behind it; texts with every kind of name and use, with statements and labels in COPY files, with a wrong statement, and two half-typed ones that have no tree or not that of the text; a cursor at every column of every file |
| `lsp_server` | does the newest configuration win, do documents change only between initialized and shutdown, does a rename reach every document it is about, does a search find the sources with the name and no others | a COPY file that defines a name and two sources that copy it, one of which may never use the name, one define it itself, each on the disk or in the editor only; documents opened and closed unsaved; two requests of the server; every order of messages, also ones the protocol forbids |

Why the bounds are enough. In `Codegen` a fault needs a reference, a label of
the same name and at most a second procedure in between; two of each give
every order of these. In `Instructions` the decoder's state between two
instructions is a position, so one statement after another shows a loss of
step; a second operand changes nothing for the first except through the mode
byte, which is why tuples with one odd operand and tuples of odd operands only
are used, and 9 and 17 operands for the further mode bytes. In `Sema` a name
is looked at against the table alone, so one wrong thing, before or after a
good one, is every case; two compilations show what is left of the first. In
`ControlFlow` and `Structure`
the generator recurses over the tree with nothing but its counters in common,
so a construct inside another and a condition under another, in each place,
are the cases there are. In `Verify` the loops nest three deep, and two jumps
under one procedure with an empty one behind it turn each of them more than
once. In `Preproc` what one parse leaves to the next are
three stacks and a start condition, so two parses show what is left and a third
what adds up. In `DataSection` a guess about a slot depends on how it, its
neighbour and its register are used: three statements for three uses. In `LspDocs` the index connects one COPY file with several
sources and a source with several COPY files; two of each have both, and the
order of the documents, on which the choice of the parent depends. In `Queries` a place
goes wrong by the COPYs before it and around it: two files, one within the other
or one behind the other, with the DATA, a call backwards and one forwards on each side, are the ways there are.

`CHECK_DEADLOCK FALSE` stands where the program stops: a compilation has
ended, the code is decoded, a decompiler has exited.

### Fairness

`ControlFlow` and `Structure`: weak fairness of the silent steps, of the source and of the
code separately: execution goes on. None is assumed of events, so nothing is
claimed about a loop of the program itself. `Verify`: weak fairness of each
run, for the operating system schedules it; none for `Kill`. `Preproc`: weak
fairness of the scanner's steps (`Lex`), for a parse that has been started runs
on; none for starting one. The others have no liveness: a handler of the
language server is one step, and `Sema` and `Compiler` walk a finite tree.

## 4. What is proved

All modules of proofs hold for every value of the constants that meets
the module's assumption (names that are not None, table sizes and lengths that
are numbers; for `Sema`, `Compiler` and `DataSection`, programs of the form the
parser hands over, `ProgramsAssumption`). What a theorem needs besides stands in its `ASSUME`
or, for `EachClosedOnce` and `ReadsItsText`, in front of its implication, and is explained below.

**`CodegenProofs`.** `TypeCorrect`, `JumpsNeverAstray`, `BoundJumpsStay`,
`CleanMeansLinked`. `BoundJumpsStay` proves `BoundForever`, which no run checks by
itself, for `Linker` promises as much. `NoJumpAstray` is not inductive: to patch a reference
rightly one needs that no two references are for one position, that a
reference agrees with the jump it was recorded for, that the table of labels
holds exactly the places of the current procedure, and that a label not named
yet is not in it. `IInv` is the conjunction of the types and of

* `SitesOK`, `RefsOK`: positions lie within the code; a reference is one of
  the jumps, with the same name and procedure;
* `PlacesOK`: offsets in the tables are what the source meant and lie within
  the code;
* `NamesOK`, `LabelsOK`: the procedures defined have begun; `labels` is the
  part of `where` of the current procedure;
* `PendingOK`: what waits for a label of the current procedure waits for one
  not yet in the table, which is why the second pass of `gen_proc` finds
  nothing to do (`SecondPassIdle`);
* `NoJumpAstray` itself.

The distance that survives the 16-bit word and back (`ForwardWord`,
`BackwardWord`) is proved once and used by every action that writes one.
`CleanMeansLinked` needs `JInv` besides: without an error no definition was
dropped (`NothingLost`), every label a finished procedure jumps to is bound
(`FinishedBound`), only calls are open between procedures (`OpenCalls`), and
after `Finish` they are linked (`LinkedWhenClean`).

`CodegenLinks`, in the same module: `Codegen` implements `Linker`. The
abstract `goes` is where the decoder says a jump lands, or nothing while its
reference waits. The proof needs, besides `JInv`, that a label with a place is
in the table while its procedure lasts (`LabelsExact`: else a jump written
after its label would wait for ever) and that, without an error, a finished
procedure leaves no reference behind (`NoneLeft`). Each action of `Codegen` is
then `Write`, `Enter`, `Meet`, `Close` or a stutter; in particular the second
pass of `gen_proc` is always a stutter.

`JumpsNeverLeave`: no jump leaves its procedure. What has to be kept besides `IInv` is where labels lie: a procedure being emitted is
the last in the table (`LastIsCurrent`), so its labels come after every entry;
and between the entry of a finished procedure and the next one lie all its
labels (`LabelsWithin`). With `NoJumpAstray` a bound jump then lands in between,
if the distance fits, and in 32768 bytes every distance does.

**`OperandCodecProofs`.** `DirectRoundTrip`, `IndexedRoundTrip`,
`ConstantRoundTrip`: whatever bytes surround it, an operand is read back as the
variable it was and the reader stops right behind it. The constants are the
252 slots, registers, external variables and 32000 global ones of the language,
so the claim is about values TLC does not enumerate in `Instructions`.

**`InstructionsProofs`.** `DecoderInStep` and `DecoderComplete`: for any
programs, however long, of statements on which the two sides agree, the decoder
finds each statement where it was written, with its opcode, operands, counts and
offsets, and when it stops it has found them all. The premise is
`AgreedPrograms`. `Agreed` says it verb by verb: as many operands as the opcode
has in `opcode_table`, operands of any of the kinds `IsOperand` lists in any mix,
a count that fits its byte. What it leaves out is what section 5 shows to go
wrong (`BareKill`, `Ninth`, `FieldObject`, `RangeToLiteral`, `LastSubscript`,
`GroupElement`, `GroupSubscript`, START, a long operand among more than eight of
a variadic verb). A DATA group is not an array there: the symbol table keeps the
two apart, and the code asks for one, the other or both from place to place. A
group has neither an element with a constant subscript nor, behind slot 157, a
place as a subscript, and is moved like a variable where an array is moved as a
block; CLEAR, SAVE and the end of a range treat them alike. TLC evaluates that
every statement of the run meets it (`AllAgreed` in `MCInstructions`).

Neither property is inductive: that the next instruction is decoded rightly
needs to know what lies in the code at `pos`. `Steady` says it:

* `Writing`: the statements written lie in the code one behind the other from
  the first byte on, each whole at its place (`Laid`), so the bytes at the place
  of a statement are those `Generate` made of it, and stay so when more is
  appended (`OneMoreLaid`);
* `Reading`: the decoder has begun only when all is written, has found no more
  than was written, and stands at the place of the next statement, or behind the
  last byte (`PosAfter`);
* `InStep` itself.

What a decoding step does then follows from `AgreedSound`: an agreed statement,
whatever code it stands in, is decoded as it was meant, and its length is what
the decoder advances by. The argument goes up in layers: one operand
(`OperandCodecProofs`, and texts, arrays, groups, RDA_FIRST and RDA_LAST, added
here); the mode bits, taken apart again by the reader (`Bit` of `ModeByte`); a
sequence of operands, by induction over its length, since both sides run through
it (`Emitted`, `ReadOperands`); the forms an instruction can have (operands alone,
behind a count, with other bytes behind them, the tables of GOTO_DEPENDING_ON,
the text of SET_ATTRIBUTE, the split mode bytes of MAKE_FORMAT); and the verbs,
each of which is one of the forms under the number of operands `opcode_table`
has for it.

**`VerifyProofs`.** `OnlyVerifiedOutput`: for any number of runs, killed or
not, source handed out without `-f` compiles to the original. The invariant
says that what has been found out about a text does not change and that the
output was found to compile to the original; the shared files do not occur in
it, which is the point.

`SearchWithinBudget`, `SuccessTold` and `NeverWorse`, in the same module, rest on
three invariants, each on top of the one before:

* `TInv`: the types, and `Budgeted`: where in the nested loops a run may be
  with how many tries used;
* `MInv` adds `Untouched`: the jumps of later procedures, and those of this one
  not tried yet, are still `FULL`, so that what the first loop sets back is
  what was there (this needs that no jump is in two procedures);
* `OInv` adds `Own`, what a run can rely on while no other has written to its
  files: they hold what it put there (`OwnFiles`), success means the original's
  code (`OwnSuccess`), and the text at the head of a loop, or the one with the
  mode taken back while a try is under way, compiles if the first did
  (`Better`). A step of another run either disturbs (`Disturbs`) or leaves all
  of this alone (`OwnOthers`).

**`PreprocProofs`.** `TypeCorrect`: for all files and documents and any number
of parses the stacks keep within their arrays and in step. `NeverCircular`: no
file is inside itself but by its own COPY of itself. A push compares the new
file with the names of the *includers*, which are one behind the files that are
open, so the induction needs `CurrentLast`: the file being read is the top of
the files open, and the ones below are the includers. `EachClosedOnce`: no file
is closed twice, and a parse that ends by itself has closed all it opened, as
long as a COPY that is carried out finds a place in `file_stack`, whatever parses
that were given up have left there (`Room`, assumed of every state; with it full
the property fails, as `GivenUpWithin` shows). `file_stack` is never emptied, so the invariant is about
the part above those leftovers: the files of the present parse lie there in the
order they were opened, the document at the bottom and the one being read on
top, none of them closed; and every other file of this parse is (`OwnFiles`).

`ReadsItsText`: the scanner implements `CopyText`. There the texts being read
are frames, one within the other, and all there is; in the code each is spread
over `include_stack`, `file_stack`, flex's buffers, the start condition and four
variables, all of which outlive a parse. The mapping `Frames` puts together the
part of the stacks that lies above what given up parses have left (`Left`), and
every step of `Preproc` is one of `CopyText` or a stutter, under the two
invariants above (`Mapped`); the lemma of each action has its name with
`Refined` behind it. What it needs of the texts is `Room`, for a COPY that is
carried out, and `EndsClean`: no text and no parse ends within a COPY or DEFINE.
Both hold of the files of the run (TLC finds so with `INVARIANTS Room EndsClean`
in `MCPreproc.cfg`); without them the promise fails, as `GivenUpWithin` shows
for the one and `Typing` for the other.

**`LspServerProofs`.** `NewestIsTaken`: the client may answer the server's
requests in any order, and only the answer to the newest is taken. The invariant is that while an answer is waited for none
so new has been applied (`RequestsOK`). `LifecycleKept`: whatever the order of
the messages, documents change only while the server runs, and the exit code
tells whether shutdown was called; `StateOK` ties the state to what the client
asked for, as long as the process runs. Here None must not be an exit code.

The documents, in the same module. `SourcesStayFresh`: what is shown of an open
source is what a parse would give now; `CopiesStayFresh`: what is shown of an
open COPY file is the state of its own lines in the present text of its source.
The invariant is

* `Stored`, `IsW`: the store has each open document once; texts, parents and
  the index are of their kinds;
* `SourcesOK`: each open source shows the parse of its present text and the
  present texts of the COPY files, and the index knows the source under each
  file it copies. That is why a change of a COPY file reaches it: the index
  never forgets (`Grows`), so it knows at least those it has to;
* `CopyOK`: the parse shown of an open COPY file is one of its parent's present
  text and of its own, if the parent still copies it; the index then knows the
  parent, and where it knows no source the parent is one the disk lists.

A handler parses documents one after another, each with what the one before
left (`ReparseEach`, a recursive function of the model). That each is then
parsed, and the others are not disturbed, is `EachDoes`, by induction over the
natural numbers (`Induction`, from the library's well-foundedness of <, as a
set that contains 0 and successors; the library's own rule takes a predicate).
What is assumed is what makes the property true, each shown by a run that fails
without it (section 5): `Room` (at most `MAX_CONTENT_OVERRIDES` COPY files;
documents opened and closed as saved; a style comes with include paths) and
`Steady` (an edit of a COPY file does not change what *it* copies), for COPY
files `Flat` (they copy nothing).

The requests. `RenameIsComplete` and `ReferencesAreFound` need no freshness, so
they assume less: COPY files of any number, include paths that come and go.
`ServedInv` has that an open source shows a parse of its present text
(`SourceShown`) and what parse is shown of a COPY file (`CopyShown`);
`KnownInv` that the index knows an open source under all it copies now. Each
message is an `Effect` on the store, of which these are preserved, so that
there is one argument for the five messages. Documents may be unsaved and only
`Steady` is assumed. `ReferencesFound` says which sources a search finds, neither
fewer nor more, except of the one the COPY file was parsed through, and of that
only when its text is no longer that of the parse (`Behind`): it is not looked at
again (section 5). `ReferencesAreCurrent` says the same without the exception;
it is assumed that documents are opened and closed as saved, for then `SourceShown`
gives that there is none. Each search is described by what it looks at
(`SearchLooks`, `SearchAnswers`).
`NoneApart` says that None is not a result of a parse.

**`CompilerProofs`.** `SlotsArePartitioned`, `AcceptsJustWellFormed`,
`ExitIsTruthful`, `LineTableIsExact`, `CodIsOfWellFormed`, for every program,
with any number of sections, procedures and statements, and any sequence of
compilations. `SemaInv` is the conjunction of

* `SType`, `Position`: where in the two passes the analysis is;
* `TablesOK`: the table has the names declared so far, each as it was declared
  first (`VarsOK`), groups are those of the sections passed (`GroupsOK`), slots
  are given out without gap or overlap (`SlotsOK`). While a section of new
  variables is read its slots are the last ones, and their number is the number
  of its elements so far (`SectionOK`, by counting a set of pairs); so first
  slot and count, computed apart, agree in the end (`GroupSlotsOK`);
* `ProcsOK`: the table of procedures has those collected, with their labels and,
  as long as there is no error, in the order of the source;
* `ErrorsOK`: the count of errors is 0 exactly while what has been looked at is
  well formed. The converse direction is what a test would not see: no error is
  reported of a good program.

`CompilerInv` adds how far the compilation is and with what (`StageOK`), which
files were touched (`FilesOK`), where the generator is (`GenPosition`), and the
tables for the debugger (`DebugOK`): the lines are in the order of their
addresses and have every address a statement was emitted at (`LinesOK`), and the
procedures begin where they begin (`DefsOK`). A statement that emits nothing
shares its address with the next, and `sdb_mark` then overwrites the entry; the
search for the last entry at or before an address (`LastFound`) is proved to find
the one of the statement.

**`DataSectionProofs`.** `SlotsAreKept`: whatever the guesses about arrays and
groups, if the compiler takes the listing at all then every operand of every
instruction is the slot it was, for any program and any number of slots and
ranges. `ProgramsAssumption` has that the variables of a program fit the RDA, that
registers are I1 to I8 and that an element chosen by a number has a slot.
`DataInv` says

* of the code, that its operands are slots, registers and literals, and that a
  subscript has none of its own (`IsCode`; `Compiled`: the generator writes no other);
* of the table, that every size guessed is a number, every range several slots,
  and `max_slot` a slot (`TableInfo`, kept by each instruction and each guess);
* of the declarations, that each item is named after the slot at which those
  before it end (`Placed`), and a group after its first (`Started`).

The last is why no guess can do harm: a wrong size takes names away, and the
compiler then refuses the listing, but the names that are left are where they say.
Sizes and places are sums over sequences, recursive functions of the model:
`Recursion` has that such a function exists and steps as it says, by the same
`Induction` as above.

Model-checked only, and why:

* `Parser`, `Queries`, `ControlFlow`, `Structure`, `Formatter` and `OwnText`
  (defined in `MCPreproc`) are built on recursive operators over trees and
  texts, for which the prover has no SMT backend;
* `KeepsUp` and `Finishes` are liveness;
* `CompilesBack` of `DataSection` has no proof: it is about the guesses being
  *right*, not only harmless, and would need an invariant for each of the
  heuristics of `symbol_table_scan`, one after the other.

`OwnText` does not hold for all files either: parses given up within a COPY fill
`file_stack` in the end, and with it full it fails (`GivenUpWithin`).

## 5. Where the code disagrees with what is said of it

The runs that TLC ends with a counterexample; `findings` in `PROJECT.json`
quotes the lines.

1. `instructions_many`: STRING, LINK, TRANSFER or CALL with more than eight
   operands, one of them in the long form: the mode bytes are written before
   the count and read after it.

The programs the other runs leave out because compiler and decoder, or source
and code, are known to disagree about them are kept beside the good ones. Put
one in the place of `ManyOperands` in `MCInstructionsManyOperands.cfg`, or of
`Good` in `MCStructure.cfg`, or change the configuration named,
to see it:

| Definition | What happens |
|---|---|
| `StartPrograms` | START is accepted (`sema.c:140`) and compiled to BREAK (`codegen_verbs.c:1031`) |
| `BareKill` | KILL without an operand is accepted (`sema.c:102`); the decoder reads the next opcode as the operand. ERASE, SET_CURSOR, STOP without, CANCEL with an operand and NAVIGATE with two are alike |
| `RangeToLiteral` | SAVE up to a literal is written as a single zero (`codegen.c:193`), the decoder's mark of a string |
| `FieldObject` | a variable as the object of DEFINE_FIELD is written long (`codegen_verbs.c:476`) and read short |
| `LastSubscript` | RDA_LAST as a subscript is cut to one byte (`codegen_operand.c:330`) and read back as RDA29 |
| `GroupElement` | an element of a DATA group with a constant subscript is accepted (`sema.c:342`, `sema.c:355`) and neither a mode bit nor a byte is written for it (`codegen_operand.c:165`, `codegen_operand.c:297`): the decoder reads on into what follows |
| `GroupSubscript` | a DATA group as a subscript is accepted (`sema.c:370`); behind slot 157 the byte written is the low one of its long value (`codegen_operand.c:327`), so slot 200 is read back as slot 8, although the comment above it has subscripts written as 34 + slot |
| `Ninth` | operands past the eighth are not validated (`sema.c:430`); an undeclared name is written as a zero |
| `EmptyThen` | `IF c THEN ; ELSE s` executes s when c holds: an empty statement has no node, so the ELSE is the second child (`codegen_control.c:244`; `tbol.y:557` has it "can occur after COPY expansion") |
| `EmptyWhile` (with `Stale <- Leftover`) | `WHILE c THEN ;` compiles whatever memory holds (`codegen_control.c:302`) |
| `P = P  Q = P` (in `MCVerify.cfg`, and `SuccessIsTrue` without `Undisturbed`) | two runs of one program that share `$TMP` believe each other's files: `emit_verified` returns 0 for a text that was not verified (`verify.c:104`); the final check in a directory of its own keeps it from being handed out |
| `Disks <- Typing` (in `MCPreproc.cfg`) | `yyrestart` does not reset the start condition (`tbol_parse.c:134`), so after a text that ends in COPY, or begins with DEFINE, the next parse of the process reads its first word as the name of a file or of a definition (`OwnText`, `ReadsAsPromised`); in the language server that is what typing a document produces |
| `SavesKept` (in place of `SameSlots` in `MCDataSection.cfg`) | a SAVE of several slots does not come back: the analysis takes its first operand for the start (`symtab_analysis.c:151`: "operand[0] (start slot)"), the decoder its second (`decode.c:441`: "SAVE: count byte then 2 operands (name, start slot)") |
| `Texts <- Nesting` (in `MCLspDocs.cfg`) | the parses of a cascade do not fill the COPY index (`handlers.c:815`), so when a COPY file comes to copy another, a change of that one does not reach the second open source |
| `Newlines = {TRUE, FALSE}` (in `MCFormatter.cfg`) | the edit that is to replace the document ends at the last newline (`handlers.c:3503`), so a last line without one stays behind the formatted text |
| `KeepsWords` (in place of `SameProgram` in `MCFormatter.cfg`) | a comment between THEN or ELSE and the statement on its line is lost (`tbol_fmt.c:426`), although `tbol_fmt.h:4` calls the formatter "Safe for user-written source with comments" |
| `Unsaved = TRUE` (in `MCLspDocs.cfg`) | a document closed without saving leaves the others with results of its unsaved text (`handlers.c:862`); renames and searches are checked with `Unsaved = TRUE` in `MCLspServer` |
| `ReferencesCurrent` (in place of `ReferencesFound` in `MCLspServer.cfg`) | a search asked in a COPY file skips the source this was parsed through ("already searched via the COPY doc's AST", `handlers.c:1990`); opened or closed unsaved since, that source has another text than this tree, though `handlers.c:1874` says of a source that copies the file "If the file is open, uses its existing AST. Otherwise, parses from disk." |
| `Configurations <- StyleAlone` (in `MCLspDocs.cfg`) | a style without include paths is stored and nothing is parsed again (`handlers.c:679`) |
| `MAX_CONTENT_OVERRIDES = 1` (in `MCLspDocs.cfg`) | COPY files beyond the sixteenth are read from the disk (`preproc.c:451`) |
| `ManyTerms` (with `MaxTerms = 3` in place of 32) | terms of an OR chain beyond the size of `terms[]` are left out (`codegen_control.c:160`) |

Besides, met while modelling and part of the models, but no run of their own:

* When a table of labels or procedures is full, or the debug file cannot be
  written, an error is counted and `codegen_generate` returns 0 (`Finish` of
  `Codegen`, `WriteSdb` of `Compiler`), although `codegen.h:28` says "non-zero
  on error". `tbolc_compile_file` returns 0 when the parser counted errors and
  recovered (`Parse`; `compile.h:18`). `-Werror` turns the warnings of the
  parser into errors, and those of the analysis too late to stop anything
  (`Analyzed`; `options.c:63`). What `fclose` could not write is not noticed
  (outcome "close" of `WriteCod`).
* A decompiler that wrote nothing exits with 0 (`VerifyRoundtrip`,
  `decompiler/main.c:208`). The search ends at once when the first text does not
  compile (`verify.c:182`), and the structurer's text for code whose conditions
  mix AND and OR may not: 26 of the 899 programs of `MCControlFlow`, which is
  why `Recovers` leaves them out. A text that compiles to other code may also
  behave otherwise; only the comparison with the original tells. A conditional
  jump backwards, which the IF-GOTO option generates, makes `emit_block` run in
  circles, so the code compiled with the option is not decompiled in the run.
* What `Tidy` of `DataSection` keeps out: an array that is moved or cleared whole
  and whose first element is used alone, or whose other elements are (the
  compiler then refuses a text: "MOVE cannot mix array and scalar"); blocks of
  different lengths that overlap; a register compared with more than the size of
  the array it subscripts, which takes in an array behind it that is only
  subscripted and so loses its name (`array_span_has_interior_names` looks for
  slots used directly, `baseline.c:23`); more blocks than the table of ranges
  holds. The search for a verified text then ends with worse or no source.
* Renaming looks for closed sources only while the index knows no source at all
  (`Cascade` of `LspServer`; `handlers.c:2570`). `initialized` after `shutdown`
  starts the server again, and `exit` then ends it with 1 (`OnlyWhenRunning` has
  that exception).

Of the language server's requests (`Queries` has all of these):

* *Columns.* On the first line of a COPY file they are counted on from the COPY,
  and behind a DEFINEd name from its value (`lexer_set_filename` resets the line
  only). The end of a reference's range leaves out its last character.
* *Lines.* The lines of a COPY file are counted on from the line its ";" stands
  on and converted back by the line of the COPY: they differ when these do. A file
  that is copied twice is converted by the first COPY. Workspace symbols of a COPY
  file come with the source's document and the lines of the tree; the DATA check
  of the completion compares a line of a COPY file with those of the tree
  (`handlers.c:1367`).
* *After a parse that gives up* the old tree is kept "so the LSP can still
  provide completions, hover, and go-to-definition" (`document.c:725`), but the
  events are those of the new text, so places in COPY files are wrong.
* *Definition and references.* Of labels of one name in two procedures the first
  is found. The name behind DATA has no definition. A DEFINE's references are not
  its expanded uses, for these are not in the tree. Asked in a COPY file, the other
  COPY files are not searched. With the cursor at the first column of a
  MAKE_FORMAT's target, the node found is the specification, and nothing comes.
* *Outline.* DEFINEs are not in the outline of a source, although its comment
  promises them (`handlers.c:2110`), and are in that of a COPY file.
* *Signatures.* The verb is read up to an underscore (`handlers.c:2905`):
  GOTO_DEPENDING_ON shows the signature of GOTO, OPEN_WINDOW that of OPEN,
  DEFINE_FIELD and the SET_ verbs none. DIVIDE's has four operands, the
  grammar at most three; SET_ATTRIBUTE's three, the grammar two.
* *Recovery.* A procedure without END_PROC swallows the next up to its first ";".
  A body whose first token is wrong is given up as a whole. The selection ranges
  of a condition do not lie within one another, because a comparison ends where
  its operator begins.

An open COPY file is not parsed again when a *sibling* changes that its source
also copies; `CopiesFresh` therefore speaks of its own text and its source's,
not of the other COPY files, and holds only while none of these comes to copy it
(`Texts <- Nesting` violates it too). And the index never forgets: a source that no
longer copies a file may still be chosen as its parent.

## 6. What is not modelled, and why

| Part | Why |
|---|---|
| output directory and dependency options of `options.c`, formatting of diagnostics | they decide names and wording |
| DEFINEs of more than one word, the 32 expansions of a token | `Parser` has those of one word; the texts of the others are characters |
| `find_procedures` of `shared/bytecode/` | `Structure` takes one procedure as given |
| the text `emit_block` prints, its labels and indentation | `Structure` has the statements; the compiler reads these |
| wording of answers, the keywords and snippets of the completion | layout |
| disassembler, `.sdb` format | they print |
| `cJSON.c`, `lex.yy.c`, generated parser tables | third-party and generated |

## 7. What could follow

1. DEFINE expansion in `Preproc`, with the theorem that expansion ends within
   the stack.
2. `Verify`'s compiler as an instance of `Compiler`.
3. Proofs: `CompilesBack` of `DataSection`; that `Sema` accepts only statements
   that are `Agreed` or among those of section 5, which would join `Compiler` to
   `InstructionsProofs`.
