------------------------------ MODULE Compiler ------------------------------
(***************************************************************************)
(* The compiler from its command line, or from the call of another tool,   *)
(* to the files it writes: main.c, options.c, compile.c, diag.c and the    *)
(* parts of codegen.c and sdb.c that decide about the result and about the *)
(* line table.  Sema is the analysis in the middle; the parser is its      *)
(* outcome, what each statement is translated to is in Codegen.            *)
(***************************************************************************)
EXTENDS Sema

CONSTANTS
    MAX_INCLUDE_PATHS,
    MAX_PROCS,
    MaxArgs,            \* bound: arguments of one command line
    MaxRuns             \* bound: compilations in one process

VARIABLES
    entry,              \* "main"; "compile" and "parse" for the library's functions
    options,            \* what is set of g_options
    stage,              \* where the compilation is
    args,               \* arguments read
    paths,              \* g_options.include_path_count
    exit,               \* what the entry returns (of parse: 0 for a tree)
    cod, sdb,           \* "none", "old", "cut" or "new"
    offset,             \* bytes of code emitted
    lines,              \* sdb.c: << address, << child, item >> >> in order
    proc_defs,          \* << name, address >> in order
    emitted,            \* address -> << child, item >> whose code starts there
    runs                \* compilations begun

vars == << svars, entry, options, stage, args, paths, exit, cod, sdb, offset,
           lines, proc_defs, emitted, runs >>
files == << cod, sdb >>
debug == << offset, lines, proc_defs, emitted >>

CInit ==
    /\ Init /\ werror = FALSE
    /\ entry \in {"main", "compile", "parse"} /\ options = {}
    /\ stage = "start" /\ args = 0 /\ paths = 0 /\ exit = 0
    /\ cod \in {"none", "old"} /\ sdb = cod
    /\ offset = 0 /\ lines = << >> /\ proc_defs = << >> /\ emitted = Empty /\ runs = 1

Finish(code) == stage' = "cleanup" /\ exit' = code
Stop(code) == stage' = "done" /\ exit' = code

-----------------------------------------------------------------------------
(* options_parse: one argument after another; --help and --version end it. *)

Flags == {"sdb", "check", "preprocess", "werror"}
Reading == stage = "start" /\ entry = "main" /\ args < MaxArgs /\ args' = args + 1

ArgInfo ==
    /\ Reading /\ Stop(0)
    /\ UNCHANGED << svars, entry, options, paths, files, debug, runs >>

ArgFlag(f) ==
    /\ Reading
    /\ options' = options \cup {f}
    /\ werror' = (werror \/ f = "werror")
    /\ UNCHANGED << ast, pass, at, item, tables, error_count, current_proc, diag_errors,
                    warnings, entry, stage, paths, exit, files, debug, runs >>

ArgInclude ==
    /\ Reading
    /\ IF paths >= MAX_INCLUDE_PATHS
       THEN Stop(1) /\ paths' = paths
       ELSE paths' = paths + 1 /\ UNCHANGED << stage, exit >>
    /\ UNCHANGED << svars, entry, options, files, debug, runs >>

ArgInput ==
    /\ Reading
    /\ IF "input" \in options
       THEN Stop(1) /\ options' = options
       ELSE options' = options \cup {"input"} /\ UNCHANGED << stage, exit >>
    /\ UNCHANGED << svars, entry, paths, files, debug, runs >>

\* An unknown option, or -o or -I without its argument.
ArgWrong ==
    /\ Reading /\ Stop(1)
    /\ UNCHANGED << svars, entry, options, paths, files, debug, runs >>

\* All arguments read: without an input file there is nothing to do.
OptionsDone ==
    /\ stage = "start" /\ entry = "main"
    /\ IF "input" \in options THEN stage' = "open" /\ exit' = exit ELSE Stop(1)
    /\ args' = 0
    /\ UNCHANGED << svars, entry, options, paths, files, debug, runs >>

\* The library sets the options itself; more directories than the table
\* holds are left out without a word.
SetUp(n) ==
    /\ stage = "start" /\ entry # "main"
    /\ options' = {"input"} /\ werror' = FALSE
    /\ paths' = IF n > MAX_INCLUDE_PATHS THEN MAX_INCLUDE_PATHS ELSE n
    /\ stage' = "open"
    /\ UNCHANGED << ast, pass, at, item, tables, error_count, current_proc, diag_errors,
                    warnings, entry, args, exit, files, debug, runs >>

-----------------------------------------------------------------------------
(* From the source file to the tree.                                       *)

Open(opened) ==
    /\ stage = "open"
    /\ IF opened THEN stage' = "parse" /\ exit' = exit ELSE Finish(1)
    /\ UNCHANGED << svars, entry, options, args, paths, files, debug, runs >>

\* yyparse: the tree, the errors the parser recovered from and those of the
\* preprocessor, the warnings, and whether it gave up.  A library function
\* returns what yyparse returned, errors counted or not.
Parse(tree, errors, warned, failed) ==
    /\ stage = "parse" /\ "preprocess" \notin options
    /\ diag_errors' = diag_errors + errors + (IF werror THEN warned ELSE 0)
    /\ warnings' = warnings + warned
    /\ ast' = tree /\ pass' = 0
    /\ IF failed \/ diag_errors' > 0
       THEN Finish(IF failed \/ entry # "compile" THEN 1 ELSE 0)
       ELSE IF entry = "parse" THEN Finish(0)
       ELSE stage' = "analyze" /\ exit' = exit
    /\ UNCHANGED << at, item, tables, error_count, current_proc, werror, entry, options, args,
                    paths, files, debug, runs >>

\* -E: the tokens are printed, nothing is parsed.
Preprocess(errors, warned) ==
    /\ stage = "parse" /\ "preprocess" \in options
    /\ diag_errors' = diag_errors + errors + (IF werror THEN warned ELSE 0)
    /\ warnings' = warnings + warned
    /\ Finish(IF diag_errors' > 0 THEN 1 ELSE 0)
    /\ UNCHANGED << ast, pass, at, item, tables, error_count, current_proc, werror, entry,
                    options, args, paths, files, debug, runs >>

Semantics ==
    /\ stage = "analyze" /\ Analyze
    /\ UNCHANGED << entry, options, stage, args, paths, exit, files, debug, runs >>

\* With a fault: the library goes on after errors.
AnalyzedLoose ==
    /\ stage = "analyze" /\ pass = 3
    /\ IF error_count > 0 /\ entry = "main" THEN Finish(1)
       ELSE IF "check" \in options THEN Finish(0)
       ELSE stage' = "generate" /\ exit' = exit
    /\ at' = 1 /\ item' = 1
    /\ offset' = 0 /\ lines' = << >> /\ proc_defs' = << >> /\ emitted' = Empty
    /\ UNCHANGED << ast, pass, tables, error_count, current_proc, diag_errors, warnings, werror,
                    entry, options, args, paths, files, runs >>

\* sema_analyze returns: its own errors decide, warnings under -Werror do not.
Analyzed ==
    /\ stage = "analyze" /\ pass = 3
    /\ IF error_count > 0 THEN Finish(1)
       ELSE IF "check" \in options THEN Finish(0)
       ELSE stage' = "generate" /\ exit' = exit
    /\ at' = 1 /\ item' = 1
    /\ offset' = 0 /\ lines' = << >> /\ proc_defs' = << >> /\ emitted' = Empty
    /\ UNCHANGED << ast, pass, tables, error_count, current_proc, diag_errors, warnings, werror,
                    entry, options, args, paths, files, runs >>

-----------------------------------------------------------------------------
(* Code generation, as far as the line table sees it: how many bytes a     *)
(* statement emits and where.                                              *)

Generating(kind) ==
    /\ stage = "generate" /\ at <= Len(ast.children) /\ Child.kind = kind
    /\ UNCHANGED << ast, pass, tables, error_count, warnings, werror, entry, options, stage,
                    args, paths, exit, files, runs >>

\* With a fault: every mark is an entry.
MarkAll(address, range) ==
    IF "sdb" \notin options THEN lines ELSE Append(lines, << address, range >>)
\* sdb_mark: of several marks at one address the last one stays.
Mark(address, range) ==
    IF "sdb" \notin options THEN lines
    ELSE IF lines # << >> /\ lines[Len(lines)][1] = address
    THEN [lines EXCEPT ![Len(lines)] = << address, range >>]
    ELSE Append(lines, << address, range >>)

NoCode ==
    /\ Generating("data") /\ at' = at + 1
    /\ UNCHANGED << item, current_proc, diag_errors, debug >>

\* gen_proc, define_proc: with the table full it is an error and no more.
GenProc ==
    /\ Generating("proc") /\ current_proc = None
    /\ current_proc' = Child.name
    /\ IF Len(proc_defs) < MAX_PROCS
       THEN proc_defs' = Append(proc_defs, << Child.name, offset >>) /\ diag_errors' = diag_errors
       ELSE proc_defs' = proc_defs /\ diag_errors' = diag_errors + 1
    /\ UNCHANGED << at, item, offset, lines, emitted >>

\* gen_statement and emit_cond_jump mark where they begin; the jump that
\* closes a block has no mark of its own.
GenStatement ==
    /\ Generating("proc") /\ current_proc # None /\ item <= Len(Child.body)
    /\ lines' = IF Statement.kind = "end" THEN lines ELSE Mark(offset, << at, item >>)
    /\ emitted' = IF Statement.kind = "end" \/ Statement.bytes = 0 THEN emitted
                  ELSE Put(emitted, offset, << at, item >>)
    /\ offset' = offset + Statement.bytes
    /\ item' = item + 1
    /\ UNCHANGED << at, current_proc, diag_errors, proc_defs >>

\* The RETURN every procedure ends with.
GenReturn ==
    /\ Generating("proc") /\ current_proc # None /\ item > Len(Child.body)
    /\ offset' = offset + 1
    /\ current_proc' = None /\ at' = at + 1 /\ item' = 1
    /\ UNCHANGED << diag_errors, lines, proc_defs, emitted >>

-----------------------------------------------------------------------------
(* The files.                                                              *)

\* fopen truncates; fwrite is checked, fclose and what it flushes are not.
WriteCod(outcome) ==
    /\ stage = "generate" /\ at > Len(ast.children)
    /\ cod' = IF outcome = "open" THEN cod ELSE IF outcome = "ok" THEN "new" ELSE "cut"
    /\ IF outcome \in {"open", "write"}
       THEN Finish(1) /\ diag_errors' = diag_errors + 1
       ELSE /\ IF "sdb" \in options THEN stage' = "debug" /\ exit' = exit ELSE Finish(0)
            /\ diag_errors' = diag_errors
    /\ UNCHANGED << ast, pass, at, item, tables, error_count, current_proc, warnings, werror,
                    entry, options, args, paths, sdb, debug, runs >>

\* With a fault: without the file nothing is counted.
WriteSdbQuiet(opened) ==
    /\ stage = "debug" /\ Finish(0)
    /\ sdb' = (IF opened THEN "new" ELSE sdb)
    /\ UNCHANGED << ast, pass, at, item, tables, error_count, current_proc, diag_errors, warnings,
                    werror, entry, options, args, paths, cod, debug, runs >>

\* write_sdb: without the file an error is counted and the result stays 0.
WriteSdb(opened) ==
    /\ stage = "debug" /\ Finish(0)
    /\ IF opened THEN sdb' = "new" /\ diag_errors' = diag_errors
       ELSE sdb' = sdb /\ diag_errors' = diag_errors + 1
    /\ UNCHANGED << ast, pass, at, item, tables, error_count, current_proc, warnings, werror,
                    entry, options, args, paths, cod, debug, runs >>

\* ast_free, symtab_cleanup, diag_cleanup; the program ends, the caller of a
\* library function may go on.
Cleanup ==
    /\ stage = "cleanup" /\ stage' = "done"
    /\ var_table' = Empty /\ next_slot' = 0 /\ structures' = << >> /\ proc_table' = Empty
    /\ ast' = None /\ pass' = 0 /\ at' = 1 /\ item' = 1 /\ diag_errors' = 0 /\ warnings' = 0
    /\ offset' = 0 /\ lines' = << >> /\ proc_defs' = << >> /\ emitted' = Empty
    /\ UNCHANGED << error_count, current_proc, werror, entry, options, args, paths, exit, files, runs >>

Again(next) ==
    /\ stage = "done" /\ entry # "main" /\ runs < MaxRuns
    /\ stage' = "start" /\ runs' = runs + 1 /\ entry' = next
    /\ cod' = IF cod = "none" THEN "none" ELSE "old"
    /\ UNCHANGED << svars, options, args, paths, exit, sdb, debug >>

CNext ==
    \/ ArgInfo \/ ArgInclude \/ ArgInput \/ ArgWrong \/ OptionsDone
    \/ \E f \in Flags : ArgFlag(f)
    \/ \E n \in 0 .. MAX_INCLUDE_PATHS + 1 : SetUp(n)
    \/ \E opened \in BOOLEAN : Open(opened) \/ WriteSdb(opened)
    \/ \E tree \in Programs, errors, warned \in 0 .. 1, failed \in BOOLEAN :
         Parse(tree, errors, warned, failed)
    \/ \E errors, warned \in 0 .. 1 : Preprocess(errors, warned)
    \/ Semantics \/ Analyzed
    \/ NoCode \/ GenProc \/ GenStatement \/ GenReturn
    \/ \E outcome \in {"open", "write", "close", "ok"} : WriteCod(outcome)
    \/ Cleanup
    \/ \E next \in {"compile", "parse"} : Again(next)

CSpec == CInit /\ [][CNext]_vars

-----------------------------------------------------------------------------
\* What main exits with tells what it wrote: after 0 there is the new .cod
\* (cut, if what fclose flushes was lost), or none was asked for; after
\* anything else there is none; and no .sdb is newer than its .cod, nor is one
\* asked for and missing without an error counted.  (main, codegen_generate)
Asked == "input" \in options /\ {"check", "preprocess"} \cap options = {}
ExitTellsOutput ==
    stage = "cleanup" /\ entry = "main" =>
        /\ exit = 0 /\ Asked => cod \in {"new", "cut"}
        /\ exit # 0 => cod # "new" /\ sdb # "new"
        /\ sdb = "new" => cod \in {"new", "cut"}
        /\ exit = 0 /\ Asked /\ "sdb" \in options /\ sdb # "new" => diag_errors > 0

\* A .cod is touched only for a program that is well-formed, in every entry
\* and whatever was compiled before in the same process.
CodOnlyOfWellFormed ==
    [][cod' # cod /\ runs' = runs =>
         WellFormed /\ entry # "parse" /\ {"check", "preprocess"} \cap options = {}]_vars

\* A debugger that looks up the address where the code of a statement begins,
\* the last entry not after it, finds that statement and its procedure, unless
\* the table of procedures was full and that was counted.  (sdb_mark,
\* sdb_add_proc; the labels and blocks before a statement share its address)
LastNotAfter(table, address, addressOf(_)) ==
    CHOOSE i \in DOMAIN table : /\ addressOf(table[i]) <= address
                                /\ \A j \in i + 1 .. Len(table) : addressOf(table[j]) > address
LineTableExact ==
    stage = "debug" => \A a \in DOMAIN emitted :
        LET line == LastNotAfter(lines, a, LAMBDA e : e[1])
            def == LastNotAfter(proc_defs, a, LAMBDA e : e[2])
        IN  /\ lines[line] = << a, emitted[a] >>
            /\ \A i \in 1 .. line - 1 : lines[i][1] < lines[i + 1][1]
            /\ diag_errors = 0 => proc_defs[def][1] = ast.children[emitted[a][1]].name
=============================================================================
