------------------------------ MODULE Codegen ------------------------------
(***************************************************************************)
(* How the TBOL compiler turns the names of labels and procedures into the *)
(* relative offsets of the bytecode (compiler/codegen/codegen.c with       *)
(* gen_goto_depending_on and gen_proc_call of codegen_verbs.c).            *)
(*                                                                         *)
(* The program is emitted in one pass.  A jump to a label that is already  *)
(* known is written at once; one to a label still to come is written as    *)
(* zero and recorded as a forward reference, patched when define_label     *)
(* meets the label, and calls are patched after the last procedure.  What  *)
(* the semantic analysis has already refused (two labels of one name in a  *)
(* procedure, a GOTO to no label, a call to an earlier procedure) is not a *)
(* step of this module.  Names compare without regard to case, so they are *)
(* model values here.                                                      *)
(*                                                                         *)
(* site and where are history: what each jump of the source was written    *)
(* for, and where each label of each procedure turned out to be.           *)
(***************************************************************************)
EXTENDS Integers, Sequences, FiniteSets

CONSTANTS
    ProcName, LabelName,    \* the names the program uses
    None,                   \* no procedure (current_proc_name is NULL)
    MAX_LABELS, MAX_PROCS,  \* sizes of the tables of codegen.c
    HeaderSize,             \* bytes emitted before the first procedure
    Lengths,                \* lengths of the code between two jumps
    Outcomes,               \* how writing the files may end
    MaxTargets,             \* bound: labels of one GOTO_DEPENDING_ON
    MaxSize                 \* bound: bytes emitted

ASSUME CodegenAssumption ==
    /\ None \notin ProcName /\ None \notin {0, -1}
    /\ HeaderSize \in Nat
    /\ Lengths \subseteq Nat \ {0}
    /\ Outcomes \subseteq {"ok", "fopen", "fwrite", "sdb"}
    /\ MAX_LABELS \in Nat /\ MAX_PROCS \in Nat
    /\ MaxTargets \in Nat /\ MaxSize \in Nat

VARIABLES
    size,               \* emit_get_offset()
    word,               \* the 16-bit words at the patch positions
    labels,             \* labels of the current procedure: name -> offset
    proc_defs,          \* procedures so far: name -> offset
    refs,               \* forward references whose label is not cleared
    current_proc_name,
    error_count,        \* errors diag_error has counted
    result,             \* what codegen_generate returned, or None
    begun,              \* procedures gen_proc was called for
    named,              \* labels define_label was called for, this procedure
    site,               \* patch position -> what was to be reached
    where               \* <<procedure, label>> -> offset

vars == << size, word, labels, proc_defs, refs, current_proc_name, error_count,
           result, begun, named, site, where >>

-----------------------------------------------------------------------------
Put(f, x, v) == [y \in DOMAIN f \cup {x} |-> IF y = x THEN v ELSE f[y]]
Empty == [x \in {} |-> 0]

\* With a fault, to try the properties: the distance is not cut to a word.
RelWide(target, base) == target - base

\* The int16_t written for a distance, as an unsigned word.
Rel(target, base) == (target - base) % 65536

\* With a fault: the longest way back is taken for a way forward.
SignedLess(w) == IF w > 32768 THEN w - 65536 ELSE w

\* The distance read_offset (decode.c) makes of a word.
Signed(w) == IF w >= 32768 THEN w - 65536 ELSE w

\* Where the decoder says the jump at patch position p goes: relative to the
\* end of the word or, for a backward entry of GOTO_DEPENDING_ON, to the end
\* of the instruction (for the others, base is the end of the word).
Landing(p) ==
    (IF Signed(word[p]) < 0 THEN site[p].base ELSE p + 2) + Signed(word[p])

\* The place in the code the source meant, once it is known.
IsKnown(s) == IF s.proc = None THEN s.to \in DOMAIN proc_defs
                               ELSE << s.proc, s.to >> \in DOMAIN where
Intended(s) == IF s.proc = None THEN proc_defs[s.to] ELSE where[<< s.proc, s.to >>]

Pending(p) == \E r \in refs : r.at = p
RefAt(p) == CHOOSE r \in refs : r.at = p

Init ==
    /\ size = HeaderSize
    /\ word = Empty /\ labels = Empty /\ proc_defs = Empty
    /\ refs = {}
    /\ current_proc_name = None
    /\ error_count = 0
    /\ result = None
    /\ begun = {} /\ named = {}
    /\ site = Empty /\ where = Empty

\* With a fault: a full procedure table goes unreported.
BeginProcQuiet(p) ==
    /\ result = None /\ current_proc_name = None
    /\ p \notin begun
    /\ begun' = begun \cup {p}
    /\ current_proc_name' = p
    /\ labels' = Empty /\ named' = {}
    /\ proc_defs' = IF Cardinality(DOMAIN proc_defs) >= MAX_PROCS
                    THEN proc_defs ELSE Put(proc_defs, p, size)
    /\ UNCHANGED << size, word, refs, error_count, result, site, where >>

\* With a fault: the labels of the last procedure are not cleared.
BeginProcKeep(p) ==
    /\ result = None /\ current_proc_name = None
    /\ p \notin begun
    /\ begun' = begun \cup {p}
    /\ current_proc_name' = p
    /\ named' = {}
    /\ IF Cardinality(DOMAIN proc_defs) >= MAX_PROCS
       THEN proc_defs' = proc_defs /\ error_count' = error_count + 1
       ELSE proc_defs' = Put(proc_defs, p, size) /\ error_count' = error_count
    /\ UNCHANGED << size, word, labels, refs, result, site, where >>

\* gen_proc up to its first statement; define_proc when the table is full.
BeginProc(p) ==
    /\ result = None /\ current_proc_name = None
    /\ p \notin begun
    /\ begun' = begun \cup {p}
    /\ current_proc_name' = p
    /\ labels' = Empty /\ named' = {}
    /\ IF Cardinality(DOMAIN proc_defs) >= MAX_PROCS
       THEN proc_defs' = proc_defs /\ error_count' = error_count + 1
       ELSE proc_defs' = Put(proc_defs, p, size) /\ error_count' = error_count
    /\ UNCHANGED << size, word, refs, result, site, where >>

\* Code without a jump: n bytes.
EmitCode(n) ==
    /\ result = None /\ current_proc_name # None
    /\ size + n <= MaxSize
    /\ size' = size + n
    /\ UNCHANGED << word, labels, proc_defs, refs, current_proc_name, error_count,
                    result, begun, named, site, where >>

\* emit_jump, and emit_cond_jump whose opcode and operands are n bytes.
EmitJump(l, n) ==
    LET at == size + n
    IN  /\ result = None /\ current_proc_name # None
        /\ at + 2 <= MaxSize
        /\ size' = at + 2
        /\ site' = Put(site, at, [to |-> l, proc |-> current_proc_name, base |-> at + 2])
        /\ IF l \in DOMAIN labels
           THEN word' = Put(word, at, Rel(labels[l], at + 2)) /\ refs' = refs
           ELSE /\ word' = Put(word, at, 0)
                /\ refs' = refs \cup {[at |-> at, label |-> l, proc |-> current_proc_name]}
        /\ UNCHANGED << labels, proc_defs, current_proc_name, error_count, result,
                        begun, named, where >>

\* gen_goto_depending_on: one entry for each of the k labels ls, after
\* n bytes.
\* A known label lies before the instruction and is counted from its end.
GotoDependingOn(k, ls, n) ==
    LET end == size + n + 2 * k
        entries == {size + n + 2 * (i - 1) : i \in 1 .. k}
        label(p) == ls[1 + (p - (size + n)) \div 2]
        base(p) == IF labels[label(p)] < p + 2 THEN end ELSE p + 2
    IN  /\ result = None /\ current_proc_name # None
        /\ end <= MaxSize
        /\ size' = end
        /\ site' = [p \in DOMAIN site \cup entries |->
                      IF p \in entries
                      THEN [to |-> label(p), proc |-> current_proc_name, base |-> end]
                      ELSE site[p]]
        /\ word' = [p \in DOMAIN word \cup entries |->
                      IF p \notin entries THEN word[p]
                      ELSE IF label(p) \in DOMAIN labels
                           THEN Rel(labels[label(p)], base(p))
                           ELSE 0]
        /\ refs' = refs \cup {[at |-> p, label |-> label(p), proc |-> current_proc_name] :
                                p \in {q \in entries : label(q) \notin DOMAIN labels}}
        /\ UNCHANGED << labels, proc_defs, current_proc_name, error_count, result,
                        begun, named, where >>

\* gen_proc_call: n bytes of opcode and arguments, then the offset.  The
\* semantic analysis has refused a call to a procedure already begun.
GenProcCall(q, n) ==
    LET at == size + n
    IN  /\ result = None /\ current_proc_name # None
        /\ q \notin begun
        /\ at + 2 <= MaxSize
        /\ size' = at + 2
        /\ site' = Put(site, at, [to |-> q, proc |-> None, base |-> at + 2])
        /\ IF q \in DOMAIN proc_defs
           THEN word' = Put(word, at, Rel(proc_defs[q], at + 2)) /\ refs' = refs
           ELSE /\ word' = Put(word, at, 0)
                /\ refs' = refs \cup {[at |-> at, label |-> q, proc |-> None]}
        /\ UNCHANGED << labels, proc_defs, current_proc_name, error_count, result,
                        begun, named, where >>

\* define_label: the references it resolves get their distance and are
\* cleared; when the table is full it reports an error and does nothing.
Resolves(r, l) == r.label = l /\ r.proc = current_proc_name

DefineLabel(l) ==
    /\ result = None /\ current_proc_name # None
    /\ l \notin named
    /\ named' = named \cup {l}
    /\ IF Cardinality(DOMAIN labels) >= MAX_LABELS
       THEN /\ error_count' = error_count + 1
            /\ UNCHANGED << word, labels, refs, where >>
       ELSE /\ labels' = Put(labels, l, size)
            /\ where' = Put(where, << current_proc_name, l >>, size)
            /\ word' = [p \in DOMAIN word |->
                          IF Pending(p) /\ Resolves(RefAt(p), l)
                          THEN Rel(size, p + 2) ELSE word[p]]
            /\ refs' = {r \in refs : ~ Resolves(r, l)}
            /\ error_count' = error_count
    /\ UNCHANGED << size, proc_defs, current_proc_name, result, begun, site >>

\* With a fault: the second pass goes over all the jumps of the procedure.
EndProcAll ==
    /\ result = None /\ current_proc_name # None
    /\ \A p \in DOMAIN site : site[p].proc = current_proc_name => site[p].to \in named
    /\ size' = size + 1
    /\ word' = [p \in DOMAIN word |->
                  IF site[p].proc = current_proc_name /\ site[p].to \in DOMAIN labels
                  THEN Rel(labels[site[p].to], p + 2) ELSE word[p]]
    /\ current_proc_name' = None
    /\ UNCHANGED << labels, proc_defs, refs, error_count, result, begun, named,
                    site, where >>

\* The end of gen_proc: the implicit RETURN, and a second pass over the
\* references of this procedure, which clears none of them.
EndProc ==
    /\ result = None /\ current_proc_name # None
    /\ \A p \in DOMAIN site : site[p].proc = current_proc_name => site[p].to \in named
    /\ size' = size + 1
    /\ word' = [p \in DOMAIN word |->
                  IF /\ Pending(p)
                     /\ RefAt(p).proc = current_proc_name
                     /\ RefAt(p).label \in DOMAIN labels
                  THEN Rel(labels[RefAt(p).label], p + 2) ELSE word[p]]
    /\ current_proc_name' = None
    /\ UNCHANGED << labels, proc_defs, refs, error_count, result, begun, named,
                    site, where >>

\* The end of codegen_generate: calls are patched, and the file written.
\* outcome: the .cod cannot be created or written, the .sdb cannot be
\* written, or all is well.
Finish(outcome) ==
    /\ result = None /\ current_proc_name = None
    /\ begun # {}
    /\ word' = [p \in DOMAIN word |->
                  IF /\ Pending(p)
                     /\ RefAt(p).proc = None
                     /\ RefAt(p).label \in DOMAIN proc_defs
                  THEN Rel(proc_defs[RefAt(p).label], p + 2) ELSE word[p]]
    /\ error_count' = IF outcome = "ok" THEN error_count ELSE error_count + 1
    /\ result' = IF outcome \in {"fopen", "fwrite"} THEN -1 ELSE 0
    /\ UNCHANGED << size, labels, proc_defs, refs, current_proc_name, begun, named,
                    site, where >>

Next ==
    \/ \E p \in ProcName : BeginProc(p)
    \/ \E n \in Lengths : EmitCode(n)
    \/ \E l \in LabelName, n \in Lengths : EmitJump(l, n)
    \/ \E k \in 1 .. MaxTargets : \E ls \in [1 .. k -> LabelName], n \in Lengths :
          GotoDependingOn(k, ls, n)
    \/ \E q \in ProcName, n \in Lengths : GenProcCall(q, n)
    \/ \E l \in LabelName : DefineLabel(l)
    \/ EndProc
    \/ \E outcome \in Outcomes : Finish(outcome)

Spec == Init /\ [][Next]_vars

-----------------------------------------------------------------------------
CountersType == size \in Nat /\ error_count \in Nat
WordsType ==
    /\ DOMAIN word = DOMAIN site
    /\ \A p \in DOMAIN site : word[p] \in Nat /\ word[p] <= 65535
TablesType ==
    /\ \A l \in DOMAIN labels : l \in LabelName /\ labels[l] \in Nat
    /\ \A q \in DOMAIN proc_defs : q \in ProcName /\ proc_defs[q] \in Nat
NamesType ==
    /\ current_proc_name \in ProcName \cup {None}
    /\ begun \subseteq ProcName
    /\ named \subseteq LabelName

TypeOK == CountersType /\ WordsType /\ TablesType /\ NamesType

\* The distance of a jump fits its 16-bit word: no more than 32767 bytes
\* forward, 32768 back.
Fits(p) == /\ Intended(site[p]) - (p + 2) <= 32767
           /\ Intended(site[p]) - site[p].base >= -32768

\* Every jump written so far either waits in the table of references for the
\* very name it was written for, or goes to the place the source meant, if
\* the distance fits the word.  (define_label, emit_jump, emit_cond_jump,
\* gen_goto_depending_on, gen_proc_call)
Lands(p) == IsKnown(site[p]) /\ (Fits(p) => Landing(p) = Intended(site[p]))
Waits(p) == \E r \in refs : r.at = p /\ r.label = site[p].to /\ r.proc = site[p].proc

NoJumpAstray == \A p \in DOMAIN site : Waits(p) \/ Lands(p)

\* A program codegen_generate accepts without an error has every jump whose
\* distance fits on its label, every call on its procedure; only a call to a procedure the
\* program does not have keeps offset 0, as sema.c announces.
LinkedWhenClean ==
    result = 0 /\ error_count = 0
      => \A p \in DOMAIN site :
           IF site[p].proc = None /\ site[p].to \notin begun
           THEN word[p] = 0
           ELSE Lands(p)

\* A jump that has found its label is never written again: not by a label of
\* the same name in a later procedure, not by the second pass of gen_proc.
BoundForever ==
    [][\A p \in DOMAIN word : ~ Pending(p) => word'[p] = word[p]]_vars

\* No jump leaves the procedure it is written in: labels of one name in two
\* procedures are not confused, whichever is resolved first.
Extent(q) ==
    {x \in proc_defs[q] .. size :
        \A o \in DOMAIN proc_defs : proc_defs[o] > proc_defs[q] => x <= proc_defs[o]}
JumpsStayInProc ==
    size <= 32768 =>
      \A p \in DOMAIN site :
        site[p].proc \in DOMAIN proc_defs /\ ~ Pending(p)
          => Landing(p) \in Extent(site[p].proc)

-----------------------------------------------------------------------------
\* The generator seen as a linker: a jump is open while its forward reference
\* has not been resolved; the references of calls stay in the table when
\* codegen_generate patches them.
Waiting(p) == Pending(p) /\ ~ (result # None /\ site[p].proc = None /\ IsKnown(site[p]))
Goes(p) == IF Waiting(p) THEN None
           ELSE IF IsKnown(site[p]) /\ Fits(p) THEN Landing(p) ELSE -1

Abstract == INSTANCE Linker WITH
    jump <- site, entry <- proc_defs, place <- where,
    goes <- [p \in DOMAIN site |-> Goes(p)],
    status <- IF result = None THEN "open"
              ELSE IF result = 0 /\ error_count = 0 THEN "linked" ELSE "failed"

\* The one pass with its tables and patches binds each jump in the step in
\* which its label becomes known, and every one of them to its own label; a
\* compilation without an error leaves none open.  (define_label, emit_jump,
\* gen_goto_depending_on, gen_proc_call, codegen_generate)
LinksAsPromised == Abstract!LSpec
=============================================================================
