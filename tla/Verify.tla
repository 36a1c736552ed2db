------------------------------- MODULE Verify -------------------------------
(***************************************************************************)
(* The decompiler's search for source that compiles back to the original   *)
(* bytecode (decompiler/verify.c and the end of main in decompiler/main.c).*)
(* A run tries one source text after another: it writes the text to        *)
(* $TMP/tboldc_v<n>.src, compiles that file into $TMP/tboldc_v<n>/ and     *)
(* compares the code.  Every run uses the same names, so runs of the       *)
(* decompiler that overlap write to each other's files, and a run that was *)
(* killed leaves its files behind.  The last check, verify_roundtrip, has  *)
(* files of its own.                                                       *)
(*                                                                         *)
(* The text a run emits depends on the run's options and on the mode of    *)
(* each conditional jump.  What the compiler makes of a text is found out  *)
(* when it is first compiled and is the same ever after: the code of a     *)
(* program, code that differs from every original first in some procedure  *)
(* (0: in none of them), an error, or no error and no code.                *)
(***************************************************************************)
EXTENDS Integers, Sequences

CONSTANTS
    Run,            \* runs of the decompiler
    Original,       \* Original[r]: the code run r decompiles
    Options,        \* Options[r]: what its text depends on besides the modes
    Forced,         \* runs with -f
    Unverified,     \* runs with -n
    Killed,         \* runs that may be killed
    NumProcs,       \* procedures of a program
    CJs,            \* CJs[q]: the conditional jumps of procedure q, in order;
                    \* a jump is an address, so it is there once and in one q
    MaxIter,        \* MaxIter[r]: -m of run r
    Fails, Silent, None

Jump == UNION {{CJs[q][i] : i \in DOMAIN CJs[q]} : q \in 1 .. NumProcs}
Mode == {"FULL", "NO_ELSE", "FLAT"}
AllFull == [j \in Jump |-> "FULL"]
Code == {Original[r] : r \in Run} \cup (0 .. NumProcs)
Result == {-2, -1} \cup (0 .. NumProcs)
Trying == {"first", "no_else", "state", "flat"}

Text(r, m) == [options |-> Options[r], modes |-> m]

ASSUME VerifyAssumption ==
    /\ NumProcs \in Nat \ {0} /\ MaxIter \in [Run -> Int]
    /\ CJs \in [1 .. NumProcs -> Seq(Int)]
    /\ \A p, q \in 1 .. NumProcs : \A i \in DOMAIN CJs[p], j \in DOMAIN CJs[q] :
          CJs[p][i] = CJs[q][j] => p = q /\ i = j
    /\ \A r \in Run, m \in [Jump -> Mode] : Text(r, m) # None
    /\ Fails \notin Code /\ Silent \notin Code /\ None \notin Code
    /\ \A r \in Run : Original[r] \notin 0 .. NumProcs

VARIABLES
    compiled,       \* text -> what the compiler makes of it, as far as known
    src, cod,       \* the shared temporary files, by number
    phase,          \* where emit_verified is
    step,           \* where try_mode is
    iter,           \* number of the try
    mt,             \* the mode table
    diff, proc, todo, result,
    tmp_out,        \* the text emit_verified or emit_baseline left
    success,        \* emit_verified returned 0
    out, exit

vars == << compiled, src, cod, phase, step, iter, mt, diff, proc, todo, result,
           tmp_out, success, out, exit >>
search == << mt, diff, proc, todo >>
final == << tmp_out, success, out, exit >>

Put(f, x, v) == [y \in DOMAIN f \cup {x} |-> IF y = x THEN v ELSE f[y]]
\* The compiler, given a text: the outcome o, and what is known afterwards.
Makes(t, o) ==
    /\ o \in IF t \in DOMAIN compiled THEN {compiled[t]} ELSE Code \cup {Fails, Silent}
    /\ compiled' = Put(compiled, t, o)

-----------------------------------------------------------------------------
\* The texts run r may compile: the first always is.
Budget(r) == IF MaxIter[r] > 0 THEN MaxIter[r] ELSE 1
Numbers == UNION {0 .. Budget(r) : r \in Run}

Init ==
    /\ compiled = << >>
    /\ src = [n \in Numbers |-> None] /\ cod = [n \in Numbers |-> None]
    /\ phase = [r \in Run |-> IF r \in Unverified THEN "check" ELSE "first"]
    /\ step = [r \in Run |-> "emit"]
    /\ iter = [r \in Run |-> 0]
    /\ mt = [r \in Run |-> AllFull]
    /\ diff = [r \in Run |-> -2] /\ proc = [r \in Run |-> 0]
    /\ todo = [r \in Run |-> << >>] /\ result = [r \in Run |-> -2]
    /\ tmp_out = [r \in Run |-> IF r \in Unverified THEN Text(r, AllFull) ELSE None]
    /\ success = [r \in Run |-> FALSE]
    /\ out = [r \in Run |-> None] /\ exit = [r \in Run |-> None]

(* try_mode, in its steps.                                                 *)

Emit(r) ==
    /\ phase[r] \in Trying /\ step[r] = "emit"
    /\ src' = [src EXCEPT ![iter[r]] = Text(r, mt[r])]
    /\ step' = [step EXCEPT ![r] = "compile"]
    /\ UNCHANGED << compiled, cod, phase, iter, search, result, final >>

\* The file may be gone, or another run's by now.
Compile(r, o) ==
    /\ phase[r] \in Trying /\ step[r] = "compile"
    /\ IF src[iter[r]] = None THEN o = Fails /\ UNCHANGED compiled
                              ELSE Makes(src[iter[r]], o)
    /\ IF o = Fails
       THEN /\ src' = [src EXCEPT ![iter[r]] = None]
            /\ result' = [result EXCEPT ![r] = -2]
            /\ step' = [step EXCEPT ![r] = "judge"]
            /\ UNCHANGED cod
       ELSE /\ cod' = IF o = Silent THEN cod ELSE [cod EXCEPT ![iter[r]] = o]
            /\ step' = [step EXCEPT ![r] = "load"]
            /\ UNCHANGED << src, result >>
    /\ UNCHANGED << phase, iter, search, final >>

\* With a fault, to try the properties: a difference no procedure holds,
\* as of codes of two lengths, is none.
CompareShort(r, c) == IF c \in {Original[r], 0} THEN {-1}
                      ELSE IF c \in 0 .. NumProcs THEN {c} ELSE 0 .. NumProcs

\* compare_code: where code c differs from the original of run r.
Compare(r, c) == IF c = Original[r] THEN {-1}
                 ELSE IF c \in 0 .. NumProcs THEN {c} ELSE 0 .. NumProcs

Load(r) ==
    /\ phase[r] \in Trying /\ step[r] = "load"
    /\ \E d \in IF cod[iter[r]] = None THEN {-2} ELSE Compare(r, cod[iter[r]]) :
          result' = [result EXCEPT ![r] = d]
    /\ src' = [src EXCEPT ![iter[r]] = None]
    /\ cod' = [cod EXCEPT ![iter[r]] = None]
    /\ step' = [step EXCEPT ![r] = "judge"]
    /\ UNCHANGED << compiled, phase, iter, search, final >>

(* emit_verified.                                                          *)

Goto(r, p, s) == phase' = [phase EXCEPT ![r] = p] /\ step' = [step EXCEPT ![r] = s]
SetMode(r, m) == mt' = [mt EXCEPT ![r][Head(todo[r])] = m]
Drop(r) == todo' = [todo EXCEPT ![r] = Tail(@)]
Files == << compiled, src, cod >>

\* The last text goes to the output file of emit_verified, good or not.
Settle(r, ok) ==
    /\ Goto(r, "check", "emit")
    /\ tmp_out' = [tmp_out EXCEPT ![r] = Text(r, mt[r])]
    /\ success' = [success EXCEPT ![r] = ok]
    /\ UNCHANGED << search, out, exit >>

\* The loop over the procedures: on to the one the difference d is in.
NextProc(r, d) ==
    IF d > proc[r]
    THEN /\ Goto(r, "no_else", "head")
         /\ proc' = [proc EXCEPT ![r] = d]
         /\ todo' = [todo EXCEPT ![r] = CJs[d]]
         /\ diff' = [diff EXCEPT ![r] = d]
         /\ UNCHANGED << mt, final >>
    ELSE Settle(r, FALSE)

Judge(r, p) ==
    /\ phase[r] = p /\ step[r] = "judge"
    /\ iter' = [iter EXCEPT ![r] = @ + 1]
    /\ UNCHANGED << Files, result >>

Identical(r) == result[r] = -1

JudgeFirst(r) ==
    /\ Judge(r, "first")
    /\ IF Identical(r) \/ iter[r] + 1 >= MaxIter[r] THEN Settle(r, Identical(r))
                                                 ELSE NextProc(r, result[r])

\* Head of the first loop over the jumps.
TryNoElse(r) ==
    /\ phase[r] = "no_else" /\ step[r] = "head"
    /\ todo[r] # << >> /\ iter[r] < MaxIter[r]
    /\ SetMode(r, "NO_ELSE")
    /\ Goto(r, "no_else", "emit")
    /\ UNCHANGED << Files, iter, result, diff, proc, todo, final >>

\* With a fault: a mode that does not compile stays.
JudgeNoElseKeep(r) ==
    /\ Judge(r, "no_else")
    /\ IF Identical(r) THEN Settle(r, TRUE)
       ELSE /\ Drop(r)
            /\ Goto(r, "no_else", "head")
            /\ UNCHANGED << mt, diff, proc, final >>

JudgeNoElse(r) ==
    /\ Judge(r, "no_else")
    /\ IF Identical(r) THEN Settle(r, TRUE)
       ELSE /\ IF result[r] = -2 THEN SetMode(r, "FULL") ELSE mt' = mt
            /\ Drop(r)
            /\ Goto(r, "no_else", "head")
            /\ UNCHANGED << diff, proc, final >>

LeaveNoElse(r) ==
    /\ phase[r] = "no_else" /\ step[r] = "head"
    /\ todo[r] = << >> \/ iter[r] >= MaxIter[r]
    /\ IF iter[r] < MaxIter[r] THEN Goto(r, "state", "emit") /\ UNCHANGED << search, final >>
                            ELSE NextProc(r, diff[r])
    /\ UNCHANGED << Files, iter, result >>

JudgeState(r) ==
    /\ Judge(r, "state")
    /\ IF result[r] < 0 THEN Settle(r, Identical(r))
       ELSE /\ diff' = [diff EXCEPT ![r] = result[r]]
            /\ todo' = [todo EXCEPT ![r] = CJs[proc[r]]]
            /\ Goto(r, "flat", "head")
            /\ UNCHANGED << mt, proc, final >>

\* With a fault: the number of tries is not looked at.
TryFlatAll(r) ==
    /\ phase[r] = "flat" /\ step[r] = "head"
    /\ todo[r] # << >>
    /\ IF mt[r][Head(todo[r])] = "NO_ELSE"
       THEN SetMode(r, "FLAT") /\ Goto(r, "flat", "emit") /\ UNCHANGED todo
       ELSE Drop(r) /\ UNCHANGED << mt, phase, step >>
    /\ UNCHANGED << Files, iter, result, diff, proc, final >>

\* With a fault: the loop stops at the first jump that is not NO_ELSE.
TryFlatStuck(r) ==
    /\ phase[r] = "flat" /\ step[r] = "head"
    /\ todo[r] # << >> /\ iter[r] < MaxIter[r]
    /\ mt[r][Head(todo[r])] = "NO_ELSE"
    /\ SetMode(r, "FLAT") /\ Goto(r, "flat", "emit")
    /\ UNCHANGED << Files, iter, result, diff, proc, todo, final >>

\* The second loop passes over the jumps that are not NO_ELSE.
TryFlat(r) ==
    /\ phase[r] = "flat" /\ step[r] = "head"
    /\ todo[r] # << >> /\ iter[r] < MaxIter[r]
    /\ IF mt[r][Head(todo[r])] = "NO_ELSE"
       THEN SetMode(r, "FLAT") /\ Goto(r, "flat", "emit") /\ UNCHANGED todo
       ELSE Drop(r) /\ UNCHANGED << mt, phase, step >>
    /\ UNCHANGED << Files, iter, result, diff, proc, final >>

JudgeFlat(r) ==
    /\ Judge(r, "flat")
    /\ IF Identical(r) THEN Settle(r, TRUE)
       ELSE /\ IF result[r] = -2 THEN SetMode(r, "NO_ELSE") ELSE mt' = mt
            /\ Drop(r)
            /\ Goto(r, "flat", "head")
            /\ UNCHANGED << diff, proc, final >>

LeaveFlat(r) ==
    /\ phase[r] = "flat" /\ step[r] = "head"
    /\ todo[r] = << >> \/ iter[r] >= MaxIter[r]
    /\ NextProc(r, diff[r])
    /\ UNCHANGED << Files, iter, result >>

(* verify_roundtrip and the end of main.                                   *)

\* With a fault: what emit_verified returned is believed.
Passes(r, o) == success[r] \/ o = Original[r]
Verified(r, o) == o = Original[r]

VerifyRoundtrip(r, o) ==
    /\ phase[r] = "check"
    /\ Makes(tmp_out[r], o)
    /\ out' = [out EXCEPT ![r] = IF Verified(r, o) \/ r \in Forced THEN tmp_out[r] ELSE None]
    /\ exit' = [exit EXCEPT ![r] = 0]
    /\ phase' = [phase EXCEPT ![r] = "done"]
    /\ UNCHANGED << src, cod, step, iter, search, result, tmp_out, success >>

Kill(r) ==
    /\ r \in Killed /\ phase[r] \notin {"done", "killed"}
    /\ phase' = [phase EXCEPT ![r] = "killed"]
    /\ UNCHANGED << Files, step, iter, search, result, final >>

Work(r) ==
    \/ Emit(r) \/ Load(r)
    \/ \E o \in Code \cup {Fails, Silent} : Compile(r, o) \/ VerifyRoundtrip(r, o)
    \/ JudgeFirst(r)
    \/ TryNoElse(r) \/ JudgeNoElse(r) \/ LeaveNoElse(r)
    \/ JudgeState(r)
    \/ TryFlat(r) \/ JudgeFlat(r) \/ LeaveFlat(r)

Next == \E r \in Run : Work(r) \/ Kill(r)

Spec == Init /\ [][Next]_vars
\* A run that is not killed is scheduled again and again.
FairSpec == Spec /\ \A r \in Run : WF_vars(Work(r))

-----------------------------------------------------------------------------
Modes == [Jump -> Mode]
TextType(t) == \E r \in Run, m \in Modes : t = Text(r, m)

\* Besides the types: no more texts are compiled than -m allows, the nested
\* loops over procedures and jumps taken together.  (emit_verified)
TypeOK ==
    /\ \A t \in DOMAIN compiled : TextType(t) /\ compiled[t] \in Code \cup {Fails, Silent}
    /\ \A n \in Numbers : (src[n] = None \/ TextType(src[n])) /\ cod[n] \in Code \cup {None}
    /\ \A r \in Run :
         /\ phase[r] \in Trying \cup {"check", "done", "killed"}
         /\ step[r] \in {"head", "emit", "compile", "load", "judge"}
         /\ iter[r] \in 0 .. Budget(r)
         /\ mt[r] \in Modes
         /\ result[r] \in Result
         /\ diff[r] \in Result /\ proc[r] \in 0 .. NumProcs
         /\ tmp_out[r] = None \/ TextType(tmp_out[r])
         /\ out[r] = None \/ TextType(out[r])

\* Source the decompiler hands out unforced compiles to the original code,
\* whatever other runs do to its files and whatever killed ones have left.
\* (verify_roundtrip, main)
OutputVerified ==
    \A r \in Run : out[r] # None /\ r \notin Forced =>
        out[r] \in DOMAIN compiled /\ compiled[out[r]] = Original[r]

\* No other run has written a file yet.
Undisturbed(r) == \A q \in Run \ {r} : iter[q] = 0 /\ step[q] = "emit"

\* verify.h: emit_verified "Returns 0 on success (round-trip achieved)", when
\* the temporary files are its own.
SuccessIsTrue ==
    \A r \in Run : success[r] /\ Undisturbed(r) /\ tmp_out[r] \in DOMAIN compiled =>
        compiled[tmp_out[r]] = Original[r]

\* The search never makes things worse: when the first text compiled, the
\* one it settles on is known to compile.  (the reverts in emit_verified)
BestEffortCompiles ==
    \A r \in Run :
        LET first == Text(r, AllFull)
        IN  /\ phase[r] = "check" /\ r \notin Unverified /\ Undisturbed(r)
            /\ first \in DOMAIN compiled /\ compiled[first] \in Code
            => tmp_out[r] \in DOMAIN compiled /\ compiled[tmp_out[r]] \in Code

\* The search comes to an end.
Finishes == \A r \in Run : <>(phase[r] \in {"done", "killed"})
=============================================================================
