---------------------------- MODULE VerifyProofs ----------------------------
(***************************************************************************)
(* What the decompiler hands out has been compiled back to the original    *)
(* code, for any number of runs that share the temporary directory, any    *)
(* programs, options and mode tables, and whichever runs are killed.  And  *)
(* the search that finds it keeps its budget, tells the truth about its    *)
(* success and never ends on a text worse than the first; the last two for *)
(* a run whose temporary files no other run has written to.                *)
(***************************************************************************)
EXTENDS Verify, TLAPS

OutInv == DOMAIN out = Run /\ OutputVerified

(***************************************************************************)
(* What the compiler is known to make of a text stays known and the same.  *)
(***************************************************************************)
LEMMA MakesKeeps ==
    ASSUME NEW t, NEW o, Makes(t, o),
           NEW u \in DOMAIN compiled
    PROVE  u \in DOMAIN compiled' /\ compiled'[u] = compiled[u]
  <1>1. compiled' = Put(compiled, t, o)
    BY DEF Makes
  <1>2. u \in DOMAIN compiled'
    BY <1>1 DEF Put
  <1>3. CASE u = t
    <2>1. o = compiled[t]
      BY <1>3 DEF Makes
    <2> QED
      BY <1>1, <1>2, <1>3, <2>1 DEF Put
  <1>4. CASE u # t
    BY <1>1, <1>2, <1>4 DEF Put
  <1> QED
    BY <1>2, <1>3, <1>4

\* A step that hands nothing out and forgets nothing keeps the invariant.
LEMMA StillVerified ==
    ASSUME OutInv, out' = out,
           \A u \in DOMAIN compiled : u \in DOMAIN compiled' /\ compiled'[u] = compiled[u]
    PROVE  OutInv'
  BY DEF OutInv, OutputVerified

LEMMA OutInvInit == Init => OutInv
  BY DEF Init, OutInv, OutputVerified

LEMMA OutInvStep == OutInv /\ [Next]_vars => OutInv'
  <1> SUFFICES ASSUME OutInv, [Next]_vars PROVE OutInv'
    OBVIOUS
  <1>1. CASE UNCHANGED vars
    BY <1>1, StillVerified DEF vars
  <1>2. ASSUME NEW r \in Run, Work(r) PROVE OutInv'
    <2>1. CASE Emit(r) \/ Load(r)
      BY <2>1, StillVerified DEF Emit, Load, final
    <2>2. ASSUME NEW o, Compile(r, o) PROVE OutInv'
      <3>1. out' = out
        BY <2>2 DEF Compile, final
      <3>2. CASE compiled' = compiled
        BY <3>1, <3>2, StillVerified
      <3>3. CASE Makes(src[iter[r]], o)
        BY <3>1, <3>3, MakesKeeps, StillVerified
      <3> QED
        BY <2>2, <3>2, <3>3 DEF Compile
    <2>3. ASSUME NEW o, VerifyRoundtrip(r, o) PROVE OutInv'
      <3>1. Makes(tmp_out[r], o)
        BY <2>3 DEF VerifyRoundtrip
      <3>2. DOMAIN out' = Run
        BY <2>3 DEF VerifyRoundtrip, OutInv
      <3>3. ASSUME NEW q \in Run, out'[q] # None, q \notin Forced
            PROVE  out'[q] \in DOMAIN compiled' /\ compiled'[out'[q]] = Original[q]
        <4>1. CASE q = r
          <5>1. o = Original[r] /\ out'[r] = tmp_out[r]
            BY <2>3, <3>3, <4>1 DEF VerifyRoundtrip, Verified, OutInv
          <5>2. compiled' = Put(compiled, tmp_out[r], o)
            BY <3>1 DEF Makes
          <5> QED
            BY <4>1, <5>1, <5>2 DEF Put
        <4>2. CASE q # r
          <5>1. out'[q] = out[q]
            BY <2>3, <4>2 DEF VerifyRoundtrip, OutInv
          <5>2. out[q] \in DOMAIN compiled /\ compiled[out[q]] = Original[q]
            BY <3>3, <5>1 DEF OutInv, OutputVerified
          <5> QED
            BY <3>1, <5>1, <5>2, MakesKeeps
        <4> QED
          BY <4>1, <4>2
      <3> QED
        BY <3>2, <3>3 DEF OutInv, OutputVerified
    <2>4. CASE JudgeFirst(r) \/ JudgeNoElse(r) \/ JudgeState(r) \/ JudgeFlat(r)
      <3>1. compiled' = compiled
        BY <2>4 DEF JudgeFirst, JudgeNoElse, JudgeState, JudgeFlat, Judge, Files
      <3>2. out' = out
        BY <2>4 DEF JudgeFirst, JudgeNoElse, JudgeState, JudgeFlat, Settle, NextProc, final
      <3> QED
        BY <3>1, <3>2, StillVerified
    <2>5. CASE TryNoElse(r) \/ TryFlat(r) \/ LeaveNoElse(r) \/ LeaveFlat(r)
      <3>1. compiled' = compiled
        BY <2>5 DEF TryNoElse, TryFlat, LeaveNoElse, LeaveFlat, Files
      <3>2. out' = out
        BY <2>5 DEF TryNoElse, TryFlat, LeaveNoElse, LeaveFlat, Settle, NextProc, final
      <3> QED
        BY <3>1, <3>2, StillVerified
    <2> QED
      BY <1>2, <2>1, <2>2, <2>3, <2>4, <2>5 DEF Work
  <1>3. ASSUME NEW r \in Run, Kill(r) PROVE OutInv'
    BY <1>3, StillVerified DEF Kill, Files, final
  <1> QED
    BY <1>1, <1>2, <1>3 DEF Next

(***************************************************************************)
(* Source that is handed out without -f compiles to the original code.     *)
(***************************************************************************)
THEOREM OnlyVerifiedOutput == Spec => []OutputVerified
  <1>1. OutInv => OutputVerified
    BY DEF OutInv
  <1> QED
    BY <1>1, OutInvInit, OutInvStep, PTL DEF Spec
-----------------------------------------------------------------------------

Texts == {Text(r, m) : r \in Run, m \in Modes}
Steps == {"head", "emit", "compile", "load", "judge"}
Phases == Trying \cup {"check", "done", "killed"}

\* The types, with the domains.
Loops ==
    /\ phase \in [Run -> Phases] /\ step \in [Run -> Steps]
    /\ mt \in [Run -> Modes] /\ diff \in [Run -> Result]
    /\ proc \in [Run -> 0 .. NumProcs] /\ todo \in [Run -> Seq(Int)]
    /\ tmp_out \in [Run -> Texts \cup {None}] /\ out \in [Run -> Texts \cup {None}]
    /\ success \in [Run -> BOOLEAN]
Shapes ==
    /\ Loops
    /\ iter \in [Run -> Nat] /\ result \in [Run -> Result]
    /\ src \in [Numbers -> Texts \cup {None}] /\ cod \in [Numbers -> Code \cup {None}]
    /\ \A t \in DOMAIN compiled : t \in Texts /\ compiled[t] \in Code \cup {Fails, Silent}

\* Where in the loops a run can be: a text is tried only within the budget,
\* and the heads of the loops come after the first try.
Budgeted(r) ==
    /\ iter[r] <= Budget(r)
    /\ phase[r] \in Trying /\ step[r] # "head" => iter[r] < Budget(r)
    /\ step[r] = "head" => iter[r] >= 1
    /\ phase[r] \in {"first", "state"} => step[r] # "head"
    /\ phase[r] \in {"no_else", "flat"} /\ step[r] # "head" => todo[r] # << >>
    /\ phase[r] \in {"no_else", "state", "flat"} => proc[r] >= 1
    /\ phase[r] = "check" => tmp_out[r] \in Texts

TInv == Shapes /\ \A r \in Run : Budgeted(r)

LEMMA BudgetType == \A r \in Run : Budget(r) \in Nat /\ Budget(r) >= 1
<1>1. MaxIter \in [Run -> Int]
  BY VerifyAssumption
<1> QED
  BY <1>1 DEF Budget

LEMMA InNumbers == ASSUME NEW r \in Run, NEW n \in Nat, n <= Budget(r) PROVE n \in Numbers
  BY BudgetType DEF Numbers

LEMMA TextIn == ASSUME NEW r \in Run, NEW m \in Modes PROVE Text(r, m) \in Texts
  BY DEF Texts

LEMMA TInit == Init => TInv
<1> SUFFICES ASSUME Init PROVE TInv
  OBVIOUS
<1>1. AllFull \in Modes
  BY DEF AllFull, Modes, Mode
<1>2. \A r \in Run : Text(r, AllFull) \in Texts
  BY <1>1, TextIn
<1>3. << >> \in Seq(Int)
  OBVIOUS
<1>4. Shapes
  BY <1>1, <1>2, <1>3, VerifyAssumption
     DEF Init, Shapes, Loops, Phases, Trying, Steps, Result
<1>5. ASSUME NEW r \in Run PROVE Budgeted(r)
  BY <1>2, BudgetType DEF Init, Budgeted, Trying
<1> QED
  BY <1>4, <1>5 DEF TInv

\* A step of run r leaves the places of the others alone.
LEMMA OthersBudgeted ==
    ASSUME TInv, NEW r \in Run, NEW q \in Run, q # r,
           phase'[q] = phase[q], step'[q] = step[q], iter'[q] = iter[q],
           tmp_out'[q] = tmp_out[q], todo'[q] = todo[q], proc'[q] = proc[q]
    PROVE  Budgeted(q)'
  BY DEF TInv, Budgeted, Budget

LEMMA MakesType ==
    ASSUME Shapes, NEW t \in Texts, NEW o, Makes(t, o)
    PROVE  \A u \in DOMAIN compiled' : u \in Texts /\ compiled'[u] \in Code \cup {Fails, Silent}
  BY DEF Shapes, Loops, Makes, Put

LEMMA TEmit == ASSUME TInv, NEW r \in Run, Emit(r) PROVE TInv'
<1>1. Text(r, mt[r]) \in Texts
  BY TextIn DEF TInv, Shapes, Loops
<1>2. Shapes'
  BY <1>1 DEF TInv, Shapes, Loops, Emit, search, final, Steps
<1>3. Budgeted(r)'
  BY DEF TInv, Shapes, Loops, Budgeted, Budget, Emit, search, final
<1>4. ASSUME NEW q \in Run, q # r PROVE Budgeted(q)'
  BY <1>4, OthersBudgeted DEF TInv, Shapes, Loops, Emit, search, final
<1> QED
  BY <1>2, <1>3, <1>4 DEF TInv

LEMMA TCompile == ASSUME TInv, NEW r \in Run, NEW o \in Code \cup {Fails, Silent}, Compile(r, o) PROVE TInv'
<1>1. iter[r] \in Numbers
  BY InNumbers DEF TInv, Shapes, Loops, Budgeted, Compile
<1>2. \A u \in DOMAIN compiled' : u \in Texts /\ compiled'[u] \in Code \cup {Fails, Silent}
  <2>1. CASE src[iter[r]] = None
    BY <2>1 DEF Compile, TInv, Shapes, Loops
  <2>2. CASE src[iter[r]] # None
    <3>1. src[iter[r]] \in Texts
      BY <1>1, <2>2 DEF TInv, Shapes, Loops
    <3>2. Makes(src[iter[r]], o)
      BY <2>2 DEF Compile
    <3> QED
      BY <3>1, <3>2, MakesType DEF TInv
  <2> QED
    BY <2>1, <2>2
<1>3. /\ src' \in [Numbers -> Texts \cup {None}] /\ cod' \in [Numbers -> Code \cup {None}]
      /\ step' \in [Run -> Steps] /\ result' \in [Run -> Result]
  <2>1. CASE o = Fails
    BY <2>1 DEF TInv, Shapes, Loops, Compile, Steps, Result
  <2>2. CASE o # Fails
    BY <2>2 DEF TInv, Shapes, Loops, Compile, Steps
  <2> QED
    BY <2>1, <2>2
<1>4. Shapes'
  BY <1>2, <1>3 DEF TInv, Shapes, Loops, Compile, search, final
<1>5. Budgeted(r)'
  BY DEF TInv, Shapes, Loops, Budgeted, Budget, Compile, search, final
<1>6. ASSUME NEW q \in Run, q # r PROVE Budgeted(q)'
  BY <1>6, OthersBudgeted DEF TInv, Shapes, Loops, Compile, search, final
<1> QED
  BY <1>4, <1>5, <1>6 DEF TInv

LEMMA TLoad == ASSUME TInv, NEW r \in Run, Load(r) PROVE TInv'
<1>1. PICK d \in IF cod[iter[r]] = None THEN {-2} ELSE Compare(r, cod[iter[r]]) :
         result' = [result EXCEPT ![r] = d]
  BY DEF Load
<1>2. d \in Result
  BY DEF Compare, Result
<1>3. Shapes'
  BY <1>1, <1>2 DEF TInv, Shapes, Loops, Load, search, final, Steps
<1>4. Budgeted(r)'
  BY DEF TInv, Shapes, Loops, Budgeted, Budget, Load, search, final
<1>5. ASSUME NEW q \in Run, q # r PROVE Budgeted(q)'
  BY <1>5, OthersBudgeted DEF TInv, Shapes, Loops, Load, search, final
<1> QED
  BY <1>3, <1>4, <1>5 DEF TInv

\* The rest of the steps leave the files alone.
LEMMA TSearch ==
    ASSUME TInv, NEW r \in Run, Loops', Budgeted(r)',
           iter' \in [Run -> Nat], UNCHANGED << compiled, src, cod, result >>,
           \A q \in Run \ {r} : /\ phase'[q] = phase[q] /\ step'[q] = step[q]
                              /\ iter'[q] = iter[q] /\ todo'[q] = todo[q] /\ proc'[q] = proc[q]
                              /\ tmp_out'[q] = tmp_out[q]
    PROVE  TInv'
<1>1. Shapes'
  BY DEF TInv, Shapes
<1>2. ASSUME NEW q \in Run, q # r PROVE Budgeted(q)'
  BY <1>2, OthersBudgeted
<1> QED
  BY <1>1, <1>2 DEF TInv

Apart(r) ==
    \A q \in Run \ {r} : /\ phase'[q] = phase[q] /\ step'[q] = step[q]
                       /\ todo'[q] = todo[q] /\ proc'[q] = proc[q]
                       /\ tmp_out'[q] = tmp_out[q]

LEMMA TSettle ==
    ASSUME TInv, NEW r \in Run, NEW ok \in BOOLEAN, Settle(r, ok), iter'[r] <= Budget(r)
    PROVE  Loops' /\ Budgeted(r)' /\ Apart(r)
<1>1. Text(r, mt[r]) \in Texts
  BY TextIn DEF TInv, Shapes, Loops
<1>2. Loops'
  BY <1>1 DEF Settle, Goto, search, TInv, Shapes, Loops, Phases, Steps
<1>3. phase'[r] = "check" /\ step'[r] = "emit" /\ tmp_out'[r] \in Texts
  BY <1>1 DEF Settle, Goto, TInv, Shapes, Loops
<1>4. Budgeted(r)'
  BY <1>3, BudgetType DEF Budgeted, Trying, Budget
<1>5. Apart(r)
  BY DEF Settle, Goto, search, TInv, Shapes, Loops, Apart
<1> QED
  BY <1>2, <1>4, <1>5

LEMMA TNextProc ==
    ASSUME TInv, NEW r \in Run, NEW d \in Result, NextProc(r, d),
           iter'[r] \in Nat, iter'[r] >= 1, iter'[r] <= Budget(r)
    PROVE  Loops' /\ Budgeted(r)' /\ Apart(r)
<1>1. CASE d > proc[r]
  <2>1. proc[r] \in 0 .. NumProcs /\ NumProcs \in Nat
    BY VerifyAssumption DEF TInv, Shapes, Loops
  <2>2. d \in 1 .. NumProcs
    BY <1>1, <2>1 DEF Result
  <2>3. CJs[d] \in Seq(Int) /\ d \in 0 .. NumProcs
    BY <2>2, VerifyAssumption
  <2>4. Loops'
    <3>1. /\ phase' = [phase EXCEPT ![r] = "no_else"] /\ step' = [step EXCEPT ![r] = "head"]
          /\ proc' = [proc EXCEPT ![r] = d] /\ todo' = [todo EXCEPT ![r] = CJs[d]]
          /\ diff' = [diff EXCEPT ![r] = d] /\ UNCHANGED << mt, tmp_out, success, out >>
      BY <1>1 DEF NextProc, Goto, final
    <3>2. phase' \in [Run -> Phases] /\ step' \in [Run -> Steps] /\ diff' \in [Run -> Result]
      BY <3>1 DEF TInv, Shapes, Loops, Phases, Trying, Steps
    <3>3. proc' \in [Run -> 0 .. NumProcs] /\ todo' \in [Run -> Seq(Int)]
      BY <2>3, <3>1 DEF TInv, Shapes, Loops
    <3> QED
      BY <3>1, <3>2, <3>3 DEF TInv, Shapes, Loops
  <2>5. phase'[r] = "no_else" /\ step'[r] = "head" /\ proc'[r] = d
    BY <1>1 DEF NextProc, Goto, TInv, Shapes, Loops
  <2>6. Budgeted(r)'
    BY <2>2, <2>5 DEF Budgeted, Trying, Budget
  <2>7. Apart(r)
    BY <1>1 DEF NextProc, Goto, final, TInv, Shapes, Loops, Apart
  <2> QED
    BY <2>4, <2>6, <2>7
<1>2. CASE ~ (d > proc[r])
  BY <1>2, TSettle DEF NextProc
<1> QED
  BY <1>1, <1>2

\* The judgement of a try uses it up.
LEMMA TJudge ==
    ASSUME TInv, NEW r \in Run, NEW p \in Trying, Judge(r, p)
    PROVE  /\ iter' \in [Run -> Nat] /\ iter'[r] = iter[r] + 1
           /\ iter'[r] >= 1 /\ iter'[r] <= Budget(r)
           /\ \A q \in Run \ {r} : iter'[q] = iter[q]
           /\ UNCHANGED << compiled, src, cod, result >>
  BY BudgetType DEF TInv, Shapes, Budgeted, Judge, Files

LEMMA TJudgeFirst == ASSUME TInv, NEW r \in Run, JudgeFirst(r) PROVE TInv'
<1>1. Judge(r, "first") /\ "first" \in Trying
  BY DEF JudgeFirst, Trying
<1>2. result[r] \in Result /\ Identical(r) \in BOOLEAN
  BY DEF TInv, Shapes, Identical
<1>3. Loops' /\ Budgeted(r)' /\ Apart(r)
  BY <1>1, <1>2, TJudge, TSettle, TNextProc DEF JudgeFirst
<1> QED
  BY <1>1, <1>3, TJudge, TSearch DEF Apart

\* The changes of the loops over the jumps.
LEMMA ModeSet ==
    ASSUME TInv, NEW r \in Run, NEW m \in Mode, SetMode(r, m)
    PROVE  mt' \in [Run -> Modes]
  BY DEF TInv, Shapes, Loops, SetMode, Modes

LEMMA Dropped ==
    ASSUME TInv, NEW r \in Run, todo[r] # << >>, Drop(r)
    PROVE  todo' \in [Run -> Seq(Int)] /\ \A q \in Run \ {r} : todo'[q] = todo[q]
<1>1. Tail(todo[r]) \in Seq(Int)
  BY DEF TInv, Shapes, Loops
<1> QED
  BY <1>1 DEF TInv, Shapes, Loops, Drop

LEMMA Gone ==
    ASSUME TInv, NEW r \in Run, NEW p \in Phases, NEW t \in Steps, Goto(r, p, t)
    PROVE  /\ phase' \in [Run -> Phases] /\ step' \in [Run -> Steps]
           /\ phase'[r] = p /\ step'[r] = t
           /\ \A q \in Run \ {r} : phase'[q] = phase[q] /\ step'[q] = step[q]
  BY DEF TInv, Shapes, Loops, Goto

\* At the head of a loop there is a try left.
LEMMA TryLeft ==
    ASSUME TInv, NEW r \in Run, iter[r] < MaxIter[r]
    PROVE  iter[r] < Budget(r) /\ iter[r] \in Nat
<1>1. MaxIter \in [Run -> Int]
  BY VerifyAssumption
<1> QED
  BY <1>1 DEF TInv, Shapes, Budget

LEMMA TTryNoElse == ASSUME TInv, NEW r \in Run, TryNoElse(r) PROVE TInv'
<1>1. Goto(r, "no_else", "emit") /\ SetMode(r, "NO_ELSE") /\ UNCHANGED << Files, iter, result, diff, proc, todo, final >>
  BY DEF TryNoElse
<1>2. Loops' /\ Apart(r)
  BY <1>1, Gone, ModeSet DEF TInv, Shapes, Loops, Apart, final, Phases, Trying, Steps, Mode
<1>3. Budgeted(r)'
  <2>1. phase'[r] = "no_else" /\ step'[r] = "emit"
    BY <1>1, Gone DEF Phases, Trying, Steps
  <2>2. iter'[r] = iter[r] /\ iter[r] \in Nat /\ iter[r] < Budget(r)
        /\ todo'[r] # << >> /\ proc'[r] >= 1
    BY <1>1, TryLeft DEF TryNoElse, TInv, Budgeted
  <2> QED
    BY <2>1, <2>2, BudgetType DEF Budgeted, Budget, Trying
<1> QED
  BY <1>1, <1>2, <1>3, TSearch DEF Apart, Files, TInv, Shapes

\* What the judgements after a try in a loop over the jumps have in common.
LEMMA TJudgeJump ==
    ASSUME TInv, NEW r \in Run, NEW p \in {"no_else", "flat"}, NEW m \in Mode,
           Judge(r, p),
           IF Identical(r) THEN Settle(r, TRUE)
           ELSE /\ IF result[r] = -2 THEN SetMode(r, m) ELSE mt' = mt
                /\ Drop(r)
                /\ Goto(r, p, "head")
                /\ UNCHANGED << diff, proc, final >>,
           todo[r] # << >>
    PROVE  TInv'
<1>1. p \in Trying /\ p \in Phases
  BY DEF Trying, Phases
<1>2. CASE Identical(r)
  <2>1. Loops' /\ Budgeted(r)' /\ Apart(r)
    BY <1>1, <1>2, TJudge, TSettle
  <2> QED
    BY <1>1, <2>1, TJudge, TSearch DEF Apart
<1>3. CASE ~ Identical(r)
  <2>1. Drop(r) /\ Goto(r, p, "head") /\ UNCHANGED << diff, proc, final >>
    BY <1>3
  <2>2. mt' \in [Run -> Modes]
    BY <1>3, ModeSet DEF TInv, Shapes, Loops
  <2>3. Loops' /\ Apart(r)
    BY <1>1, <2>1, <2>2, Gone, Dropped DEF TInv, Shapes, Loops, Apart, final, Steps
  <2>4. Budgeted(r)'
    <3>1. phase'[r] = p /\ step'[r] = "head"
      BY <1>1, <2>1, Gone DEF Steps
    <3>2. proc'[r] >= 1
      BY <2>1 DEF Judge, TInv, Budgeted
    <3> QED
      BY <1>1, <3>1, <3>2, TJudge DEF Budgeted, Budget
  <2> QED
    BY <1>1, <2>3, <2>4, TJudge, TSearch DEF Apart
<1> QED
  BY <1>2, <1>3

LEMMA TJudgeNoElse == ASSUME TInv, NEW r \in Run, JudgeNoElse(r) PROVE TInv'
<1>1. todo[r] # << >>
  BY DEF JudgeNoElse, Judge, TInv, Budgeted
<1>2. "FULL" \in Mode
  BY DEF Mode
<1> QED
  BY <1>1, <1>2, TJudgeJump DEF JudgeNoElse

LEMMA TJudgeFlat == ASSUME TInv, NEW r \in Run, JudgeFlat(r) PROVE TInv'
<1>1. todo[r] # << >>
  BY DEF JudgeFlat, Judge, TInv, Budgeted
<1>2. "NO_ELSE" \in Mode
  BY DEF Mode
<1> QED
  BY <1>1, <1>2, TJudgeJump DEF JudgeFlat

LEMMA TLeaveNoElse == ASSUME TInv, NEW r \in Run, LeaveNoElse(r) PROVE TInv'
<1>1. UNCHANGED << Files, iter, result >> /\ iter[r] \in Nat /\ iter[r] >= 1 /\ iter[r] <= Budget(r)
  BY DEF LeaveNoElse, TInv, Budgeted, Shapes
<1>2. CASE iter[r] < MaxIter[r]
  <2>1. Goto(r, "state", "emit") /\ UNCHANGED << search, final >>
    BY <1>2 DEF LeaveNoElse
  <2>2. Loops' /\ Apart(r)
    BY <2>1, Gone DEF TInv, Shapes, Loops, Apart, search, final, Phases, Trying, Steps
  <2>3. phase'[r] = "state" /\ step'[r] = "emit" /\ proc'[r] >= 1
    BY <2>1, Gone DEF Phases, Trying, Steps, search, LeaveNoElse, TInv, Budgeted
  <2>4. Budgeted(r)'
    BY <1>1, <1>2, <2>3, TryLeft DEF Budgeted, Budget, Trying
  <2> QED
    BY <1>1, <2>2, <2>4, TSearch DEF Apart, Files, TInv, Shapes
<1>3. CASE ~ (iter[r] < MaxIter[r])
  <2>1. NextProc(r, diff[r]) /\ diff[r] \in Result
    BY <1>3 DEF LeaveNoElse, TInv, Shapes, Loops
  <2>2. Loops' /\ Budgeted(r)' /\ Apart(r)
    BY <1>1, <2>1, TNextProc
  <2> QED
    BY <1>1, <2>2, TSearch DEF Apart, Files, TInv, Shapes
<1> QED
  BY <1>2, <1>3

LEMMA TLeaveFlat == ASSUME TInv, NEW r \in Run, LeaveFlat(r) PROVE TInv'
<1>1. UNCHANGED << Files, iter, result >> /\ iter[r] \in Nat /\ iter[r] >= 1 /\ iter[r] <= Budget(r)
  BY DEF LeaveFlat, TInv, Budgeted, Shapes
<1>2. NextProc(r, diff[r]) /\ diff[r] \in Result
  BY DEF LeaveFlat, TInv, Shapes, Loops
<1>3. Loops' /\ Budgeted(r)' /\ Apart(r)
  BY <1>1, <1>2, TNextProc
<1> QED
  BY <1>1, <1>3, TSearch DEF Apart, Files, TInv, Shapes

LEMMA TJudgeState == ASSUME TInv, NEW r \in Run, JudgeState(r) PROVE TInv'
<1>1. Judge(r, "state") /\ "state" \in Trying
  BY DEF JudgeState, Trying
<1>2. CASE result[r] < 0
  <2>1. Settle(r, Identical(r)) /\ Identical(r) \in BOOLEAN
    BY <1>2 DEF JudgeState, Identical
  <2>2. Loops' /\ Budgeted(r)' /\ Apart(r)
    BY <1>1, <2>1, TJudge, TSettle
  <2> QED
    BY <1>1, <2>2, TJudge, TSearch DEF Apart
<1>3. CASE ~ (result[r] < 0)
  <2>1. /\ diff' = [diff EXCEPT ![r] = result[r]]
        /\ todo' = [todo EXCEPT ![r] = CJs[proc[r]]]
        /\ Goto(r, "flat", "head")
        /\ UNCHANGED << mt, proc, final >>
    BY <1>3 DEF JudgeState
  <2>2. proc[r] \in 1 .. NumProcs
    BY <1>1 DEF Judge, TInv, Budgeted, Shapes, Loops
  <2>3. CJs[proc[r]] \in Seq(Int)
    BY <2>2, VerifyAssumption
  <2>4. Loops' /\ Apart(r)
    BY <2>1, <2>3, Gone DEF TInv, Shapes, Loops, Apart, final, Phases, Trying, Steps
  <2>5. phase'[r] = "flat" /\ step'[r] = "head" /\ proc'[r] >= 1
    BY <2>1, <2>2, Gone DEF Phases, Trying, Steps
  <2>6. Budgeted(r)'
    BY <1>1, <2>5, TJudge DEF Budgeted, Budget
  <2> QED
    BY <1>1, <2>4, <2>6, TJudge, TSearch DEF Apart
<1> QED
  BY <1>2, <1>3

LEMMA TTryFlat == ASSUME TInv, NEW r \in Run, TryFlat(r) PROVE TInv'
<1>1. UNCHANGED << Files, iter, result, diff, proc, final >> /\ todo[r] # << >> /\ proc[r] >= 1
  BY DEF TryFlat, TInv, Budgeted
<1>2. CASE mt[r][Head(todo[r])] = "NO_ELSE"
  <2>1. Goto(r, "flat", "emit") /\ SetMode(r, "FLAT") /\ UNCHANGED todo
    BY <1>2 DEF TryFlat
  <2>2. Loops' /\ Apart(r)
    BY <1>1, <2>1, Gone, ModeSet DEF TInv, Shapes, Loops, Apart, final, Phases, Trying, Steps, Mode
  <2>3. phase'[r] = "flat" /\ step'[r] = "emit"
    BY <2>1, Gone DEF Phases, Trying, Steps
  <2>4. Budgeted(r)'
    <3>1. iter'[r] = iter[r] /\ iter[r] \in Nat /\ iter[r] < Budget(r)
      BY <1>1, TryLeft DEF TryFlat
    <3>2. todo'[r] # << >> /\ proc'[r] >= 1
      BY <1>1, <2>1
    <3> QED
      BY <2>3, <3>1, <3>2, BudgetType DEF Budgeted, Budget, Trying
  <2> QED
    BY <1>1, <2>2, <2>4, TSearch DEF Apart, Files, TInv, Shapes
<1>3. CASE mt[r][Head(todo[r])] # "NO_ELSE"
  <2>1. Drop(r) /\ UNCHANGED << mt, phase, step >>
    BY <1>3 DEF TryFlat
  <2>2. Loops' /\ Apart(r)
    BY <1>1, <2>1, Dropped DEF TInv, Shapes, Loops, Apart, final
  <2>3. Budgeted(r)'
    BY <1>1, <2>1 DEF TryFlat, TInv, Budgeted, Budget
  <2> QED
    BY <1>1, <2>2, <2>3, TSearch DEF Apart, Files, TInv, Shapes
<1> QED
  BY <1>2, <1>3

LEMMA TVerifyRoundtrip ==
    ASSUME TInv, NEW r \in Run, NEW o, VerifyRoundtrip(r, o)
    PROVE  TInv'
<1>1. tmp_out[r] \in Texts /\ Makes(tmp_out[r], o)
  BY DEF VerifyRoundtrip, TInv, Budgeted
<1>2. \A u \in DOMAIN compiled' : u \in Texts /\ compiled'[u] \in Code \cup {Fails, Silent}
  BY <1>1, MakesType DEF TInv
<1>3. Shapes'
  BY <1>2 DEF VerifyRoundtrip, search, TInv, Shapes, Loops, Phases
<1>4. phase'[r] = "done" /\ UNCHANGED << step, iter, todo, proc >>
  BY DEF VerifyRoundtrip, search, TInv, Shapes, Loops
<1>5. Budgeted(r)'
  BY <1>4 DEF TInv, Budgeted, Budget, Trying
<1>6. ASSUME NEW q \in Run, q # r PROVE Budgeted(q)'
  BY <1>6, OthersBudgeted DEF VerifyRoundtrip, search, TInv, Shapes, Loops
<1> QED
  BY <1>3, <1>5, <1>6 DEF TInv

LEMMA TKill == ASSUME TInv, NEW r \in Run, Kill(r) PROVE TInv'
<1>1. Loops' /\ Apart(r)
  BY DEF Kill, search, final, TInv, Shapes, Loops, Phases, Apart
<1>2. phase'[r] = "killed" /\ UNCHANGED << step, iter >>
  BY DEF Kill, TInv, Shapes, Loops
<1>3. Budgeted(r)'
  BY <1>2 DEF TInv, Budgeted, Budget, Trying
<1> QED
  BY <1>1, <1>3, TSearch DEF Kill, Files, Apart, TInv, Shapes

LEMMA TStep == ASSUME TInv, [Next]_vars PROVE TInv'
<1>1. CASE UNCHANGED vars
  BY <1>1 DEF vars, TInv, Shapes, Loops, Budgeted, Budget
<1>2. ASSUME NEW r \in Run, Work(r) PROVE TInv'
  BY <1>2, TEmit, TCompile, TLoad, TJudgeFirst, TTryNoElse, TJudgeNoElse, TLeaveNoElse,
     TJudgeState, TTryFlat, TJudgeFlat, TLeaveFlat, TVerifyRoundtrip DEF Work
<1>3. ASSUME NEW r \in Run, Kill(r) PROVE TInv'
  BY <1>3, TKill
<1> QED
  BY <1>1, <1>2, <1>3 DEF Next

LEMMA TAlways == Spec => []TInv
  BY TInit, TStep, PTL DEF Spec

\* In any number of runs at once every text written, compiled or handed out
\* is one of the program's, and no run compiles more texts than -m allows:
\* the nested loops of emit_verified keep the budget together.
THEOREM SearchWithinBudget == Spec => []TypeOK
<1>1. TInv => TypeOK
  <2> SUFFICES ASSUME TInv PROVE TypeOK
    OBVIOUS
  <2>1. \A t \in Texts : TextType(t)
    BY DEF Texts, TextType
  <2>2. \A r \in Run : iter[r] \in 0 .. Budget(r)
    <3> TAKE r \in Run
    <3>1. Budget(r) \in Nat /\ iter[r] \in Nat /\ iter[r] <= Budget(r)
      BY BudgetType DEF TInv, Budgeted, Shapes
    <3> QED
      BY <3>1
  <2>3. \A t \in DOMAIN compiled : TextType(t) /\ compiled[t] \in Code \cup {Fails, Silent}
    BY <2>1 DEF TInv, Shapes
  <2>4. \A n \in Numbers : (src[n] = None \/ TextType(src[n])) /\ cod[n] \in Code \cup {None}
    BY <2>1 DEF TInv, Shapes
  <2>5. ASSUME NEW r \in Run
        PROVE  /\ tmp_out[r] = None \/ TextType(tmp_out[r])
               /\ out[r] = None \/ TextType(out[r])
    BY <2>1 DEF TInv, Shapes, Loops
  <2>6. ASSUME NEW r \in Run
        PROVE  /\ phase[r] \in Phases /\ step[r] \in Steps
               /\ mt[r] \in Modes /\ result[r] \in Result
               /\ diff[r] \in Result /\ proc[r] \in 0 .. NumProcs
    BY DEF TInv, Shapes, Loops
  <2> QED
    BY <2>2, <2>3, <2>4, <2>5, <2>6 DEF TypeOK, Phases, Steps
<1> QED
  BY <1>1, TAlways, PTL

-----------------------------------------------------------------------------
JumpsOf(q) == {CJs[q][i] : i \in DOMAIN CJs[q]}

\* The mode table: the jumps of later procedures have not been touched, nor
\* those of this one that the first loop has still to try.
Untouched(r) ==
    /\ phase[r] = "first" => mt[r] = AllFull /\ proc[r] = 0
    /\ \A q \in 1 .. NumProcs : q > proc[r] => \A j \in JumpsOf(q) : mt[r][j] = "FULL"
    /\ phase[r] \in {"no_else", "flat"} =>
          \A i \in DOMAIN todo[r] : todo[r][i] \in JumpsOf(proc[r])
    /\ phase[r] = "no_else" =>
          /\ \A i, j \in DOMAIN todo[r] : todo[r][i] = todo[r][j] => i = j
          /\ \A i \in DOMAIN todo[r] :
                step[r] = "head" \/ i > 1 => mt[r][todo[r][i]] = "FULL"

MInv == TInv /\ \A r \in Run : Untouched(r)

LEMMA MInit == Init => MInv
<1> SUFFICES ASSUME Init PROVE MInv
  OBVIOUS
<1>1. \A q \in 1 .. NumProcs : JumpsOf(q) \subseteq Jump
  BY DEF JumpsOf, Jump
<1>2. ASSUME NEW r \in Run PROVE Untouched(r)
  BY <1>1 DEF Init, Untouched, AllFull
<1> QED
  BY <1>2, TInit DEF MInv

\* What a run has to itself.
Still(q) ==
    /\ phase'[q] = phase[q] /\ step'[q] = step[q] /\ iter'[q] = iter[q] /\ mt'[q] = mt[q]
    /\ proc'[q] = proc[q] /\ todo'[q] = todo[q] /\ result'[q] = result[q]
    /\ tmp_out'[q] = tmp_out[q] /\ success'[q] = success[q]

LEMMA OthersStill ==
    ASSUME TInv, NEW r \in Run, Work(r) \/ Kill(r), NEW q \in Run, q # r
    PROVE  Still(q)
<1>1. CASE Emit(r)
  BY <1>1 DEF Emit, search, final, TInv, Shapes, Loops, Still
<1>2. CASE Load(r)
  BY <1>2 DEF Load, search, final, TInv, Shapes, Loops, Still
<1>3. ASSUME NEW o, Compile(r, o) PROVE Still(q)
  <2>1. step'[q] = step[q] /\ result'[q] = result[q]
    BY <1>3 DEF Compile, TInv, Shapes, Loops
  <2> QED
    BY <1>3, <2>1 DEF Compile, search, final, Still
<1>4. ASSUME NEW o, VerifyRoundtrip(r, o) PROVE Still(q)
  BY <1>4 DEF VerifyRoundtrip, search, TInv, Shapes, Loops, Still
<1>5. CASE Kill(r)
  BY <1>5 DEF Kill, search, final, TInv, Shapes, Loops, Still
<1>6. CASE JudgeFirst(r)
  BY <1>6 DEF JudgeFirst, Judge, Settle, NextProc, Goto, search, final, TInv, Shapes, Loops, Still
<1>7. CASE TryNoElse(r)
  BY <1>7 DEF TryNoElse, SetMode, Goto, final, TInv, Shapes, Loops, Still
<1>8. CASE JudgeNoElse(r)
  BY <1>8 DEF JudgeNoElse, Judge, Settle, SetMode, Drop, Goto, search, final, TInv, Shapes, Loops, Still
<1>9. CASE LeaveNoElse(r)
  BY <1>9 DEF LeaveNoElse, Settle, NextProc, Goto, search, final, TInv, Shapes, Loops, Still
<1>10. CASE JudgeState(r)
  BY <1>10 DEF JudgeState, Judge, Settle, Goto, search, final, TInv, Shapes, Loops, Still
<1>11. CASE TryFlat(r)
  BY <1>11 DEF TryFlat, SetMode, Drop, Goto, final, TInv, Shapes, Loops, Still
<1>12. CASE JudgeFlat(r)
  BY <1>12 DEF JudgeFlat, Judge, Settle, SetMode, Drop, Goto, search, final, TInv, Shapes, Loops, Still
<1>13. CASE LeaveFlat(r)
  BY <1>13 DEF LeaveFlat, Settle, NextProc, Goto, search, final, TInv, Shapes, Loops, Still
<1> QED
  BY <1>1, <1>2, <1>3, <1>4, <1>5, <1>6, <1>7, <1>8, <1>9, <1>10, <1>11, <1>12, <1>13 DEF Work

LEMMA Pieces ==
    ASSUME NEW s \in Seq(Int), s # << >>
    PROVE  /\ 1 \in DOMAIN s /\ Head(s) = s[1]
           /\ \A i \in DOMAIN Tail(s) : i \in Nat /\ i >= 1 /\ i + 1 \in DOMAIN s /\ Tail(s)[i] = s[i + 1]
<1>1. Len(s) \in Nat /\ Len(s) >= 1 /\ DOMAIN s = 1 .. Len(s)
  OBVIOUS
<1>2. /\ Head(s) = s[1] /\ Tail(s) \in Seq(Int) /\ Len(Tail(s)) = Len(s) - 1
      /\ \A i \in 1 .. Len(s) - 1 : Tail(s)[i] = s[i + 1]
  BY <1>1
<1>3. DOMAIN Tail(s) = 1 .. Len(s) - 1
  BY <1>2
<1> QED
  BY <1>1, <1>2, <1>3

\* No jump is in two procedures.
LEMMA JumpsApart ==
    ASSUME NEW p \in 1 .. NumProcs, NEW q \in 1 .. NumProcs, p # q,
           NEW j \in JumpsOf(p)
    PROVE  j \notin JumpsOf(q)
<1>1. \A a, b \in 1 .. NumProcs : \A i \in DOMAIN CJs[a], k \in DOMAIN CJs[b] :
         CJs[a][i] = CJs[b][k] => a = b /\ i = k
  BY VerifyAssumption
<1> QED
  BY <1>1 DEF JumpsOf

LEMMA JumpsIn == \A q \in 1 .. NumProcs : JumpsOf(q) \subseteq Jump
  BY DEF JumpsOf, Jump

LEMMA ProcIn ==
    ASSUME TInv, NEW r \in Run, phase[r] \in {"no_else", "state", "flat"}
    PROVE  proc[r] \in 1 .. NumProcs
  BY DEF TInv, Budgeted, Shapes, Loops

LEMMA UOthers ==
    ASSUME NEW q \in Run, Untouched(q), Still(q)
    PROVE  Untouched(q)'
  BY DEF Untouched, Still

LEMMA USettle ==
    ASSUME MInv, NEW r \in Run, NEW ok \in BOOLEAN, Settle(r, ok)
    PROVE  Untouched(r)'
<1>1. UNCHANGED << mt, proc >> /\ phase'[r] = "check"
  BY DEF Settle, Goto, search, MInv, TInv, Shapes, Loops
<1> QED
  BY <1>1 DEF MInv, Untouched

LEMMA UNextProc ==
    ASSUME MInv, NEW r \in Run, NEW d \in Result, NextProc(r, d)
    PROVE  Untouched(r)'
<1>1. CASE d > proc[r]
  <2>1. /\ phase'[r] = "no_else" /\ step'[r] = "head"
        /\ proc'[r] = d /\ todo'[r] = CJs[d] /\ mt'[r] = mt[r]
    BY <1>1 DEF NextProc, Goto, MInv, TInv, Shapes, Loops
  <2>2. proc[r] \in 0 .. NumProcs /\ NumProcs \in Nat
    BY VerifyAssumption DEF MInv, TInv, Shapes, Loops
  <2>3. d \in 1 .. NumProcs
    BY <1>1, <2>2 DEF Result
  <2>4. \A i, j \in DOMAIN CJs[d] : CJs[d][i] = CJs[d][j] => i = j
    BY <2>3, VerifyAssumption
  <2>5. \A i \in DOMAIN CJs[d] : CJs[d][i] \in JumpsOf(d)
    BY DEF JumpsOf
  <2>6. \A q \in 1 .. NumProcs : q >= d => \A j \in JumpsOf(q) : mt[r][j] = "FULL"
    BY <1>1, <2>2, <2>3 DEF MInv, Untouched
  <2>7. \A i \in DOMAIN CJs[d] : mt[r][CJs[d][i]] = "FULL"
    BY <2>3, <2>5, <2>6
  <2> QED
    BY <2>1, <2>3, <2>4, <2>5, <2>6, <2>7 DEF Untouched
<1>2. CASE ~ (d > proc[r])
  BY <1>2, USettle DEF NextProc
<1> QED
  BY <1>1, <1>2

\* A jump that is tried is none of the later procedures'.
LEMMA LaterKept ==
    ASSUME MInv, NEW r \in Run, phase[r] \in {"no_else", "flat"}, todo[r] # << >>,
           NEW m \in Mode, SetMode(r, m) \/ mt' = mt
    PROVE  /\ \A q \in 1 .. NumProcs : q > proc[r] => \A j \in JumpsOf(q) : mt'[r][j] = "FULL"
           /\ \A j \in Jump : j # Head(todo[r]) => mt'[r][j] = mt[r][j]
<1>1. proc[r] \in 1 .. NumProcs
  BY ProcIn DEF MInv
<1>2. Head(todo[r]) \in JumpsOf(proc[r])
  BY Pieces DEF MInv, TInv, Shapes, Loops, Untouched
<1>3. \A j \in Jump : j # Head(todo[r]) => mt'[r][j] = mt[r][j]
  BY DEF SetMode, MInv, TInv, Shapes, Loops, Modes
<1>4. ASSUME NEW q \in 1 .. NumProcs, q > proc[r], NEW j \in JumpsOf(q)
      PROVE  mt'[r][j] = "FULL"
  <2>1. mt[r][j] = "FULL"
    BY <1>4 DEF MInv, Untouched
  <2>2. j # Head(todo[r])
    BY <1>1, <1>2, <1>4, JumpsApart
  <2>3. j \in Jump
    BY JumpsIn
  <2> QED
    BY <1>3, <2>1, <2>2, <2>3
<1> QED
  BY <1>3, <1>4

LEMMA UQuiet ==
    ASSUME MInv, NEW r \in Run, UNCHANGED << mt, proc, todo >>,
           phase'[r] \in {phase[r], "done", "killed"},
           step'[r] = "head" => step[r] = "head"
    PROVE  Untouched(r)'
  BY DEF MInv, Untouched

LEMMA UTryNoElse == ASSUME MInv, NEW r \in Run, TryNoElse(r) PROVE Untouched(r)'
<1>1. /\ phase[r] = "no_else" /\ step[r] = "head" /\ todo[r] # << >>
      /\ SetMode(r, "NO_ELSE") /\ UNCHANGED << todo, proc >> /\ "NO_ELSE" \in Mode
  BY DEF TryNoElse, Mode
<1>2. phase'[r] = "no_else" /\ step'[r] = "emit"
  BY DEF TryNoElse, Goto, MInv, TInv, Shapes, Loops
<1>3. /\ \A q \in 1 .. NumProcs : q > proc[r] => \A j \in JumpsOf(q) : mt'[r][j] = "FULL"
      /\ \A j \in Jump : j # Head(todo[r]) => mt'[r][j] = mt[r][j]
  BY <1>1, LaterKept
<1>4. 1 \in DOMAIN todo[r] /\ Head(todo[r]) = todo[r][1]
  BY <1>1, Pieces DEF MInv, TInv, Shapes, Loops
<1>5. ASSUME NEW i \in DOMAIN todo[r], i > 1 PROVE mt'[r][todo[r][i]] = "FULL"
  <2>1. todo[r][i] # Head(todo[r]) /\ mt[r][todo[r][i]] = "FULL"
    BY <1>1, <1>4, <1>5 DEF MInv, Untouched
  <2>2. todo[r][i] \in Jump
    BY <1>1, ProcIn, JumpsIn DEF MInv, Untouched
  <2> QED
    BY <1>3, <2>1, <2>2
<1> QED
  BY <1>1, <1>2, <1>3, <1>5 DEF MInv, Untouched

\* After a try, good or not, its jump is off the list.
LEMMA UJudgeJump ==
    ASSUME MInv, NEW r \in Run, NEW p \in {"no_else", "flat"}, phase[r] = p,
           step[r] = "judge", todo[r] # << >>, NEW m \in Mode,
           SetMode(r, m) \/ mt' = mt,
           Drop(r), Goto(r, p, "head"), UNCHANGED proc
    PROVE  Untouched(r)'
<1>1. phase'[r] = p /\ step'[r] = "head" /\ todo'[r] = Tail(todo[r])
  BY DEF Goto, Drop, MInv, TInv, Shapes, Loops
<1>2. /\ \A q \in 1 .. NumProcs : q > proc[r] => \A j \in JumpsOf(q) : mt'[r][j] = "FULL"
      /\ \A j \in Jump : j # Head(todo[r]) => mt'[r][j] = mt[r][j]
  BY LaterKept
<1>3. /\ 1 \in DOMAIN todo[r] /\ Head(todo[r]) = todo[r][1]
      /\ \A i \in DOMAIN Tail(todo[r]) : /\ i \in Nat /\ i >= 1 /\ i + 1 \in DOMAIN todo[r]
                                      /\ Tail(todo[r])[i] = todo[r][i + 1]
  BY Pieces DEF MInv, TInv, Shapes, Loops
<1>4. \A i \in DOMAIN todo[r] : todo[r][i] \in JumpsOf(proc[r]) /\ todo[r][i] \in Jump
  BY ProcIn, JumpsIn DEF MInv, Untouched
<1>5. \A i \in DOMAIN todo'[r] : todo'[r][i] \in JumpsOf(proc[r])
  BY <1>1, <1>3, <1>4
<1>6. ASSUME p = "no_else"
      PROVE  /\ \A i, j \in DOMAIN todo'[r] : todo'[r][i] = todo'[r][j] => i = j
             /\ \A i \in DOMAIN todo'[r] : mt'[r][todo'[r][i]] = "FULL"
  <2>1. \A i, j \in DOMAIN todo[r] : todo[r][i] = todo[r][j] => i = j
    BY <1>6 DEF MInv, Untouched
  <2>2. \A i, j \in DOMAIN todo'[r] : todo'[r][i] = todo'[r][j] => i = j
    BY <1>1, <1>3, <2>1
  <2>3. ASSUME NEW i \in DOMAIN todo'[r] PROVE mt'[r][todo'[r][i]] = "FULL"
    <3>1. /\ i + 1 \in DOMAIN todo[r] /\ i + 1 > 1 /\ i + 1 # 1
          /\ todo'[r][i] = todo[r][i + 1]
      BY <1>1, <1>3
    <3>2. mt[r][todo[r][i + 1]] = "FULL"
      BY <1>6, <3>1 DEF MInv, Untouched
    <3>3. todo[r][i + 1] # Head(todo[r])
      BY <1>3, <2>1, <3>1
    <3> QED
      BY <1>2, <1>4, <3>1, <3>2, <3>3
  <2> QED
    BY <2>2, <2>3
<1> QED
  BY <1>1, <1>2, <1>5, <1>6 DEF MInv, Untouched

LEMMA UJudgeNoElse == ASSUME MInv, NEW r \in Run, JudgeNoElse(r) PROVE Untouched(r)'
<1>1. phase[r] = "no_else" /\ step[r] = "judge" /\ todo[r] # << >> /\ "FULL" \in Mode
  BY DEF JudgeNoElse, Judge, MInv, TInv, Budgeted, Mode
<1>2. CASE Identical(r)
  BY <1>2, USettle DEF JudgeNoElse
<1>3. CASE ~ Identical(r)
  BY <1>1, <1>3, UJudgeJump DEF JudgeNoElse
<1> QED
  BY <1>2, <1>3

LEMMA UJudgeFlat == ASSUME MInv, NEW r \in Run, JudgeFlat(r) PROVE Untouched(r)'
<1>1. phase[r] = "flat" /\ step[r] = "judge" /\ todo[r] # << >> /\ "NO_ELSE" \in Mode
  BY DEF JudgeFlat, Judge, MInv, TInv, Budgeted, Mode
<1>2. CASE Identical(r)
  BY <1>2, USettle DEF JudgeFlat
<1>3. CASE ~ Identical(r)
  BY <1>1, <1>3, UJudgeJump DEF JudgeFlat
<1> QED
  BY <1>2, <1>3

LEMMA UTryFlat == ASSUME MInv, NEW r \in Run, TryFlat(r) PROVE Untouched(r)'
<1>1. /\ phase[r] = "flat" /\ todo[r] # << >> /\ UNCHANGED proc /\ "FLAT" \in Mode
  BY DEF TryFlat, Mode
<1>2. CASE mt[r][Head(todo[r])] = "NO_ELSE"
  <2>1. SetMode(r, "FLAT") /\ UNCHANGED todo /\ phase'[r] = "flat"
    BY <1>2 DEF TryFlat, Goto, MInv, TInv, Shapes, Loops
  <2>2. \A q \in 1 .. NumProcs : q > proc[r] => \A j \in JumpsOf(q) : mt'[r][j] = "FULL"
    BY <1>1, <2>1, LaterKept
  <2> QED
    BY <1>1, <2>1, <2>2 DEF MInv, Untouched
<1>3. CASE mt[r][Head(todo[r])] # "NO_ELSE"
  <2>1. todo'[r] = Tail(todo[r]) /\ mt' = mt /\ phase' = phase
    BY <1>3 DEF TryFlat, Drop, MInv, TInv, Shapes, Loops
  <2>2. \A i \in DOMAIN todo'[r] : todo'[r][i] \in JumpsOf(proc[r])
    BY <1>1, <2>1, Pieces DEF MInv, TInv, Shapes, Loops, Untouched
  <2> QED
    BY <1>1, <2>1, <2>2 DEF MInv, Untouched
<1> QED
  BY <1>2, <1>3

LEMMA UJudgeState == ASSUME MInv, NEW r \in Run, JudgeState(r) PROVE Untouched(r)'
<1>1. CASE result[r] < 0
  <2>1. Settle(r, Identical(r)) /\ Identical(r) \in BOOLEAN
    BY <1>1 DEF JudgeState, Identical
  <2> QED
    BY <2>1, USettle
<1>2. CASE ~ (result[r] < 0)
  <2>1. phase'[r] = "flat" /\ todo'[r] = CJs[proc[r]] /\ UNCHANGED << mt, proc >>
    BY <1>2 DEF JudgeState, Goto, MInv, TInv, Shapes, Loops
  <2>2. \A i \in DOMAIN CJs[proc[r]] : CJs[proc[r]][i] \in JumpsOf(proc[r])
    BY DEF JumpsOf
  <2> QED
    BY <2>1, <2>2 DEF MInv, Untouched
<1> QED
  BY <1>1, <1>2

LEMMA UWork == ASSUME MInv, NEW r \in Run, Work(r) \/ Kill(r) PROVE Untouched(r)'
<1>1. CASE Emit(r)
  BY <1>1, UQuiet DEF Emit, search, MInv, TInv, Shapes, Loops
<1>2. ASSUME NEW o, Compile(r, o) PROVE Untouched(r)'
  <2>1. step'[r] # "head"
    BY <1>2 DEF Compile, MInv, TInv, Shapes, Loops
  <2> QED
    BY <1>2, <2>1, UQuiet DEF Compile, search
<1>3. CASE Load(r)
  BY <1>3, UQuiet DEF Load, search, MInv, TInv, Shapes, Loops
<1>4. ASSUME NEW o, VerifyRoundtrip(r, o) PROVE Untouched(r)'
  BY <1>4, UQuiet DEF VerifyRoundtrip, search, MInv, TInv, Shapes, Loops
<1>5. CASE Kill(r)
  BY <1>5, UQuiet DEF Kill, search, MInv, TInv, Shapes, Loops
<1>6. CASE JudgeFirst(r)
  <2>1. result[r] \in Result /\ Identical(r) \in BOOLEAN
    BY DEF MInv, TInv, Shapes, Identical
  <2> QED
    BY <1>6, <2>1, USettle, UNextProc DEF JudgeFirst
<1>7. CASE LeaveNoElse(r)
  <2>1. CASE iter[r] < MaxIter[r]
    BY <1>7, <2>1, UQuiet DEF LeaveNoElse, Goto, search, MInv, TInv, Shapes, Loops, Untouched
  <2>2. CASE ~ (iter[r] < MaxIter[r])
    BY <1>7, <2>2, UNextProc DEF LeaveNoElse, MInv, TInv, Shapes, Loops
  <2> QED
    BY <2>1, <2>2
<1>8. CASE LeaveFlat(r)
  BY <1>8, UNextProc DEF LeaveFlat, MInv, TInv, Shapes, Loops
<1> QED
  BY <1>1, <1>2, <1>3, <1>4, <1>5, <1>6, <1>7, <1>8, UTryNoElse, UJudgeNoElse, UJudgeState,
     UTryFlat, UJudgeFlat DEF Work

LEMMA MStep == ASSUME MInv, [Next]_vars PROVE MInv'
<1>1. TInv'
  BY TStep DEF MInv
<1>2. CASE UNCHANGED vars
  <2>1. \A q \in Run : Untouched(q)'
    BY <1>2 DEF vars, MInv, Untouched
  <2> QED
    BY <1>1, <2>1 DEF MInv
<1>3. ASSUME NEW r \in Run, Work(r) \/ Kill(r), NEW q \in Run PROVE Untouched(q)'
  <2>1. CASE q = r
    BY <1>3, <2>1, UWork
  <2>2. CASE q # r
    BY <1>3, <2>2, OthersStill, UOthers DEF MInv
  <2> QED
    BY <2>1, <2>2
<1>4. CASE Next
  BY <1>1, <1>3, <1>4 DEF Next, MInv
<1> QED
  BY <1>1, <1>2, <1>4 DEF MInv

-----------------------------------------------------------------------------
Known(t) == t \in DOMAIN compiled /\ compiled[t] \in Code
Now(r) == Text(r, mt[r])
Back(r, m) == Text(r, [mt[r] EXCEPT ![Head(todo[r])] = m])
First(r) == Text(r, AllFull)

\* A run that was not disturbed finds in its files what it put there.
OwnFiles(r) ==
    phase[r] \in Trying =>
        /\ step[r] = "compile" => src[iter[r]] = Now(r)
        /\ \A n \in Numbers : cod[n] # None =>
              /\ n = iter[r] /\ step[r] = "load"
              /\ Now(r) \in DOMAIN compiled /\ compiled[Now(r)] = cod[n]
        /\ phase[r] = "first" /\ step[r] \in {"load", "judge"} => Now(r) \in DOMAIN compiled
        /\ step[r] = "judge" /\ result[r] # -2 => Known(Now(r))
        /\ step[r] = "judge" /\ result[r] = -1 => compiled[Now(r)] = Original[r]

OwnSuccess(r) ==
    success[r] => tmp_out[r] \in DOMAIN compiled /\ compiled[tmp_out[r]] = Original[r]

\* If the first text compiled, so does the one that is being improved: as it
\* is at the head of a loop, with the mode taken back while one is tried.
Better(r) ==
    /\ phase[r] \in {"no_else", "state", "flat"} =>
          /\ First(r) \in DOMAIN compiled
          /\ compiled[First(r)] \in Code =>
                Known(IF step[r] = "head" \/ phase[r] = "state" THEN Now(r)
                      ELSE Back(r, IF phase[r] = "no_else" THEN "FULL" ELSE "NO_ELSE"))
    /\ phase[r] = "check" /\ r \notin Unverified =>
          /\ First(r) \in DOMAIN compiled
          /\ compiled[First(r)] \in Code => Known(tmp_out[r])

Own(r) == Undisturbed(r) => OwnFiles(r) /\ OwnSuccess(r) /\ Better(r)

OInv == MInv /\ \A r \in Run : Own(r)

LEMMA OInit == Init => OInv
<1> SUFFICES ASSUME Init PROVE OInv
  OBVIOUS
<1>1. ASSUME NEW r \in Run PROVE Own(r)
  BY DEF Init, Own, OwnFiles, OwnSuccess, Better, Trying
<1> QED
  BY <1>1, MInit DEF OInv

\* What is known of a text stays.
Grows == \A u \in DOMAIN compiled : u \in DOMAIN compiled' /\ compiled'[u] = compiled[u]

LEMMA CompiledGrows == ASSUME MInv, [Next]_vars PROVE Grows
<1>1. CASE compiled' = compiled
  BY <1>1 DEF Grows
<1>2. ASSUME NEW t, NEW o, Makes(t, o) PROVE Grows
  BY <1>2, MakesKeeps DEF Grows
<1>3. ASSUME NEW r \in Run, Work(r) \/ Kill(r) PROVE Grows
  <2>1. ASSUME NEW o, Compile(r, o) PROVE Grows
    BY <1>1, <1>2, <2>1 DEF Compile
  <2>2. ASSUME NEW o, VerifyRoundtrip(r, o) PROVE Grows
    BY <1>2, <2>2 DEF VerifyRoundtrip
  <2>3. CASE Emit(r) \/ Load(r) \/ Kill(r)
    BY <1>1, <2>3 DEF Emit, Load, Kill, Files
  <2>4. CASE JudgeFirst(r) \/ JudgeNoElse(r) \/ JudgeState(r) \/ JudgeFlat(r)
    BY <1>1, <2>4 DEF JudgeFirst, JudgeNoElse, JudgeState, JudgeFlat, Judge, Files
  <2>5. CASE TryNoElse(r) \/ TryFlat(r) \/ LeaveNoElse(r) \/ LeaveFlat(r)
    BY <1>1, <2>5 DEF TryNoElse, TryFlat, LeaveNoElse, LeaveFlat, Files
  <2> QED
    BY <1>3, <2>1, <2>2, <2>3, <2>4, <2>5 DEF Work
<1>4. CASE UNCHANGED vars
  BY <1>1, <1>4 DEF vars
<1> QED
  BY <1>3, <1>4 DEF Next

LEMMA KnownStays ==
    ASSUME Grows, NEW t
    PROVE  /\ t \in DOMAIN compiled => t \in DOMAIN compiled' /\ compiled'[t] = compiled[t]
           /\ t \in DOMAIN compiled /\ compiled[t] \in Code
                 => t \in DOMAIN compiled' /\ compiled'[t] \in Code
  BY DEF Grows

\* What a run that has not moved owns it still owns.
LEMMA OwnKept ==
    ASSUME NEW q \in Run, OwnFiles(q), OwnSuccess(q), Better(q), Still(q),
           UNCHANGED << src, cod >>, Grows
    PROVE  OwnFiles(q)' /\ OwnSuccess(q)' /\ Better(q)'
<1>1. /\ Now(q)' = Now(q) /\ First(q)' = First(q)
      /\ Back(q, "FULL")' = Back(q, "FULL") /\ Back(q, "NO_ELSE")' = Back(q, "NO_ELSE")
  BY DEF Still, Now, First, Back, Text
<1>2. OwnFiles(q)'
  BY <1>1, KnownStays DEF OwnFiles, Still, Known
<1>3. OwnSuccess(q)'
  BY KnownStays DEF OwnSuccess, Still
<1>4. First(q) \in DOMAIN compiled =>
         First(q) \in DOMAIN compiled' /\ compiled'[First(q)] = compiled[First(q)]
  BY KnownStays
<1>5. /\ Known(Now(q)) => Known(Now(q))'
      /\ Known(Back(q, "FULL")) => Known(Back(q, "FULL"))'
      /\ Known(Back(q, "NO_ELSE")) => Known(Back(q, "NO_ELSE"))'
      /\ Known(tmp_out[q]) => Known(tmp_out[q])'
  BY <1>1, KnownStays DEF Known, Still
<1>6. Better(q)'
  BY <1>1, <1>4, <1>5 DEF Better, Still
<1> QED
  BY <1>2, <1>3, <1>6

\* A run that does more than check or die has touched the files.
LEMMA Disturbs ==
    ASSUME MInv, NEW r \in Run, Work(r), \A o : ~ VerifyRoundtrip(r, o)
    PROVE  ~ (iter'[r] = 0 /\ step'[r] = "emit")
<1>1. iter[r] \in Nat /\ (step[r] = "head" => iter[r] >= 1)
  BY DEF MInv, TInv, Shapes, Budgeted
<1>2. CASE Emit(r)
  BY <1>2 DEF Emit, MInv, TInv, Shapes, Loops
<1>3. ASSUME NEW o, Compile(r, o) PROVE step'[r] # "emit"
  BY <1>3 DEF Compile, MInv, TInv, Shapes, Loops
<1>4. CASE Load(r)
  BY <1>4 DEF Load, MInv, TInv, Shapes, Loops
<1>5. CASE JudgeFirst(r) \/ JudgeNoElse(r) \/ JudgeState(r) \/ JudgeFlat(r)
  <2>1. iter'[r] = iter[r] + 1
    BY <1>5 DEF JudgeFirst, JudgeNoElse, JudgeState, JudgeFlat, Judge, MInv, TInv, Shapes
  <2> QED
    BY <1>1, <2>1
<1>6. CASE TryNoElse(r) \/ LeaveNoElse(r) \/ TryFlat(r) \/ LeaveFlat(r)
  <2>1. iter'[r] = iter[r] /\ step[r] = "head"
    BY <1>6 DEF TryNoElse, LeaveNoElse, TryFlat, LeaveFlat
  <2> QED
    BY <1>1, <2>1
<1> QED
  BY <1>2, <1>3, <1>4, <1>5, <1>6 DEF Work

LEMMA OwnOthers ==
    ASSUME OInv, NEW r \in Run, Work(r) \/ Kill(r), NEW q \in Run, q # r, Undisturbed(q)'
    PROVE  OwnFiles(q)' /\ OwnSuccess(q)' /\ Better(q)'
<1>1. iter'[r] = 0 /\ step'[r] = "emit"
  BY DEF Undisturbed
<1>2. Kill(r) \/ \E o : VerifyRoundtrip(r, o)
  BY <1>1, Disturbs DEF OInv
<1>3. UNCHANGED << src, cod, iter, step >>
  BY <1>2 DEF Kill, VerifyRoundtrip, Files
<1>4. Undisturbed(q)
  BY <1>3 DEF Undisturbed
<1>5. Still(q)
  BY OthersStill DEF OInv, MInv
<1>6. Grows
  BY CompiledGrows DEF OInv, Next
<1> QED
  BY <1>3, <1>4, <1>5, <1>6, OwnKept DEF OInv, Own

-----------------------------------------------------------------------------
\* The steps of the run itself.
Holds(r) == OInv /\ OwnFiles(r) /\ OwnSuccess(r) /\ Better(r)
HoldsAfter(r) == OwnFiles(r)' /\ OwnSuccess(r)' /\ Better(r)'

LEMMA OEmit == ASSUME NEW r \in Run, Holds(r), Emit(r) PROVE HoldsAfter(r)
<1>1. /\ phase[r] \in Trying /\ step[r] = "emit" /\ step'[r] = "compile"
      /\ UNCHANGED << compiled, cod, phase, iter, mt, todo, tmp_out, success >>
  BY DEF Emit, search, final, Holds, OInv, MInv, TInv, Shapes, Loops
<1>2. iter[r] \in Numbers
  BY <1>1, InNumbers DEF Holds, OInv, MInv, TInv, Shapes, Budgeted
<1>3. /\ Now(r)' = Now(r) /\ First(r)' = First(r)
      /\ Back(r, "FULL")' = Back(r, "FULL") /\ Back(r, "NO_ELSE")' = Back(r, "NO_ELSE")
  BY <1>1 DEF Now, First, Back, Text
<1>4. src'[iter[r]] = Now(r)
  BY <1>2 DEF Emit, Now, Holds, OInv, MInv, TInv, Shapes
<1>5. OwnFiles(r)'
  BY <1>1, <1>3, <1>4 DEF OwnFiles, Holds
<1>6. OwnSuccess(r)'
  BY <1>1 DEF OwnSuccess, Holds
<1>7. Better(r)'
  BY <1>1, <1>3 DEF Better, Known, Holds
<1> QED
  BY <1>5, <1>6, <1>7 DEF HoldsAfter

LEMMA OCompile ==
    ASSUME NEW r \in Run, NEW o \in Code \cup {Fails, Silent}, Holds(r), Compile(r, o), Grows
    PROVE  HoldsAfter(r)
<1>1. /\ phase[r] \in Trying /\ step[r] = "compile"
      /\ UNCHANGED << phase, iter, mt, todo, tmp_out, success >>
  BY DEF Compile, search, final
<1>2. iter[r] \in Numbers
  BY <1>1, InNumbers DEF Holds, OInv, MInv, TInv, Shapes, Budgeted
<1>3. /\ Now(r)' = Now(r) /\ First(r)' = First(r)
      /\ Back(r, "FULL")' = Back(r, "FULL") /\ Back(r, "NO_ELSE")' = Back(r, "NO_ELSE")
  BY <1>1 DEF Now, First, Back, Text
<1>4. src[iter[r]] = Now(r)
  BY <1>1 DEF Holds, OwnFiles
<1>5. Now(r) # None
  BY VerifyAssumption DEF Now, Modes, Holds, OInv, MInv, TInv, Shapes, Loops
<1>6. Makes(Now(r), o)
  BY <1>4, <1>5 DEF Compile
<1>7. Now(r) \in DOMAIN compiled' /\ compiled'[Now(r)] = o
  BY <1>6 DEF Makes, Put
<1>8. \A n \in Numbers : cod[n] = None
  BY <1>1 DEF Holds, OwnFiles
<1>9. OwnFiles(r)'
  <2>1. CASE o = Fails
    <3>1. step'[r] = "judge" /\ result'[r] = -2 /\ cod' = cod
      BY <2>1 DEF Compile, Holds, OInv, MInv, TInv, Shapes, Loops
    <3> QED
      BY <1>3, <1>7, <1>8, <3>1 DEF OwnFiles
  <2>2. CASE o # Fails
    <3>1. step'[r] = "load"
      BY <2>2 DEF Compile, Holds, OInv, MInv, TInv, Shapes, Loops
    <3>2. \A n \in Numbers : cod'[n] # None => n = iter[r] /\ cod'[n] = o
      BY <1>2, <1>8, <2>2 DEF Compile, Holds, OInv, MInv, TInv, Shapes
    <3> QED
      BY <1>1, <1>3, <1>7, <3>1, <3>2 DEF OwnFiles
  <2> QED
    BY <2>1, <2>2
<1>10. OwnSuccess(r)'
  BY <1>1, KnownStays DEF OwnSuccess, Holds
<1>11. step'[r] # "head"
  BY DEF Compile, Holds, OInv, MInv, TInv, Shapes, Loops
<1>12. /\ Known(Now(r)) => Known(Now(r))'
       /\ Known(Back(r, "FULL")) => Known(Back(r, "FULL"))'
       /\ Known(Back(r, "NO_ELSE")) => Known(Back(r, "NO_ELSE"))'
       /\ First(r) \in DOMAIN compiled =>
             First(r) \in DOMAIN compiled' /\ compiled'[First(r)] = compiled[First(r)]
  BY <1>3, KnownStays DEF Known
<1>13. Better(r)'
  BY <1>1, <1>3, <1>11, <1>12 DEF Better, Trying, Holds
<1> QED
  BY <1>9, <1>10, <1>13 DEF HoldsAfter

LEMMA OLoad == ASSUME NEW r \in Run, Holds(r), Load(r) PROVE HoldsAfter(r)
<1>1. /\ phase[r] \in Trying /\ step[r] = "load" /\ step'[r] = "judge"
      /\ UNCHANGED << compiled, phase, iter, mt, todo, tmp_out, success >>
  BY DEF Load, search, final, Holds, OInv, MInv, TInv, Shapes, Loops
<1>2. iter[r] \in Numbers
  BY <1>1, InNumbers DEF Holds, OInv, MInv, TInv, Shapes, Budgeted
<1>3. /\ Now(r)' = Now(r) /\ First(r)' = First(r)
      /\ Back(r, "FULL")' = Back(r, "FULL") /\ Back(r, "NO_ELSE")' = Back(r, "NO_ELSE")
  BY <1>1 DEF Now, First, Back, Text
<1>4. \A n \in Numbers : cod'[n] = None
  BY <1>1, <1>2 DEF Load, Holds, OwnFiles, OInv, MInv, TInv, Shapes
<1>5. PICK d \in IF cod[iter[r]] = None THEN {-2} ELSE Compare(r, cod[iter[r]]) : result'[r] = d
  BY DEF Load, Holds, OInv, MInv, TInv, Shapes
<1>6. cod[iter[r]] # None => /\ Now(r) \in DOMAIN compiled /\ compiled[Now(r)] = cod[iter[r]]
                             /\ cod[iter[r]] \in Code
  BY <1>1, <1>2 DEF Holds, OwnFiles, OInv, MInv, TInv, Shapes
<1>7. d # -2 => Known(Now(r))
  BY <1>5, <1>6 DEF Known
<1>8. d = -1 => compiled[Now(r)] = Original[r]
  <2> SUFFICES ASSUME d = -1 PROVE compiled[Now(r)] = Original[r]
    OBVIOUS
  <2>1. cod[iter[r]] # None /\ -1 \in Compare(r, cod[iter[r]])
    BY <1>5
  <2>2. cod[iter[r]] = Original[r]
    BY <2>1 DEF Compare
  <2> QED
    BY <1>6, <2>1, <2>2
<1>9. OwnFiles(r)'
  BY <1>1, <1>3, <1>4, <1>5, <1>7, <1>8 DEF OwnFiles, Known, Holds
<1>10. OwnSuccess(r)'
  BY <1>1 DEF OwnSuccess, Holds
<1>11. Better(r)'
  BY <1>1, <1>3 DEF Better, Known, Holds
<1> QED
  BY <1>9, <1>10, <1>11 DEF HoldsAfter

\* The improved text is at least as good as the first one.
Good(r) == /\ First(r) \in DOMAIN compiled
           /\ compiled[First(r)] \in Code => Known(Now(r))

LEMMA OSettle ==
    ASSUME NEW r \in Run, Holds(r), NEW ok \in BOOLEAN, Settle(r, ok), compiled' = compiled,
           Good(r),
           ok => Now(r) \in DOMAIN compiled /\ compiled[Now(r)] = Original[r]
    PROVE  HoldsAfter(r)
<1>1. phase'[r] = "check" /\ tmp_out'[r] = Now(r) /\ success'[r] = ok
  BY DEF Settle, Goto, Now, Holds, OInv, MInv, TInv, Shapes, Loops
<1>2. First(r)' = First(r)
  BY DEF First, Text
<1>3. OwnFiles(r)'
  BY <1>1 DEF OwnFiles, Trying
<1>4. OwnSuccess(r)'
  BY <1>1 DEF OwnSuccess
<1>5. Better(r)'
  BY <1>1, <1>2 DEF Better, Known, Good
<1> QED
  BY <1>3, <1>4, <1>5 DEF HoldsAfter

LEMMA ONextProc ==
    ASSUME NEW r \in Run, Holds(r), NEW d \in Result, NextProc(r, d), compiled' = compiled,
           cod' = cod, \A n \in Numbers : cod[n] = None, Good(r)
    PROVE  HoldsAfter(r)
<1>1. CASE d > proc[r]
  <2>1. /\ phase'[r] = "no_else" /\ step'[r] = "head"
        /\ UNCHANGED << mt, success, tmp_out >>
    BY <1>1 DEF NextProc, Goto, final, Holds, OInv, MInv, TInv, Shapes, Loops
  <2>2. First(r)' = First(r) /\ Now(r)' = Now(r)
    BY <2>1 DEF First, Now, Text
  <2>3. OwnFiles(r)'
    BY <2>1 DEF OwnFiles
  <2>4. OwnSuccess(r)'
    BY <2>1 DEF OwnSuccess, Holds
  <2>5. Better(r)'
    BY <2>1, <2>2 DEF Better, Known, Good
  <2> QED
    BY <2>3, <2>4, <2>5 DEF HoldsAfter
<1>2. CASE ~ (d > proc[r])
  BY <1>2, OSettle DEF NextProc
<1> QED
  BY <1>1, <1>2

\* What a judgement knows.
LEMMA OJudge ==
    ASSUME NEW r \in Run, Holds(r), NEW p \in Trying, Judge(r, p)
    PROVE  /\ UNCHANGED << compiled, cod >>
           /\ \A n \in Numbers : cod[n] = None
           /\ result[r] # -2 => Known(Now(r))
           /\ Identical(r) => Now(r) \in DOMAIN compiled /\ compiled[Now(r)] = Original[r]
<1>1. phase[r] \in Trying /\ step[r] = "judge" /\ UNCHANGED << compiled, cod >>
  BY DEF Judge, Files
<1> QED
  BY <1>1 DEF Holds, OwnFiles, Known, Identical

\* A text that is the original's compiles.
LEMMA OIdentical ==
    ASSUME NEW r \in Run, Holds(r), NEW p \in {"no_else", "state", "flat"},
           Judge(r, p), Identical(r), Settle(r, TRUE)
    PROVE  HoldsAfter(r)
<1>1. phase[r] = p /\ p \in Trying /\ result[r] # -2
  BY DEF Judge, Trying, Identical
<1>2. First(r) \in DOMAIN compiled
  BY <1>1 DEF Holds, Better
<1>3. Good(r)
  BY <1>1, <1>2, OJudge DEF Good
<1> QED
  BY <1>1, <1>3, OJudge, OSettle

LEMMA OJudgeFirst == ASSUME NEW r \in Run, Holds(r), JudgeFirst(r) PROVE HoldsAfter(r)
<1>1. Judge(r, "first") /\ "first" \in Trying /\ phase[r] = "first" /\ step[r] = "judge"
  BY DEF JudgeFirst, Judge, Trying
<1>2. Now(r) = First(r)
  BY <1>1 DEF Now, First, Holds, OInv, MInv, Untouched
<1>3. Now(r) \in DOMAIN compiled
  BY <1>1 DEF Holds, OwnFiles
<1>4. Good(r)
  BY <1>2, <1>3 DEF Good, Known
<1>5. result[r] \in Result /\ Identical(r) \in BOOLEAN
  BY DEF Holds, OInv, MInv, TInv, Shapes, Identical
<1>6. CASE Identical(r) \/ iter[r] + 1 >= MaxIter[r]
  BY <1>1, <1>4, <1>5, <1>6, OJudge, OSettle DEF JudgeFirst
<1>7. CASE ~ (Identical(r) \/ iter[r] + 1 >= MaxIter[r])
  BY <1>1, <1>4, <1>5, <1>7, OJudge, ONextProc DEF JudgeFirst
<1> QED
  BY <1>6, <1>7

\* At the head of a loop nothing is in the files.
LEMMA AtHead ==
    ASSUME NEW r \in Run, Holds(r), phase[r] \in {"no_else", "flat"}, step[r] = "head"
    PROVE  Good(r) /\ \A n \in Numbers : cod[n] = None
<1>1. phase[r] \in Trying
  BY DEF Trying
<1> QED
  BY <1>1 DEF Holds, Better, OwnFiles, Good

\* Setting a mode and taking it back.
LEMMA TakenBack ==
    ASSUME MInv, NEW r \in Run, NEW m \in Mode, NEW b \in Mode, NEW h \in Jump,
           h = Head(todo[r]), SetMode(r, m), todo' = todo, mt[r][h] = b
    PROVE  Back(r, b)' = Now(r)
<1>1. mt[r] \in [Jump -> Mode]
  BY DEF MInv, TInv, Shapes, Loops, Modes
<1>2. mt'[r] = [mt[r] EXCEPT ![h] = m]
  BY DEF SetMode, MInv, TInv, Shapes, Loops
<1>3. [mt'[r] EXCEPT ![h] = b] = mt[r]
  BY <1>1, <1>2
<1> QED
  BY <1>3 DEF Back, Now, Text

LEMMA HeadIn ==
    ASSUME MInv, NEW r \in Run, phase[r] \in {"no_else", "flat"}, todo[r] # << >>
    PROVE  Head(todo[r]) \in Jump
<1>1. 1 \in DOMAIN todo[r] /\ Head(todo[r]) = todo[r][1]
  BY Pieces DEF MInv, TInv, Shapes, Loops
<1> QED
  BY <1>1, ProcIn, JumpsIn DEF MInv, Untouched

\* Before a try: the text as it was is the one to go back to.
LEMMA OTry ==
    ASSUME NEW r \in Run, Holds(r), NEW p \in {"no_else", "flat"}, phase[r] = p, step[r] = "head",
           NEW m \in Mode, NEW b \in Mode, b = IF p = "no_else" THEN "FULL" ELSE "NO_ELSE",
           todo[r] # << >>, mt[r][Head(todo[r])] = b,
           SetMode(r, m), Goto(r, p, "emit"), UNCHANGED << compiled, cod, todo, tmp_out, success >>
    PROVE  HoldsAfter(r)
<1>1. Good(r) /\ \A n \in Numbers : cod[n] = None
  BY AtHead
<1>2. phase'[r] = p /\ step'[r] = "emit"
  BY DEF Goto, Holds, OInv, MInv, TInv, Shapes, Loops
<1>3. Back(r, b)' = Now(r) /\ First(r)' = First(r)
  BY HeadIn, TakenBack DEF First, Text, Holds, OInv
<1>4. OwnFiles(r)'
  BY <1>1, <1>2 DEF OwnFiles
<1>5. OwnSuccess(r)'
  BY DEF OwnSuccess, Holds
<1>6. Better(r)'
  <2>1. Good(r) => /\ First(r)' \in DOMAIN compiled'
                   /\ compiled'[First(r)'] \in Code => Known(Back(r, b))'
    BY <1>3 DEF Good, Known
  <2> QED
    BY <1>1, <1>2, <2>1 DEF Better
<1> QED
  BY <1>4, <1>5, <1>6 DEF HoldsAfter

LEMMA OTryNoElse == ASSUME NEW r \in Run, Holds(r), TryNoElse(r) PROVE HoldsAfter(r)
<1>1. /\ phase[r] = "no_else" /\ step[r] = "head" /\ todo[r] # << >>
      /\ SetMode(r, "NO_ELSE") /\ Goto(r, "no_else", "emit")
      /\ UNCHANGED << compiled, cod, todo, tmp_out, success >>
      /\ "NO_ELSE" \in Mode /\ "FULL" \in Mode
  BY DEF TryNoElse, Files, final, Mode
<1>2. 1 \in DOMAIN todo[r] /\ Head(todo[r]) = todo[r][1]
  BY <1>1, Pieces DEF Holds, OInv, MInv, TInv, Shapes, Loops
<1>3. mt[r][Head(todo[r])] = "FULL"
  BY <1>1, <1>2 DEF Holds, OInv, MInv, Untouched
<1> QED
  BY <1>1, <1>3, OTry

\* From one head of a loop to the next, or to the state check.
LEMMA OOn ==
    ASSUME NEW r \in Run, Holds(r), Good(r), \A n \in Numbers : cod[n] = None,
           UNCHANGED << compiled, cod, mt, tmp_out, success >>,
           \/ phase'[r] \in {"no_else", "flat"} /\ step'[r] = "head"
           \/ phase'[r] = "state" /\ step'[r] = "emit"
    PROVE  HoldsAfter(r)
<1>1. First(r)' = First(r) /\ Now(r)' = Now(r)
  BY DEF First, Now, Text
<1>2. OwnFiles(r)'
  BY DEF OwnFiles
<1>3. OwnSuccess(r)'
  BY DEF OwnSuccess, Holds
<1>4. Better(r)'
  BY <1>1 DEF Better, Known, Good
<1> QED
  BY <1>2, <1>3, <1>4 DEF HoldsAfter

LEMMA OTryFlat == ASSUME NEW r \in Run, Holds(r), TryFlat(r) PROVE HoldsAfter(r)
<1>1. /\ phase[r] = "flat" /\ step[r] = "head" /\ todo[r] # << >>
      /\ UNCHANGED << compiled, cod, tmp_out, success >>
      /\ "NO_ELSE" \in Mode /\ "FLAT" \in Mode
  BY DEF TryFlat, Files, final, Mode
<1>2. CASE mt[r][Head(todo[r])] = "NO_ELSE"
  BY <1>1, <1>2, OTry DEF TryFlat
<1>3. CASE mt[r][Head(todo[r])] # "NO_ELSE"
  <2>1. UNCHANGED << mt, phase, step >>
    BY <1>3 DEF TryFlat
  <2>2. Good(r) /\ \A n \in Numbers : cod[n] = None
    BY <1>1, AtHead
  <2> QED
    BY <1>1, <2>1, <2>2, OOn
<1> QED
  BY <1>2, <1>3

\* After a try: the text that compiled is kept, the other one taken back.
LEMMA OJudgeJump ==
    ASSUME NEW r \in Run, Holds(r), NEW p \in {"no_else", "flat"}, NEW m \in Mode,
           m = IF p = "no_else" THEN "FULL" ELSE "NO_ELSE",
           Judge(r, p), ~ Identical(r),
           IF result[r] = -2 THEN SetMode(r, m) ELSE mt' = mt,
           Goto(r, p, "head"), UNCHANGED << tmp_out, success >>
    PROVE  HoldsAfter(r)
<1>1. p \in Trying /\ phase[r] = p /\ step[r] = "judge"
  BY DEF Trying, Judge
<1>2. phase'[r] = p /\ step'[r] = "head"
  BY DEF Goto, Holds, OInv, MInv, TInv, Shapes, Loops
<1>3. UNCHANGED << compiled, cod >> /\ \A n \in Numbers : cod[n] = None
  BY <1>1, OJudge
<1>4. First(r)' = First(r) /\ First(r) \in DOMAIN compiled
  BY <1>1 DEF First, Text, Holds, Better
<1>5. compiled[First(r)] \in Code => Known(Now(r)')
  <2>1. CASE result[r] = -2
    <3>1. mt'[r] = [mt[r] EXCEPT ![Head(todo[r])] = m]
      BY <2>1 DEF SetMode, Holds, OInv, MInv, TInv, Shapes, Loops
    <3>2. Now(r)' = Back(r, m)
      BY <3>1 DEF Now, Back, Text
    <3> QED
      BY <1>1, <3>2 DEF Holds, Better
  <2>2. CASE result[r] # -2
    <3>1. Now(r)' = Now(r)
      BY <2>2 DEF Now, Text
    <3> QED
      BY <1>1, <2>2, <3>1, OJudge
  <2> QED
    BY <2>1, <2>2
<1>6. OwnFiles(r)'
  BY <1>2, <1>3 DEF OwnFiles
<1>7. OwnSuccess(r)'
  BY <1>3 DEF OwnSuccess, Holds
<1>8. Better(r)'
  BY <1>2, <1>3, <1>4, <1>5 DEF Better, Known
<1> QED
  BY <1>6, <1>7, <1>8 DEF HoldsAfter

LEMMA OJudgeNoElse == ASSUME NEW r \in Run, Holds(r), JudgeNoElse(r) PROVE HoldsAfter(r)
<1>1. CASE Identical(r)
  BY <1>1, OIdentical DEF JudgeNoElse
<1>2. CASE ~ Identical(r)
  BY <1>2, OJudgeJump DEF JudgeNoElse, final, Mode
<1> QED
  BY <1>1, <1>2

LEMMA OJudgeFlat == ASSUME NEW r \in Run, Holds(r), JudgeFlat(r) PROVE HoldsAfter(r)
<1>1. CASE Identical(r)
  BY <1>1, OIdentical DEF JudgeFlat
<1>2. CASE ~ Identical(r)
  BY <1>2, OJudgeJump DEF JudgeFlat, final, Mode
<1> QED
  BY <1>1, <1>2

LEMMA OJudgeState == ASSUME NEW r \in Run, Holds(r), JudgeState(r) PROVE HoldsAfter(r)
<1>1. /\ Judge(r, "state") /\ "state" \in Trying /\ phase[r] = "state"
  BY DEF JudgeState, Judge, Trying
<1>2. Good(r)
  BY <1>1 DEF Holds, Better, Good
<1>3. CASE result[r] < 0
  BY <1>1, <1>2, <1>3, OJudge, OSettle DEF JudgeState, Identical
<1>4. CASE ~ (result[r] < 0)
  <2>1. UNCHANGED << mt, tmp_out, success >> /\ phase'[r] = "flat" /\ step'[r] = "head"
    BY <1>4 DEF JudgeState, Goto, final, Holds, OInv, MInv, TInv, Shapes, Loops
  <2> QED
    BY <1>1, <1>2, <2>1, OJudge, OOn
<1> QED
  BY <1>3, <1>4

LEMMA OLeave == ASSUME NEW r \in Run, Holds(r), LeaveNoElse(r) \/ LeaveFlat(r) PROVE HoldsAfter(r)
<1>1. /\ phase[r] \in {"no_else", "flat"} /\ step[r] = "head"
      /\ UNCHANGED << compiled, cod >>
  BY DEF LeaveNoElse, LeaveFlat, Files
<1>2. Good(r) /\ \A n \in Numbers : cod[n] = None
  BY <1>1, AtHead
<1>3. diff[r] \in Result
  BY DEF Holds, OInv, MInv, TInv, Shapes, Loops
<1>4. CASE NextProc(r, diff[r])
  BY <1>1, <1>2, <1>3, <1>4, ONextProc
<1>5. CASE LeaveNoElse(r) /\ iter[r] < MaxIter[r]
  <2>1. UNCHANGED << mt, tmp_out, success >> /\ phase'[r] = "state" /\ step'[r] = "emit"
    BY <1>5 DEF LeaveNoElse, Goto, search, final, Holds, OInv, MInv, TInv, Shapes, Loops
  <2> QED
    BY <1>1, <1>2, <2>1, OOn
<1> QED
  BY <1>4, <1>5 DEF LeaveNoElse, LeaveFlat

\* A run that checks its output or is killed searches no more.
LEMMA OEnd ==
    ASSUME NEW r \in Run, Holds(r), Kill(r) \/ \E o : VerifyRoundtrip(r, o), Grows
    PROVE  HoldsAfter(r)
<1>1. phase'[r] \in {"done", "killed"} /\ UNCHANGED << tmp_out, success >>
  BY DEF Kill, VerifyRoundtrip, final, Holds, OInv, MInv, TInv, Shapes, Loops
<1>2. OwnFiles(r)'
  BY <1>1 DEF OwnFiles, Trying
<1>3. OwnSuccess(r)'
  BY <1>1, KnownStays DEF OwnSuccess, Holds
<1>4. Better(r)'
  BY <1>1 DEF Better
<1> QED
  BY <1>2, <1>3, <1>4 DEF HoldsAfter

LEMMA OWork ==
    ASSUME NEW r \in Run, Holds(r), Work(r) \/ Kill(r), Grows
    PROVE  HoldsAfter(r)
  BY OEmit, OCompile, OLoad, OJudgeFirst, OTryNoElse, OJudgeNoElse, OLeave, OJudgeState,
     OTryFlat, OJudgeFlat, OEnd DEF Work

LEMMA OStep == ASSUME OInv, [Next]_vars PROVE OInv'
<1>1. MInv'
  BY MStep DEF OInv
<1>2. CASE UNCHANGED vars
  <2>1. ASSUME NEW q \in Run, Undisturbed(q)' PROVE OwnFiles(q)' /\ OwnSuccess(q)' /\ Better(q)'
    <3>1. Undisturbed(q) /\ Still(q) /\ UNCHANGED << src, cod >> /\ Grows
      BY <1>2, <2>1 DEF vars, Undisturbed, Still, Grows
    <3> QED
      BY <3>1, OwnKept DEF OInv, Own
  <2> QED
    BY <1>1, <2>1 DEF OInv, Own
<1>3. ASSUME NEW r \in Run, Work(r) \/ Kill(r), NEW q \in Run, Undisturbed(q)'
      PROVE  OwnFiles(q)' /\ OwnSuccess(q)' /\ Better(q)'
  <2>1. CASE q = r
    <3>1. \A p \in Run \ {r} : Still(p)
      BY <1>3, OthersStill DEF OInv, MInv
    <3>2. Undisturbed(r)
      BY <1>3, <2>1, <3>1 DEF Undisturbed, Still
    <3>3. Holds(r)
      BY <3>2 DEF Holds, OInv, Own
    <3>4. Grows
      BY <1>3, CompiledGrows DEF OInv, Next
    <3> QED
      BY <1>3, <2>1, <3>3, <3>4, OWork DEF HoldsAfter
  <2>2. CASE q # r
    BY <1>3, <2>2, OwnOthers
  <2> QED
    BY <2>1, <2>2
<1>4. CASE Next
  <2>1. \A q \in Run : Own(q)'
    BY <1>3, <1>4 DEF Next, Own
  <2> QED
    BY <1>1, <2>1 DEF OInv
<1> QED
  BY <1>2, <1>4

LEMMA OAlways == Spec => []OInv
  BY OInit, OStep, PTL DEF Spec

\* When emit_verified returns 0, the text it has written compiles to the
\* original code, for any compiler and any program, as long as no other run
\* has used the temporary files (try_mode names them by number only).
THEOREM SuccessTold == Spec => []SuccessIsTrue
<1>1. OInv => SuccessIsTrue
  BY DEF OInv, Own, OwnSuccess, SuccessIsTrue
<1> QED
  BY <1>1, OAlways, PTL

\* If the first text compiled, the one the search settles on compiles too:
\* a mode that broke the text has been taken back before the next is tried,
\* however the number of tries cuts the loops of emit_verified short.
THEOREM NeverWorse == Spec => []BestEffortCompiles
<1>1. OInv => BestEffortCompiles
  BY DEF OInv, Own, Better, Known, First, BestEffortCompiles
<1> QED
  BY <1>1, OAlways, PTL
=============================================================================
