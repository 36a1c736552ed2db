---------------------------- MODULE PreprocProofs ----------------------------
(***************************************************************************)
(* The stacks of the preprocessor, for any files, any documents and any    *)
(* number of parses: they hold what they should (TypeOK), no file is       *)
(* inside itself but by a COPY of its own (NoCycle), and while file_stack  *)
(* has room no file is closed twice or left open (ClosedOnce) and the      *)
(* parser is given what CopyText promises (ReadsAsPromised).               *)
(***************************************************************************)
EXTENDS Preproc, TLAPS, SequenceTheorems

(***************************************************************************)
(* Facts about stacks kept as sequences.                                   *)
(***************************************************************************)
LEMMA Popped ==
    ASSUME NEW S, NEW s \in Seq(S), s # << >>
    PROVE  /\ Front(s) \in Seq(S) /\ Len(Front(s)) = Len(s) - 1
           /\ \A i \in 1 .. Len(s) - 1 : Front(s)[i] = s[i]
           /\ Last(s) \in S
  <1>1. Len(s) \in Nat /\ Len(s) - 1 \in Nat /\ Len(s) \in DOMAIN s
    OBVIOUS
  <1>2. Last(s) \in S
    BY <1>1 DEF Last
  <1>3. /\ SubSeq(s, 1, Len(s) - 1) \in Seq(S)
        /\ Len(SubSeq(s, 1, Len(s) - 1)) = Len(s) - 1
        /\ \A i \in 1 .. Len(s) - 1 : SubSeq(s, 1, Len(s) - 1)[i] = s[i]
    <2>1. PICK n \in Int : n = Len(s) - 1
      BY <1>1
    <2>2. \A i \in 1 .. n : s[i] \in S
      BY <1>1, <2>1
    <2>3. /\ SubSeq(s, 1, n) \in Seq(S)
          /\ Len(SubSeq(s, 1, n)) = IF 1 <= n THEN n - 1 + 1 ELSE 0
          /\ \A i \in 1 .. n - 1 + 1 : SubSeq(s, 1, n)[i] = s[1 + i - 1]
      BY <2>2, SubSeqProperties
    <2>4. /\ n \in Nat /\ n - 1 + 1 = n
          /\ \A i \in 1 .. n : 1 + i - 1 = i
      BY <1>1, <2>1
    <2> QED
      BY <2>1, <2>3, <2>4
  <1> QED
    BY <1>2, <1>3 DEF Front

LEMMA TopReplaced ==
    ASSUME NEW S, NEW s \in Seq(S), s # << >>, NEW x \in S
    PROVE  /\ [s EXCEPT ![Len(s)] = x] \in Seq(S)
           /\ Len([s EXCEPT ![Len(s)] = x]) = Len(s)
  OBVIOUS

(***************************************************************************)
(* NoCycle is not inductive: after a COPY the file that was being read     *)
(* joins the includers.  It is among them already only as the last.        *)
(***************************************************************************)
CurrentLast ==
    \A i \in DOMAIN include_stack :
        include_stack[i].filename = current_filename => i = Len(include_stack)

IInv == TypeOK /\ disk \in Disks /\ NoCycle /\ CurrentLast

\* The conjuncts of TypeOK that speak of each group of variables.
StackTypes ==
    /\ buffers \in Seq(Seq(STRING)) /\ Len(buffers) = Len(file_stack) + 1
    /\ file_stack \in Seq(Nat) /\ Len(file_stack) <= MAX_INCLUDE_DEPTH
    /\ opened \in Nat /\ yyin \in Nat
IncludeTypes ==
    /\ include_stack \in Seq([filename : Filenames, line : Nat \ {0}])
    /\ Len(include_stack) <= MAX_INCLUDE_DEPTH
    /\ current_filename \in Filenames
ScanTypes ==
    /\ cond \in Conditions
    /\ cond = "COPY_SEMI" => copy_filename \in STRING
    /\ current_line \in Nat \ {0}
    /\ fp \in Nat /\ disk \in Disks
Circles == NoCycle /\ CurrentLast

LEMMA Parts == IInv <=> StackTypes /\ IncludeTypes /\ ScanTypes /\ Circles
  BY DEF IInv, TypeOK, StackTypes, IncludeTypes, ScanTypes, Circles

LEMMA PartsPrimed == (StackTypes /\ IncludeTypes /\ ScanTypes /\ Circles)' => IInv'
  BY DEF IInv, TypeOK, StackTypes, IncludeTypes, ScanTypes, Circles

LEMMA IInvInit == Init => IInv
  <1> SUFFICES ASSUME Init PROVE IInv
    OBVIOUS
  <1>1. StackTypes
    BY PreprocAssumption DEF Init, StackTypes
  <1>2. IncludeTypes /\ ScanTypes /\ Circles
    BY PreprocAssumption DEF Init, IncludeTypes, Filenames, ScanTypes, Conditions, Circles, NoCycle, CurrentLast
  <1> QED
    BY <1>1, <1>2, Parts

(***************************************************************************)
(* What does not touch the includers leaves their part of the invariant;   *)
(* so does emptying their stack.                                           *)
(***************************************************************************)
LEMMA IncludesKept ==
    ASSUME IncludeTypes, Circles, UNCHANGED << include_stack, current_filename >>
    PROVE  IncludeTypes' /\ Circles'
  BY DEF IncludeTypes, Circles, NoCycle, CurrentLast

LEMMA IncludesEmptied ==
    ASSUME include_stack' = << >>, current_filename' \in Filenames
    PROVE  IncludeTypes' /\ Circles'
  BY PreprocAssumption DEF IncludeTypes, Circles, NoCycle, CurrentLast

\* Taking a word off the text that is read.
LEMMA WordTaken ==
    ASSUME StackTypes, Top # << >>
    PROVE  /\ Word \in STRING
           /\ [buffers EXCEPT ![Len(buffers)] = Tail(Top)] \in Seq(Seq(STRING))
           /\ Len([buffers EXCEPT ![Len(buffers)] = Tail(Top)]) = Len(buffers)
  <1>1. buffers # << >> /\ Top \in Seq(STRING)
    BY DEF StackTypes, Top
  <1>2. Tail(Top) \in Seq(STRING) /\ Word \in STRING
    BY <1>1 DEF Word
  <1> QED
    BY <1>1, <1>2, TopReplaced DEF StackTypes

LEMMA Consumed ==
    ASSUME StackTypes, Top # << >>, Consume, UNCHANGED << file_stack, yyin, opened >>
    PROVE  StackTypes'
  BY WordTaken DEF Consume, StackTypes

LEMMA Delivered ==
    ASSUME StackTypes, IncludeTypes, Circles, Top # << >>, NEW kind, Deliver(kind)
    PROVE  StackTypes' /\ IncludeTypes' /\ Circles'
  <1>1. Consume /\ UNCHANGED << file_stack, yyin, opened, current_filename >>
    BY DEF Deliver, EndParse, files
  <1>2. CASE include_stack' = include_stack
    BY <1>1, <1>2, Consumed, IncludesKept
  <1>3. CASE include_stack' = << >>
    BY <1>1, <1>3, Consumed, IncludesEmptied DEF IncludeTypes
  <1> QED
    BY <1>2, <1>3 DEF Deliver, EndParse

LEMMA Skipped ==
    ASSUME StackTypes, IncludeTypes, Circles, Top # << >>, Skip
    PROVE  StackTypes' /\ IncludeTypes' /\ Circles'
  BY Consumed, IncludesKept DEF Skip, files

(***************************************************************************)
(* The two steps that move the includers.                                  *)
(***************************************************************************)
LEMMA CopyStep ==
    ASSUME IInv, CopySemicolon
    PROVE  IInv'
  <1> DEFINE below == [buffers EXCEPT ![Len(buffers)] = Tail(Top)]
             c == copy_filename
  <1>1. StackTypes /\ IncludeTypes /\ ScanTypes /\ Circles
    BY Parts
  <1>2. Top # << >> /\ c \in STRING /\ current_line \in Nat \ {0}
    BY <1>1 DEF CopySemicolon, Rule, ScanTypes
  <1>3. below \in Seq(Seq(STRING)) /\ Len(below) = Len(buffers)
    BY <1>1, <1>2, WordTaken
  <1>4. ScanTypes'
    BY <1>1 DEF CopySemicolon, ScanTypes, parse, Conditions
  <1>5. CASE Refused(c)
    <2>1. buffers' = below /\ UNCHANGED << files, include_stack, current_filename >>
      BY <1>5 DEF CopySemicolon
    <2>2. StackTypes'
      BY <1>1, <1>3, <2>1 DEF StackTypes, files
    <2> QED
      BY <1>1, <1>4, <2>1, <2>2, IncludesKept, PartsPrimed
  <1>6. CASE ~ Refused(c)
    <2> DEFINE e == [filename |-> current_filename, line |-> current_line]
    <2>1. /\ include_stack' = Append(include_stack, e) /\ current_filename' = c
          /\ lexer_push_buffer(below, c)
      BY <1>6 DEF CopySemicolon
    <2>2. /\ Len(include_stack) < MAX_INCLUDE_DEPTH /\ c \in DOMAIN disk.content
          /\ \A i \in DOMAIN include_stack : include_stack[i].filename # c
      BY <1>1, <1>6, PreprocAssumption DEF Refused, Includers, IncludeTypes
    <2>3. disk.content[c] \in Seq(STRING)
      BY <1>1, <2>2, PreprocAssumption DEF ScanTypes
    <2>4. StackTypes'
      <3>1. CASE Len(file_stack) >= MAX_INCLUDE_DEPTH
        <4>1. buffers' = below /\ opened' = opened + 1 /\ UNCHANGED << file_stack, yyin >>
          BY <2>1, <3>1 DEF lexer_push_buffer
        <4> QED
          BY <1>1, <1>3, <4>1 DEF StackTypes
      <3>2. CASE ~ Len(file_stack) >= MAX_INCLUDE_DEPTH
        <4>1. /\ file_stack' = Append(file_stack, yyin) /\ yyin' = opened + 1
              /\ buffers' = Append(below, disk.content[c]) /\ opened' = opened + 1
          BY <2>1, <3>2 DEF lexer_push_buffer
        <4>2. file_stack' \in Seq(Nat) /\ Len(file_stack') = Len(file_stack) + 1
          BY <1>1, <4>1 DEF StackTypes
        <4>3. buffers' \in Seq(Seq(STRING)) /\ Len(buffers') = Len(buffers) + 1
          <5>1. \A b : b \in Seq(Seq(STRING)) =>
                    /\ Append(b, disk.content[c]) \in Seq(Seq(STRING))
                    /\ Len(Append(b, disk.content[c])) = Len(b) + 1
            BY <2>3
          <5> QED
            BY <1>3, <4>1, <5>1
        <4> QED
          BY <1>1, <3>2, <4>1, <4>2, <4>3, PreprocAssumption DEF StackTypes
      <3> QED
        BY <3>1, <3>2
    <2>5. e \in [filename : Filenames, line : Nat \ {0}] /\ c \in Filenames
      BY <1>1, <1>2 DEF IncludeTypes, Filenames
    <2>6. IncludeTypes'
      BY <1>1, <2>1, <2>2, <2>5, PreprocAssumption DEF IncludeTypes
    <2>7. /\ DOMAIN include_stack' = 1 .. Len(include_stack) + 1
          /\ Len(include_stack') = Len(include_stack) + 1
          /\ \A i \in 1 .. Len(include_stack) : include_stack'[i] = include_stack[i]
          /\ include_stack'[Len(include_stack) + 1].filename = current_filename
      BY <1>1, <2>1 DEF IncludeTypes
    <2>8. CurrentLast'
      BY <1>1, <2>1, <2>2, <2>7 DEF CurrentLast, IncludeTypes
    <2>9. NoCycle'
      <3>1. PICK n \in Nat : n = Len(include_stack)
        BY <1>1 DEF IncludeTypes
      <3>2. DOMAIN include_stack = 1 .. n /\ DOMAIN include_stack' = 1 .. n + 1
        BY <1>1, <2>7, <3>1 DEF IncludeTypes
      <3> SUFFICES ASSUME NEW i \in 1 .. n + 1, NEW j \in 1 .. n + 1, i < j,
                          include_stack'[i].filename = include_stack'[j].filename
                   PROVE  j = i + 1
        BY <3>2 DEF NoCycle
      <3>3. i \in 1 .. n /\ include_stack'[i] = include_stack[i]
        BY <2>7, <3>1
      <3>4. CASE j = n + 1
        BY <1>1, <2>7, <3>1, <3>2, <3>3, <3>4 DEF Circles, CurrentLast
      <3>5. CASE j \in 1 .. n
        BY <1>1, <2>7, <3>1, <3>2, <3>3, <3>5 DEF Circles, NoCycle
      <3> QED
        BY <3>1, <3>4, <3>5
    <2> QED
      BY <1>4, <2>4, <2>6, <2>8, <2>9, PartsPrimed DEF Circles
  <1> QED
    BY <1>5, <1>6

LEMMA PopStep ==
    ASSUME IInv, PopFile
    PROVE  IInv'
  <1> DEFINE R == [filename : Filenames, line : Nat \ {0}]
             n == Len(include_stack) - 1
  <1>1. StackTypes /\ IncludeTypes /\ ScanTypes /\ Circles
    BY Parts
  <1>2. StackTypes'
    <2>1. CASE file_stack = << >>
      BY <1>1, <2>1 DEF PopFile, lexer_pop_buffer, StackTypes, files
    <2>2. CASE file_stack # << >>
      <3>1. buffers # << >> /\ Len(file_stack) \in Nat
        BY <1>1 DEF StackTypes
      <3>2. /\ buffers' = Front(buffers) /\ opened' = opened
            /\ yyin' = Last(file_stack) /\ file_stack' = Front(file_stack)
        BY <2>2 DEF PopFile, lexer_pop_buffer
      <3>3. buffers' \in Seq(Seq(STRING)) /\ Len(buffers') = Len(buffers) - 1
        BY <1>1, <3>1, <3>2, Popped DEF StackTypes
      <3>4. file_stack' \in Seq(Nat) /\ Len(file_stack') = Len(file_stack) - 1 /\ yyin' \in Nat
        BY <1>1, <2>2, <3>2, Popped DEF StackTypes
      <3> QED
        BY <1>1, <3>1, <3>2, <3>3, <3>4, PreprocAssumption DEF StackTypes
    <2> QED
      BY <2>1, <2>2
  <1>3. /\ include_stack \in Seq(R) /\ include_stack # << >>
        /\ Len(include_stack) \in Nat /\ n \in Nat
    BY <1>1 DEF PopFile, IncludeTypes
  <1>4. /\ include_stack' = Front(include_stack)
        /\ current_filename' = Last(include_stack).filename
        /\ current_line' = Last(include_stack).line
    BY DEF PopFile
  <1>5. /\ include_stack' \in Seq(R) /\ Len(include_stack') = n
        /\ \A i \in 1 .. n : include_stack'[i] = include_stack[i]
        /\ Last(include_stack) \in R
    BY <1>3, <1>4, Popped
  <1> HIDE DEF n
  <1>0. DOMAIN include_stack = 1 .. n + 1 /\ DOMAIN include_stack' = 1 .. n
    BY <1>3, <1>5 DEF n
  <1>6. IncludeTypes'
    BY <1>1, <1>3, <1>4, <1>5, PreprocAssumption DEF IncludeTypes, n
  <1>7. ScanTypes'
    BY <1>1, <1>4, <1>5 DEF PopFile, ScanTypes, parse
  <1>8. NoCycle'
    BY <1>0, <1>1, <1>3, <1>5 DEF NoCycle, Circles
  <1>9. CurrentLast'
    <2>1. current_filename' = include_stack[n + 1].filename /\ n + 1 \in DOMAIN include_stack
      BY <1>0, <1>3, <1>4 DEF Last, n
    <2>2. SUFFICES ASSUME NEW i \in 1 .. n, include_stack[i].filename = include_stack[n + 1].filename
                   PROVE  i = n
      BY <1>0, <1>5, <2>1 DEF CurrentLast
    <2>3. i \in DOMAIN include_stack /\ i < n + 1
      BY <1>0, <1>3, <2>2
    <2>4. n + 1 = i + 1
      BY <1>1, <2>1, <2>2, <2>3 DEF NoCycle, Circles
    <2> QED
      BY <1>3, <2>4
  <1> QED
    BY <1>2, <1>6, <1>7, <1>8, <1>9, PartsPrimed DEF Circles

LEMMA IInvStep == IInv /\ [Next]_vars => IInv'
  <1> SUFFICES ASSUME IInv, [Next]_vars PROVE IInv'
    OBVIOUS
  <1>0. StackTypes /\ IncludeTypes /\ ScanTypes /\ Circles
    BY Parts
  <1>1. CASE UNCHANGED vars
    BY <1>1 DEF vars, stacks, files, parse, IInv, TypeOK, NoCycle, CurrentLast
  <1>2. ASSUME NEW d \in disk.documents, StartParse(d) PROVE IInv'
    <2>1. d.text \in Seq(STRING) /\ d.file \in STRING
      BY <1>0, PreprocAssumption DEF ScanTypes
    <2>2. buffers' \in Seq(Seq(STRING)) /\ Len(buffers') = Len(buffers)
      BY <1>0, <1>2, <2>1, TopReplaced DEF StartParse, StackTypes
    <2>3. StackTypes'
      BY <1>0, <1>2, <2>2 DEF StartParse, StackTypes
    <2>4. IncludeTypes' /\ Circles'
      BY <1>2, <2>1, IncludesEmptied DEF StartParse, Filenames
    <2>5. ScanTypes'
      BY <1>0, <1>2 DEF StartParse, ScanTypes, StackTypes
    <2> QED
      BY <2>3, <2>4, <2>5, PartsPrimed
  <1>3. CASE NewLine
    <2>1. Top # << >>
      BY <1>3 DEF NewLine, Rule
    <2> QED
      BY <1>0, <1>3, <2>1, Skipped, PartsPrimed DEF NewLine, ScanTypes, parse
  <1>4. CASE Token
    <2>1. Top # << >> /\ ScanTypes'
      BY <1>0, <1>4 DEF Token, Rule, ScanTypes, parse, Conditions
    <2> QED
      BY <1>0, <1>4, <2>1, Delivered, PartsPrimed DEF Token
  <1>5. CASE DefineName
    <2>1. Top # << >> /\ ScanTypes'
      BY <1>0, <1>5 DEF DefineName, Rule, ScanTypes, parse, Conditions
    <2> QED
      BY <1>0, <1>5, <2>1, Delivered, PartsPrimed DEF DefineName
  <1>6. CASE CopyKeyword
    <2>1. Top # << >> /\ ScanTypes'
      BY <1>0, <1>6 DEF CopyKeyword, Rule, ScanTypes, parse, Conditions
    <2> QED
      BY <1>0, <1>6, <2>1, Skipped, PartsPrimed DEF CopyKeyword
  <1>7. CASE CopyName
    <2>1. Top # << >>
      BY <1>7 DEF CopyName, Rule
    <2>2. Word \in STRING
      BY <1>0, <2>1, WordTaken
    <2>3. ScanTypes'
      BY <1>0, <1>7, <2>2 DEF CopyName, ScanTypes, parse, Conditions
    <2> QED
      BY <1>0, <1>7, <2>1, <2>3, Skipped, PartsPrimed DEF CopyName
  <1>8. CASE Unexpected
    <2>1. ScanTypes'
      BY <1>0, <1>8 DEF Unexpected, ScanTypes, parse, Conditions
    <2>2. StackTypes' /\ UNCHANGED << include_stack, current_filename >>
      BY <1>0, <1>8 DEF Unexpected, stacks, files, StackTypes
    <2> QED
      BY <1>0, <2>1, <2>2, IncludesKept, PartsPrimed
  <1>9. CASE CopySemicolon
    BY <1>9, CopyStep
  <1>10. CASE PopFile
    BY <1>10, PopStep
  <1>11. CASE EndOfInput
    <2>1. /\ include_stack' = << >>
          /\ UNCHANGED << buffers, file_stack, yyin, opened, current_filename >>
          /\ UNCHANGED << parse, cond, copy_filename, current_line >>
      BY <1>11 DEF EndOfInput, EndParse
    <2>2. StackTypes' /\ ScanTypes'
      BY <1>0, <2>1 DEF StackTypes, ScanTypes, parse
    <2> QED
      BY <1>0, <2>1, <2>2, IncludesEmptied, PartsPrimed DEF IncludeTypes
  <1> QED
    BY <1>1, <1>2, <1>3, <1>4, <1>5, <1>6, <1>7, <1>8, <1>9, <1>10, <1>11 DEF Next, Lex

\* The stacks keep their types and sizes, whatever is parsed: the 32 places
\* of include_stack and of file_stack are never overrun.
\* (preproc_push_file, lexer_push_buffer)
THEOREM TypeCorrect == Spec => []TypeOK
  <1>1. IInv => TypeOK
    BY DEF IInv
  <1> QED
    BY <1>1, IInvInit, IInvStep, PTL DEF Spec

\* No file is inside itself but by a COPY of its own, whatever the files.
\* (is_in_include_stack)
THEOREM NeverCircular == Spec => []NoCycle
  <1>1. IInv => NoCycle
    BY DEF IInv
  <1> QED
    BY <1>1, IInvInit, IInvStep, PTL DEF Spec

-----------------------------------------------------------------------------
(***************************************************************************)
(* The files of a parse.  A parse given up within a COPY leaves files on   *)
(* file_stack; those of the present parse lie above them, one for each     *)
(* includer, and then the one being read.  As long as what was left does   *)
(* not fill file_stack every file is closed once.                          *)
(***************************************************************************)
FileAt(i) == IF i <= Len(file_stack) THEN file_stack[i] ELSE yyin
Own == Left + 1 .. Len(file_stack) + 1

\* In the order they were opened, the first is the document, none is closed,
\* and of the files of this parse the others are.
OwnFiles ==
    /\ fp > 0 /\ FileAt(Left + 1) = fp
    /\ \A i, j \in Own : i < j => FileAt(i) < FileAt(j)
    /\ \A i \in Own : FileAt(i) \in fp .. opened /\ FileAt(i) \notin closed
    /\ \A f \in fp .. opened : f \in closed \/ \E i \in Own : FileAt(i) = f

FilesOK ==
    /\ closed \subseteq 1 .. opened /\ Len(include_stack) <= Len(file_stack)
    /\ parsing => OwnFiles
    /\ ClosedOnce

\* What leaves the files and the includers alone.
LEMMA FilesKept ==
    ASSUME FilesOK, parsing,
           UNCHANGED << files, include_stack, fp, parsing >>
    PROVE  FilesOK'
  BY DEF FilesOK, OwnFiles, ClosedOnce, FileAt, Left, Own, files

LEMMA LengthsNat ==
    ASSUME IInv, FilesOK
    PROVE  /\ Len(file_stack) \in Nat /\ Len(include_stack) \in Nat /\ Left \in Nat
           /\ opened \in Nat /\ fp \in Nat
           /\ Left + 1 \in Own /\ Len(file_stack) + 1 \in Own /\ Own \subseteq Nat
           /\ FileAt(Len(file_stack) + 1) = yyin
  <1>1. Len(file_stack) \in Nat /\ Len(include_stack) \in Nat /\ opened \in Nat /\ fp \in Nat
    BY DEF IInv, TypeOK
  <1>2. Len(include_stack) <= Len(file_stack)
    BY DEF FilesOK
  <1> QED
    BY <1>1, <1>2 DEF Left, Own, FileAt

\* A parse that ends closes its document, which is open.
LEMMA FilesEnd ==
    ASSUME IInv, FilesOK, parsing, EndParse, UNCHANGED fp,
           GivenUp' \/ (include_stack = << >> /\ UNCHANGED tokens)
    PROVE  FilesOK'
  <1>1. /\ closed' = closed \cup {fp} /\ twice' = (twice \/ fp \in closed)
        /\ ~ parsing' /\ include_stack' = << >>
        /\ UNCHANGED << file_stack, yyin, opened, fp >>
    BY DEF EndParse, Close
  <1>2. OwnFiles /\ ~ twice
    BY DEF FilesOK, ClosedOnce
  <1>3. fp \in fp .. opened /\ fp \notin closed /\ fp > 0
    BY <1>2, LengthsNat DEF OwnFiles
  <1>4. closed' \subseteq 1 .. opened' /\ Len(include_stack') <= Len(file_stack')
    <2>1. fp \in 1 .. opened
      BY <1>3, LengthsNat
    <2> QED
      BY <1>1, <2>1, LengthsNat DEF FilesOK
  <1>5. CASE GivenUp'
    BY <1>1, <1>2, <1>3, <1>4, <1>5 DEF FilesOK, ClosedOnce
  <1>6. CASE include_stack = << >>
    <2>1. Own = {Left + 1}
      BY <1>6, LengthsNat DEF Own, Left
    <2>2. \A f \in fp .. opened : f \in closed \/ f = fp
      BY <1>2, <2>1 DEF OwnFiles
    <2> QED
      BY <1>1, <1>2, <1>3, <1>4, <2>2 DEF FilesOK, ClosedOnce
  <1> QED
    BY <1>5, <1>6

LEMMA FilesDeliver ==
    ASSUME IInv, FilesOK, parsing, NEW kind, Deliver(kind), UNCHANGED fp
    PROVE  FilesOK'
  <1>1. CASE tokens = << >> /\ kind # "PROGRAM"
    <2>1. Len(tokens') = 1 /\ tokens'[1].kind # "PROGRAM"
      BY <1>1 DEF Deliver
    <2> QED
      BY <1>1, <2>1, FilesEnd DEF Deliver, GivenUp
  <1>2. CASE ~ (tokens = << >> /\ kind # "PROGRAM")
    BY <1>2, FilesKept DEF Deliver
  <1> QED
    BY <1>1, <1>2

LEMMA FilesStart ==
    ASSUME IInv, FilesOK, NEW d \in disk.documents, StartParse(d)
    PROVE  FilesOK'
  <1> DEFINE n == Len(file_stack)
  <1>1. /\ opened' = opened + 1 /\ fp' = opened + 1 /\ yyin' = opened + 1
        /\ include_stack' = << >> /\ parsing'
        /\ UNCHANGED << file_stack, closed, twice >>
    BY DEF StartParse
  <1>2. n \in Nat /\ opened \in Nat
    BY LengthsNat
  <1>3. Left' = n /\ Own' = {n + 1} /\ FileAt(n + 1)' = opened + 1
    BY <1>1, <1>2 DEF Left, Own, FileAt
  <1>4. closed \subseteq 1 .. opened /\ ~ twice
    BY DEF FilesOK, ClosedOnce
  <1>5. OwnFiles'
    <2>1. fp' .. opened' = {opened + 1} /\ opened + 1 \notin closed'
      BY <1>1, <1>2, <1>4
    <2> QED
      BY <1>1, <1>2, <1>3, <2>1 DEF OwnFiles, FileAt
  <1> QED
    BY <1>1, <1>2, <1>4, <1>5 DEF FilesOK, ClosedOnce

LEMMA FilesPush ==
    ASSUME IInv, FilesOK, Room, CopySemicolon
    PROVE  FilesOK'
  <1> DEFINE c == copy_filename
             below == [buffers EXCEPT ![Len(buffers)] = Tail(Top)]
  <1>0. PICK n \in Nat : n = Len(file_stack)
    BY LengthsNat
  <1>1. parsing /\ UNCHANGED << parsing, fp, tokens >>
    BY DEF CopySemicolon, Rule, parse
  <1>2. CASE Refused(c)
    BY <1>1, <1>2, FilesKept DEF CopySemicolon
  <1>3. CASE ~ Refused(c)
    <2>1. n < MAX_INCLUDE_DEPTH
      BY <1>0, <1>3 DEF Room, CopySemicolon
    <2>2. lexer_push_buffer(below, c) /\ include_stack' = Append(include_stack, [filename |-> current_filename,
                                                                               line |-> current_line])
      BY <1>3 DEF CopySemicolon
    <2>3. /\ file_stack' = Append(file_stack, yyin) /\ yyin' = opened + 1 /\ opened' = opened + 1
          /\ UNCHANGED << closed, twice >>
      BY <1>0, <2>1, <2>2, LengthsNat, PreprocAssumption DEF lexer_push_buffer
    <2>4. /\ Len(file_stack') = n + 1
          /\ \A i \in 1 .. n : file_stack'[i] = file_stack[i]
          /\ file_stack'[n + 1] = yyin
      BY <1>0, <2>3 DEF IInv, TypeOK
    <2>5. Len(include_stack') = Len(include_stack) + 1
      BY <2>2 DEF IInv, TypeOK
    <2>6. Left' = Left /\ Own' = Own \cup {n + 2}
      BY <1>0, <2>4, <2>5, LengthsNat DEF Left, Own
    <2>7. /\ \A i \in Own : FileAt(i)' = FileAt(i)
          /\ FileAt(n + 2)' = opened + 1
      BY <1>0, <2>3, <2>4, LengthsNat DEF FileAt, Own
    <2>8. OwnFiles /\ closed \subseteq 1 .. opened /\ ~ twice
      BY <1>1 DEF FilesOK, ClosedOnce
    <2>9. OwnFiles'
      <3>1. fp' > 0 /\ FileAt(Left + 1)' = fp'
        BY <1>1, <2>6, <2>7, <2>8, LengthsNat DEF OwnFiles, FileAt
      <3>2. \A i \in Own' : FileAt(i)' \in fp' .. opened' /\ FileAt(i)' \notin closed'
        <4>1. opened + 1 \in fp .. opened + 1 /\ opened + 1 \notin closed
          BY <2>8, LengthsNat DEF OwnFiles
        <4>2. \A i \in Own : FileAt(i) \in fp .. opened + 1
          BY <2>8, LengthsNat DEF OwnFiles
        <4> QED
          BY <1>1, <2>3, <2>6, <2>7, <2>8, <4>1, <4>2 DEF OwnFiles
      <3>3. \A i, j \in Own' : i < j => FileAt(i)' < FileAt(j)'
        <4>1. \A i \in Own : FileAt(i) < opened + 1 /\ i < n + 2 /\ i \in Nat
          BY <1>0, <2>8, LengthsNat DEF OwnFiles, Own
        <4> QED
          BY <2>6, <2>7, <2>8, <4>1, LengthsNat DEF OwnFiles
      <3>4. \A f \in fp' .. opened' : f \in closed' \/ \E i \in Own' : FileAt(i)' = f
        <4>1. \A f \in fp .. opened + 1 : f \in fp .. opened \/ f = opened + 1
          BY LengthsNat
        <4>2. \A f \in fp .. opened : f \in closed \/ \E i \in Own' : FileAt(i)' = f
          BY <2>6, <2>7, <2>8 DEF OwnFiles
        <4>3. \E i \in Own' : FileAt(i)' = opened + 1
          BY <2>6, <2>7
        <4> QED
          BY <1>1, <2>3, <4>1, <4>2, <4>3
      <3> QED
        BY <3>1, <3>2, <3>3, <3>4 DEF OwnFiles
    <2>10. closed' \subseteq 1 .. opened' /\ Len(include_stack') <= Len(file_stack')
      BY <1>0, <2>3, <2>4, <2>5, <2>8, LengthsNat DEF FilesOK
    <2> QED
      BY <1>1, <2>3, <2>8, <2>9, <2>10 DEF FilesOK, ClosedOnce
  <1> QED
    BY <1>2, <1>3

LEMMA FilesPop ==
    ASSUME IInv, FilesOK, PopFile
    PROVE  FilesOK'
  <1>0. PICK n \in Nat : n = Len(file_stack)
    BY LengthsNat
  <1>1. parsing /\ include_stack # << >> /\ UNCHANGED << parsing, fp, opened, tokens >>
    BY DEF PopFile, parse, lexer_pop_buffer, files
  <1>2. /\ include_stack' = Front(include_stack) /\ Len(include_stack) > 0
        /\ Len(include_stack') = Len(include_stack) - 1
    <2>1. include_stack \in Seq([filename : Filenames, line : Nat \ {0}])
      BY DEF IInv, TypeOK
    <2>2. include_stack' = Front(include_stack)
      BY DEF PopFile
    <2> QED
      BY <1>1, <2>1, <2>2, Popped
  <1>3. n > 0 /\ file_stack # << >>
    BY <1>0, <1>2, LengthsNat DEF FilesOK
  <1>4. /\ closed' = closed \cup {yyin} /\ twice' = (twice \/ yyin \in closed)
        /\ yyin' = Last(file_stack) /\ file_stack' = Front(file_stack)
    BY <1>3 DEF PopFile, lexer_pop_buffer, Close
  <1>5. /\ Len(file_stack') = n - 1
        /\ \A i \in 1 .. n - 1 : file_stack'[i] = file_stack[i]
        /\ yyin' = file_stack[n]
    BY <1>0, <1>3, <1>4, Popped DEF IInv, TypeOK, Last
  <1>6. Left' = Left /\ Own' = Own \ {n + 1} /\ Own' \subseteq 1 .. n
    <2>1. PICK l \in Nat : l = Left
      BY LengthsNat
    <2>2. Left' = l
      BY <1>0, <1>2, <1>5, <2>1, LengthsNat DEF Left
    <2>3. Own = l + 1 .. n + 1 /\ Own' = l + 1 .. n
      BY <1>0, <1>5, <2>1, <2>2, LengthsNat DEF Own
    <2> QED
      BY <2>1, <2>2, <2>3
  <1>7. \A i \in Own' : FileAt(i)' = FileAt(i)
    BY <1>0, <1>5, <1>6, LengthsNat DEF FileAt
  <1>8. OwnFiles /\ closed \subseteq 1 .. opened /\ ~ twice
    BY <1>1 DEF FilesOK, ClosedOnce
  <1>9. yyin \in fp .. opened /\ yyin \notin closed
    BY <1>8, LengthsNat DEF OwnFiles
  <1>10. OwnFiles'
    <2>1. fp' > 0 /\ FileAt(Left + 1)' = fp'
      <3>1. Left + 1 \in Own'
        BY <1>2, <1>6, LengthsNat DEF Left
      <3> QED
        BY <1>1, <1>6, <1>7, <1>8, <3>1 DEF OwnFiles, FileAt
    <2>2. \A i \in Own' : FileAt(i) < yyin
      <3>1. \A i \in Own' : i \in Own /\ i < n + 1
        BY <1>0, <1>6, LengthsNat
      <3> QED
        BY <1>0, <1>8, <3>1, LengthsNat DEF OwnFiles
    <2>3. \A i \in Own' : FileAt(i) \in fp .. opened /\ FileAt(i) \notin closed /\ FileAt(i) # yyin
      BY <1>6, <1>8, <1>9, <2>2, LengthsNat DEF OwnFiles
    <2>4. \A i, j \in Own' : i < j => FileAt(i)' < FileAt(j)'
      BY <1>6, <1>7, <1>8 DEF OwnFiles
    <2>5. \A f \in fp .. opened : f \in closed' \/ \E i \in Own' : FileAt(i)' = f
      <3> SUFFICES ASSUME NEW f \in fp .. opened, f \notin closed, f # yyin
                   PROVE  \E i \in Own' : FileAt(i)' = f
        BY <1>4
      <3>1. PICK i \in Own : FileAt(i) = f
        BY <1>8 DEF OwnFiles
      <3> QED
        BY <1>0, <1>6, <1>7, <3>1, LengthsNat
    <2> QED
      BY <1>1, <1>4, <1>7, <2>1, <2>3, <2>4, <2>5 DEF OwnFiles
  <1>11. closed' \subseteq 1 .. opened' /\ Len(include_stack') <= Len(file_stack')
    <2>1. yyin \in 1 .. opened
      BY <1>8, <1>9, LengthsNat DEF OwnFiles
    <2> QED
      BY <1>1, <1>2, <1>4, <1>5, <1>8, <2>1, <1>0, LengthsNat DEF FilesOK
  <1> QED
    BY <1>1, <1>4, <1>8, <1>9, <1>10, <1>11 DEF FilesOK, ClosedOnce

LEMMA FilesStep ==
    ASSUME IInv, FilesOK, Room, [Next]_vars
    PROVE  FilesOK'
  <1>1. CASE UNCHANGED vars
    BY <1>1 DEF vars, stacks, files, parse, FilesOK, OwnFiles, ClosedOnce, GivenUp, FileAt, Left, Own
  <1>2. ASSUME NEW d \in disk.documents, StartParse(d) PROVE FilesOK'
    BY <1>2, FilesStart
  <1>3. CASE NewLine \/ CopyKeyword \/ CopyName
    <2>1. parsing /\ Skip /\ UNCHANGED fp
      BY <1>3 DEF NewLine, CopyKeyword, CopyName, Rule, parse
    <2> QED
      BY <2>1, FilesKept DEF Skip
  <1>4. CASE Token \/ DefineName
    <2>1. /\ parsing /\ UNCHANGED fp
          /\ \E kind : Deliver(kind)
      BY <1>4 DEF Token, DefineName, Rule, parse
    <2> QED
      BY <2>1, FilesDeliver
  <1>5. CASE Unexpected
    BY <1>5, FilesKept DEF Unexpected, Rule, stacks, parse
  <1>6. CASE CopySemicolon
    BY <1>6, FilesPush
  <1>7. CASE PopFile
    BY <1>7, FilesPop
  <1>8. CASE EndOfInput
    BY <1>8, FilesEnd DEF EndOfInput, parse
  <1> QED
    BY <1>1, <1>2, <1>3, <1>4, <1>5, <1>6, <1>7, <1>8 DEF Next, Lex

\* No file is closed twice, and a parse that ends by itself leaves none open,
\* as long as the files that given up parses left do not fill file_stack.
\* (lexer_pop_buffer, tbol_parse_string)
THEOREM EachClosedOnce == Spec /\ []Room => []ClosedOnce
  <1>1. Init => FilesOK
    BY DEF Init, FilesOK, ClosedOnce
  <1>2. IInv /\ FilesOK /\ Room /\ [Next]_vars => FilesOK'
    BY FilesStep
  <1>3. FilesOK => ClosedOnce
    BY DEF FilesOK
  <1> QED
    BY <1>1, <1>2, <1>3, IInvInit, IInvStep, PTL DEF Spec

-----------------------------------------------------------------------------
(***************************************************************************)
(* Preproc implements CopyText.                                            *)
(***************************************************************************)
\* The text being read, as a frame.
Current == [file |-> current_filename, rest |-> Top, line |-> current_line, expects |-> cond,
            name |-> IF cond = "COPY_SEMI" THEN copy_filename ELSE NULL]
Mapped == IInv /\ FilesOK

LEMMA FrameFacts ==
    ASSUME Mapped, parsing, NEW n, n = Len(include_stack)
    PROVE  /\ n \in Nat /\ Left \in Nat /\ Len(buffers) \in Nat /\ Len(buffers) = Left + n + 1
           /\ Frames = [i \in 1 .. n + 1 |-> FrameAt(i)]
           /\ Frames \in Seq({FrameAt(i) : i \in 1 .. n + 1})
           /\ Len(Frames) = n + 1 /\ Frames # << >>
           /\ FrameAt(n + 1) = Current /\ Frames[n + 1] = Current
           /\ Promise!Depth = n + 1 /\ Promise!Here = Current
  <1>1. n \in Nat /\ Left \in Nat /\ Len(buffers) \in Nat /\ Len(buffers) = Left + n + 1
    <2>1. Len(file_stack) \in Nat /\ n \in Nat /\ Left \in Nat /\ Len(buffers) = Len(file_stack) + 1
      BY LengthsNat DEF Mapped, IInv, TypeOK
    <2> QED
      BY <2>1 DEF Left
  <1>2. Frames = [i \in 1 .. n + 1 |-> FrameAt(i)]
    BY DEF Frames
  <1>3. Frames \in Seq({FrameAt(i) : i \in 1 .. n + 1}) /\ Len(Frames) = n + 1 /\ Frames # << >>
    <2> DEFINE S == {FrameAt(i) : i \in 1 .. n + 1}
    <2>1. \A i \in 1 .. n + 1 : FrameAt(i) \in S
      OBVIOUS
    <2>2. n + 1 \in Nat /\ n + 1 # 0
      BY <1>1
    <2> HIDE DEF S
    <2>3. [i \in 1 .. n + 1 |-> FrameAt(i)] \in Seq(S) /\ Len([i \in 1 .. n + 1 |-> FrameAt(i)]) = n + 1
      BY <2>1, <2>2
    <2>4. Frames \in Seq(S) /\ Len(Frames) = n + 1
      BY <1>2, <2>3
    <2> QED
      BY <2>2, <2>4 DEF S
  <1>4. FrameAt(n + 1) = Current
    <2>1. ~ (n + 1 <= n) /\ n + 1 > n /\ Left + (n + 1) = Len(buffers)
      BY <1>1
    <2> QED
      BY <2>1 DEF FrameAt, Current, Top
  <1>5. Frames[n + 1] = Current
    BY <1>1, <1>2, <1>4
  <1> QED
    BY <1>1, <1>2, <1>3, <1>4, <1>5 DEF Promise!Depth, Promise!Here

\* The abstract view of the text being read.
LEMMA HereIs ==
    ASSUME Mapped, parsing
    PROVE  /\ Frames # << >> /\ Promise!Word = Word
           /\ Promise!Here.file = current_filename /\ Promise!Here.rest = Top
           /\ Promise!Here.line = current_line /\ Promise!Here.expects = cond
           /\ Promise!Here.name = IF cond = "COPY_SEMI" THEN copy_filename ELSE NULL
           /\ \A e : Promise!Meets(e) <=> Top # << >> /\ cond = e
  <1>1. Frames # << >> /\ Promise!Here = Current
    BY FrameFacts
  <1>2. /\ Current.file = current_filename /\ Current.rest = Top
        /\ Current.line = current_line /\ Current.expects = cond
        /\ Current.name = IF cond = "COPY_SEMI" THEN copy_filename ELSE NULL
    BY DEF Current
  <1> QED
    BY <1>1, <1>2 DEF Promise!Word, Promise!Meets, Word

\* A step that leaves the stacks alone but for the text on top.
LEMMA Turned ==
    ASSUME Mapped, parsing, parsing', UNCHANGED << include_stack, file_stack, current_filename >>,
           NEW r, buffers' = [buffers EXCEPT ![Len(buffers)] = r]
    PROVE  Frames' = Promise!Turn(r, current_line', cond',
                                  IF cond' = "COPY_SEMI" THEN copy_filename' ELSE NULL)
  <1>1. PICK n, frame :
           /\ n = Len(include_stack)
           /\ frame = [file |-> current_filename, rest |-> r, line |-> current_line', expects |-> cond',
                       name |-> IF cond' = "COPY_SEMI" THEN copy_filename' ELSE NULL]
    OBVIOUS
  <1>2. /\ n \in Nat /\ Left \in Nat /\ Len(buffers) \in Nat /\ Len(buffers) = Left + n + 1
        /\ Frames = [i \in 1 .. n + 1 |-> FrameAt(i)] /\ Promise!Depth = n + 1
    BY <1>1, FrameFacts
  <1>3. Frames' = [i \in 1 .. n + 1 |-> FrameAt(i)'] /\ Left' = Left /\ n = Len(include_stack')
    BY <1>1 DEF Frames, Left
  <1>4. ASSUME NEW i \in 1 .. n PROVE FrameAt(i)' = FrameAt(i)
    <2>1. buffers'[Left + i] = buffers[Left + i]
      <3>1. Left + i # Len(buffers) /\ Left + i \in 1 .. Len(buffers)
        BY <1>2
      <3> QED
        BY <1>2, <3>1
    <2>2. i <= n /\ ~ (i > n)
      BY <1>2
    <2> QED
      BY <1>1, <1>3, <2>1, <2>2 DEF FrameAt
  <1>5. FrameAt(n + 1)' = frame
    <2>1. buffers \in Seq(Seq(STRING)) /\ Len(buffers) \in 1 .. Len(buffers)
      BY <1>2 DEF Mapped, IInv, TypeOK
    <2>2. buffers'[Left + (n + 1)] = r
      <3>1. Left + (n + 1) = Len(buffers)
        BY <1>2
      <3> QED
        BY <2>1, <3>1
    <2>3. ~ (n + 1 <= n) /\ n + 1 > n
      BY <1>2
    <2> QED
      BY <1>1, <1>3, <2>2, <2>3 DEF FrameAt
  <1>6. [i \in 1 .. n + 1 |-> FrameAt(i)'] = [[i \in 1 .. n + 1 |-> FrameAt(i)] EXCEPT ![n + 1] = frame]
    <2>1. \A i \in 1 .. n + 1 : i = n + 1 \/ i \in 1 .. n
      BY <1>2
    <2> QED
      BY <1>4, <1>5, <2>1
  <1>7. Promise!Here.file = current_filename
    BY HereIs
  <1> QED
    BY <1>1, <1>2, <1>3, <1>6, <1>7 DEF Promise!Turn

\* A word is taken off the text, and nothing else of the stacks changes.
LEMMA ReadOn ==
    ASSUME Mapped, parsing, parsing', Consume, UNCHANGED << include_stack, file_stack, current_filename >>
    PROVE  Frames' = Promise!Read(current_line', cond',
                                  IF cond' = "COPY_SEMI" THEN copy_filename' ELSE NULL)
  <1>1. PICK r : r = Tail(Top)
    OBVIOUS
  <1>2. buffers' = [buffers EXCEPT ![Len(buffers)] = r]
    BY <1>1 DEF Consume
  <1>3. Tail(Promise!Here.rest) = r
    BY <1>1, HereIs
  <1> QED
    BY <1>2, <1>3, Turned DEF Promise!Read

\* The word may be a name: not a semicolon and not the end of the line.
LEMMA Names == ASSUME Mapped, parsing PROVE IsName(Word) <=> Promise!IsName
  BY HereIs DEF IsName, Promise!IsName

LEMMA NextLineRefined ==
    ASSUME Mapped, NewLine
    PROVE  Promise!NextLine
  <1>1. PICK c \in Conditions : Rule(c)
    BY DEF NewLine
  <1>2. /\ parsing /\ parsing' /\ Top # << >> /\ cond = c /\ Word = "NL" /\ Consume
        /\ UNCHANGED << include_stack, file_stack, current_filename, cond, copy_filename, tokens >>
        /\ current_line' = current_line + 1
    BY <1>1 DEF NewLine, Rule, Skip, files
  <1>3. \E e \in {"INITIAL", "DEFINE_NAME", "COPY_STATE", "COPY_SEMI"} : Promise!Meets(e)
    BY <1>2, HereIs DEF Conditions
  <1>4. Promise!Word = "NL"
    BY <1>2, HereIs
  <1>5. /\ Promise!Here.line + 1 = current_line' /\ Promise!Here.expects = cond'
        /\ Promise!Here.name = IF cond' = "COPY_SEMI" THEN copy_filename' ELSE NULL
    BY <1>2, HereIs
  <1>6. Frames' = Promise!Read(Promise!Here.line + 1, Promise!Here.expects, Promise!Here.name)
    BY <1>2, <1>5, ReadOn
  <1> QED
    BY <1>2, <1>3, <1>4, <1>6 DEF Promise!NextLine

\* A word given to the parser.
LEMMA GiveRefined ==
    ASSUME Mapped, parsing, NEW kind, Deliver(kind), NEW e, cond' = e, e # "COPY_SEMI", cond # "COPY_SEMI",
           UNCHANGED << copy_filename, current_line >>
    PROVE  Promise!Give(kind, e)
  <1>1. tokens' = Append(tokens, [kind |-> kind, word |-> Promise!Word, file |-> Promise!Here.file,
                                  line |-> Promise!Here.line])
    BY HereIs DEF Deliver, Current
  <1>2. CASE tokens = << >> /\ kind # "PROGRAM"
    <2>1. ~ parsing'
      BY <1>2 DEF Deliver, EndParse
    <2>2. Frames' = << >>
      BY <2>1 DEF Frames
    <2> QED
      BY <1>1, <1>2, <2>2 DEF Promise!Give
  <1>3. CASE ~ (tokens = << >> /\ kind # "PROGRAM")
    <2>1. parsing' /\ Consume /\ UNCHANGED << include_stack, file_stack, current_filename >>
      BY <1>3 DEF Deliver, files
    <2>2. Promise!Here.line = current_line'
      BY HereIs
    <2>3. Frames' = Promise!Read(Promise!Here.line, e, NULL)
      BY <2>1, <2>2, ReadOn
    <2> QED
      BY <1>1, <1>3, <2>3 DEF Promise!Give
  <1> QED
    BY <1>2, <1>3

LEMMA TokenRefined ==
    ASSUME Mapped, Token
    PROVE  Promise!GiveWord
  <1>1. PICK kind, e : /\ kind = IF Word \in {"PROGRAM", "DEFINE", ";"} THEN Word ELSE "IDENT"
                       /\ e = IF Word = "DEFINE" THEN "DEFINE_NAME" ELSE "INITIAL"
    OBVIOUS
  <1>2. /\ parsing /\ Top # << >> /\ cond = "INITIAL" /\ Word \notin {"NL", "COPY"}
        /\ Deliver(kind) /\ cond' = e /\ UNCHANGED << copy_filename, current_line >>
    BY <1>1 DEF Token, Rule
  <1>3. Promise!Give(kind, e)
    <2>1. e # "COPY_SEMI" /\ cond # "COPY_SEMI"
      BY <1>1, <1>2
    <2> QED
      BY <1>2, <2>1, GiveRefined
  <1>4. Promise!Word = Word /\ Promise!Meets("INITIAL")
    BY <1>2, HereIs
  <1> QED
    BY <1>1, <1>2, <1>3, <1>4 DEF Promise!GiveWord

LEMMA DefineNameRefined ==
    ASSUME Mapped, DefineName
    PROVE  Promise!GiveName
  <1>1. /\ parsing /\ Top # << >> /\ cond = "DEFINE_NAME" /\ IsName(Word)
        /\ Deliver("IDENT") /\ cond' = "INITIAL" /\ UNCHANGED << copy_filename, current_line >>
    BY DEF DefineName, Rule
  <1>2. Promise!Give("IDENT", "INITIAL")
    BY <1>1, GiveRefined
  <1> QED
    BY <1>1, <1>2, HereIs, Names DEF Promise!GiveName

LEMMA CopyKeywordRefined ==
    ASSUME Mapped, CopyKeyword
    PROVE  Promise!MeetCopy
  <1>1. /\ parsing /\ parsing' /\ Top # << >> /\ cond = "INITIAL" /\ Word = "COPY" /\ Consume /\ cond' = "COPY_STATE"
        /\ UNCHANGED << include_stack, file_stack, current_filename, copy_filename, current_line, tokens >>
    BY DEF CopyKeyword, Rule, Skip, files
  <1>2. Promise!Here.line = current_line'
    BY <1>1, HereIs
  <1>3. Frames' = Promise!Read(Promise!Here.line, "COPY_STATE", NULL)
    BY <1>1, <1>2, ReadOn
  <1> QED
    BY <1>1, <1>3, HereIs DEF Promise!MeetCopy

LEMMA CopyNameRefined ==
    ASSUME Mapped, CopyName
    PROVE  Promise!MeetFile
  <1>1. /\ parsing /\ parsing' /\ Top # << >> /\ cond = "COPY_STATE" /\ IsName(Word) /\ Consume /\ cond' = "COPY_SEMI"
        /\ copy_filename' = Word
        /\ UNCHANGED << include_stack, file_stack, current_filename, current_line, tokens >>
    BY DEF CopyName, Rule, Skip, files
  <1>2. Promise!Here.line = current_line' /\ copy_filename' = Promise!Word
    BY <1>1, HereIs
  <1>3. Frames' = Promise!Read(Promise!Here.line, "COPY_SEMI", Promise!Word)
    BY <1>1, <1>2, ReadOn
  <1> QED
    BY <1>1, <1>3, HereIs, Names DEF Promise!MeetFile

LEMMA UnexpectedRefined ==
    ASSUME Mapped, Unexpected
    PROVE  Promise!Revert
  <1>1. /\ parsing /\ parsing' /\ Top # << >> /\ cond' = "INITIAL"
        /\ UNCHANGED << buffers, include_stack, file_stack, current_filename, current_line, tokens >>
        /\ \/ cond = "DEFINE_NAME" /\ Word = ";"
           \/ cond = "COPY_STATE" /\ Word = ";"
           \/ cond = "COPY_SEMI" /\ IsName(Word)
    BY DEF Unexpected, Rule, stacks, files
  <1>2. PICK r : r = Top
    OBVIOUS
  <1>3. Promise!Here.rest = r /\ Promise!Here.line = current_line'
    BY <1>1, <1>2, HereIs
  <1>4. buffers' = [buffers EXCEPT ![Len(buffers)] = r]
    <2>1. buffers \in Seq(Seq(STRING))
      BY DEF Mapped, IInv, TypeOK
    <2>2. [buffers EXCEPT ![Len(buffers)] = buffers[Len(buffers)]] = buffers
      BY <2>1
    <2> QED
      BY <1>1, <1>2, <2>2 DEF Top
  <1>5. Frames' = Promise!Turn(Promise!Here.rest, Promise!Here.line, "INITIAL", NULL)
    BY <1>1, <1>3, <1>4, Turned
  <1> QED
    BY <1>1, <1>5, HereIs, Names DEF Promise!Revert
-----------------------------------------------------------------------------
\* The files that copy the one being read, and what may be copied.
LEMMA AroundIs ==
    ASSUME Mapped, parsing, NEW c
    PROVE  Promise!Around = Includers /\ (Promise!Taken(c) <=> ~ Refused(c))
  <1>1. PICK n : n = Len(include_stack)
    OBVIOUS
  <1>2. /\ n \in Nat /\ Frames = [i \in 1 .. n + 1 |-> FrameAt(i)]
        /\ Promise!Depth = n + 1 /\ Promise!Depth - 1 = n
    <2>1. n \in Nat /\ Frames = [i \in 1 .. n + 1 |-> FrameAt(i)] /\ Promise!Depth = n + 1
      BY <1>1, FrameFacts
    <2> QED
      BY <2>1
  <1>3. ASSUME NEW i \in 1 .. n PROVE Frames[i].file = include_stack[i].filename
    <2>1. Frames[i] = FrameAt(i) /\ i <= n
      BY <1>2
    <2> QED
      BY <1>1, <2>1 DEF FrameAt
  <1>4. Promise!Around = Includers
    <2>1. DOMAIN include_stack = 1 .. n
      BY <1>1 DEF Mapped, IInv, TypeOK
    <2>2. Promise!Around = {Frames[i].file : i \in 1 .. n}
      BY <1>2 DEF Promise!Around
    <2> QED
      BY <1>3, <2>1, <2>2 DEF Includers
  <1>5. n + 1 <= MAX_INCLUDE_DEPTH <=> ~ (n >= MAX_INCLUDE_DEPTH)
    BY <1>2, PreprocAssumption
  <1> QED
    BY <1>1, <1>2, <1>4, <1>5 DEF Promise!Taken, Refused

\* A sequence is another one with an element appended to it.
LEMMA AppendedTo ==
    ASSUME NEW n \in Nat, NEW b, b = [i \in 1 .. n |-> b[i]], NEW z,
           NEW t, t = [i \in 1 .. n + 1 |-> t[i]], \A i \in 1 .. n : t[i] = b[i], t[n + 1] = z
    PROVE  t = Append(b, z)
  <1> DEFINE S == {b[i] : i \in 1 .. n} \cup {z}
  <1>1. z \in S /\ \A i \in 1 .. n : b[i] \in S
    OBVIOUS
  <1> HIDE DEF S
  <1>2. b \in Seq(S) /\ Len(b) = n
    <2>1. [i \in 1 .. n |-> b[i]] \in Seq(S) /\ Len([i \in 1 .. n |-> b[i]]) = n
      BY <1>1, SMTT(30)
    <2> QED
      BY <2>1
  <1>3. /\ Append(b, z) \in Seq(S) /\ Len(Append(b, z)) = n + 1
        /\ \A i \in 1 .. n : Append(b, z)[i] = b[i]
        /\ Append(b, z)[n + 1] = z
    BY <1>1, <1>2, AppendProperties
  <1>4. Append(b, z) = [i \in 1 .. n + 1 |-> Append(b, z)[i]]
    BY <1>3
  <1>5. \A i \in 1 .. n + 1 : i \in 1 .. n \/ i = n + 1
    OBVIOUS
  <1> QED
    BY <1>3, <1>4, <1>5

LEMMA CopySemicolonRefined ==
    ASSUME Mapped, Room, CopySemicolon
    PROVE  Promise!Enter
  <1>1. PICK r, n, c : r = Tail(Top) /\ n = Len(include_stack) /\ c = copy_filename
    OBVIOUS
  <1>2. /\ parsing /\ parsing' /\ Top # << >> /\ cond = "COPY_SEMI" /\ Word = ";" /\ cond' = "INITIAL"
        /\ UNCHANGED << current_line, tokens >>
    BY DEF CopySemicolon, Rule
  <1>3. Promise!Here.line = current_line /\ Tail(Promise!Here.rest) = r /\ Promise!Here.name = c
    BY <1>1, <1>2, HereIs
  <1>4. Promise!Meets("COPY_SEMI") /\ Promise!Word = ";" /\ UNCHANGED tokens
    BY <1>2, HereIs
  <1>5. CASE Refused(copy_filename)
    <2>1. Consume /\ UNCHANGED << include_stack, file_stack, current_filename >>
      BY <1>5 DEF CopySemicolon, Consume, files
    <2>2. Frames' = Promise!Read(Promise!Here.line, "INITIAL", NULL)
      BY <1>2, <1>3, <2>1, ReadOn
    <2>3. ~ Promise!Taken(Promise!Here.name)
      BY <1>1, <1>2, <1>3, <1>5, AroundIs
    <2> QED
      BY <1>4, <2>2, <2>3 DEF Promise!Enter
  <1>6. CASE ~ Refused(copy_filename)
    <2>1. PICK below, text : below = [buffers EXCEPT ![Len(buffers)] = r] /\ text = disk.content[c]
      OBVIOUS
    <2>2. Len(file_stack) < MAX_INCLUDE_DEPTH
      BY <1>2, <1>6 DEF Room, Rule
    <2>3. /\ include_stack' = Append(include_stack, [filename |-> current_filename, line |-> current_line])
          /\ file_stack' = Append(file_stack, yyin)
          /\ buffers' = Append(below, text)
          /\ current_filename' = c
      <3>1. ~ (Len(file_stack) >= MAX_INCLUDE_DEPTH)
        <4>1. Len(file_stack) \in Nat
          BY <1>2, LengthsNat DEF Mapped
        <4> QED
          BY <2>2, <4>1, PreprocAssumption
      <3> QED
        BY <1>1, <1>6, <2>1, <3>1 DEF CopySemicolon, lexer_push_buffer
    <2>4. /\ n \in Nat /\ Left \in Nat /\ Len(buffers) \in Nat /\ Len(buffers) = Left + n + 1
          /\ Frames = [i \in 1 .. n + 1 |-> FrameAt(i)] /\ Promise!Depth = n + 1
      BY <1>1, <1>2, FrameFacts
    <2>5. PICK g, z :
             /\ g = [file |-> current_filename, rest |-> r, line |-> current_line, expects |-> "INITIAL",
                     name |-> NULL]
             /\ z = [file |-> c, rest |-> text, line |-> current_line, expects |-> "INITIAL", name |-> NULL]
      OBVIOUS
    <2>6. below \in Seq(Seq(STRING)) /\ Len(below) = Left + n + 1 /\ r \in Seq(STRING)
      <3>1. StackTypes
        BY Parts DEF Mapped
      <3>2. below \in Seq(Seq(STRING)) /\ Len(below) = Len(buffers)
        BY <1>1, <1>2, <2>1, <3>1, WordTaken
      <3>3. buffers # << >> /\ Top \in Seq(STRING)
        BY <3>1 DEF StackTypes, Top
      <3>4. Tail(Top) \in Seq(STRING)
        <4>1. \A s \in Seq(STRING) : s # << >> => Tail(s) \in Seq(STRING)
          OBVIOUS
        <4>2. Top # << >>
          BY <1>2
        <4> QED
          BY <3>3, <4>1, <4>2
      <3> QED
        BY <1>1, <2>4, <3>2, <3>4
    <2>7. text \in Seq(STRING)
      BY <1>1, <1>6, <2>1, PreprocAssumption DEF Refused, Mapped, IInv
    <2>8. /\ buffers'[Left + (n + 2)] = text
          /\ \A i \in 1 .. n + 1 : buffers'[Left + i] = below[Left + i]
      <3>1. /\ Append(below, text)[Len(below) + 1] = text
            /\ \A i \in 1 .. Len(below) : Append(below, text)[i] = below[i]
        BY <2>6, <2>7, AppendProperties
      <3>2. Left + (n + 2) = Len(below) + 1 /\ \A i \in 1 .. n + 1 : Left + i \in 1 .. Len(below)
        BY <2>4, <2>6
      <3> QED
        BY <2>3, <3>1, <3>2
    <2>9. /\ below[Left + (n + 1)] = r
          /\ \A i \in 1 .. n : below[Left + i] = buffers[Left + i]
      <3>1. Left + (n + 1) = Len(buffers) /\ Len(buffers) \in 1 .. Len(buffers)
        BY <2>4
      <3>2. \A i \in 1 .. n : Left + i # Len(buffers) /\ Left + i \in 1 .. Len(buffers)
        BY <2>4
      <3>3. buffers \in Seq(Seq(STRING))
        BY DEF Mapped, IInv, TypeOK
      <3> QED
        BY <2>1, <3>1, <3>2, <3>3
    <2>10. /\ Len(include_stack') = n + 1
           /\ include_stack'[n + 1].filename = current_filename /\ include_stack'[n + 1].line = current_line
           /\ \A i \in 1 .. n : include_stack'[i] = include_stack[i]
      <3>1. include_stack \in Seq([filename : Filenames, line : Nat \ {0}])
        BY DEF Mapped, IInv, TypeOK
      <3>2. [filename |-> current_filename, line |-> current_line] \in [filename : Filenames, line : Nat \ {0}]
        BY DEF Mapped, IInv, TypeOK
      <3> QED
        BY <1>1, <2>3, <3>1, <3>2, AppendProperties
    <2>11. Left' = Left
      <3>1. Len(file_stack') = Len(file_stack) + 1
        BY <2>3 DEF Mapped, IInv, TypeOK
      <3>2. Len(file_stack) \in Nat
        BY <1>2, LengthsNat DEF Mapped
      <3> QED
        BY <1>1, <2>4, <2>10, <3>1, <3>2 DEF Left
    <2>12. Frames' = [i \in 1 .. (n + 1) + 1 |-> FrameAt(i)']
      BY <1>2, <2>10 DEF Frames
    <2>13. ASSUME NEW i \in 1 .. n PROVE FrameAt(i)' = FrameAt(i)
      <3>1. i <= n /\ i <= n + 1 /\ ~ (i > n) /\ ~ (i > n + 1) /\ i \in 1 .. n + 1
        BY <2>4
      <3>2. buffers'[Left + i] = buffers[Left + i]
        BY <2>8, <2>9, <3>1
      <3> QED
        BY <1>1, <2>10, <2>11, <3>1, <3>2 DEF FrameAt
    <2>14. FrameAt(n + 1)' = g
      <3>1. n + 1 <= n + 1 /\ ~ (n + 1 > n + 1) /\ n + 1 \in 1 .. n + 1
        BY <2>4
      <3>2. buffers'[Left + (n + 1)] = r
        BY <2>8, <2>9, <3>1
      <3> QED
        BY <2>5, <2>10, <2>11, <3>1, <3>2 DEF FrameAt
    <2>15. FrameAt(n + 2)' = z
      <3>1. ~ (n + 2 <= n + 1) /\ n + 2 > n + 1
        BY <2>4
      <3> QED
        BY <1>2, <2>3, <2>5, <2>8, <2>10, <2>11, <3>1 DEF FrameAt
    <2>16. PICK back : back = [Frames EXCEPT ![n + 1] = g]
      OBVIOUS
    <2>17. /\ back = [i \in 1 .. n + 1 |-> back[i]]
           /\ \A i \in 1 .. n + 1 : Frames'[i] = back[i]
           /\ Frames'[(n + 1) + 1] = z
      <3>1. \A i \in 1 .. n + 1 : i \in 1 .. n \/ i = n + 1
        BY <2>4
      <3>2. back = [i \in 1 .. n + 1 |-> IF i = n + 1 THEN g ELSE FrameAt(i)]
        BY <2>4, <2>16
      <3>3. (n + 1) + 1 = n + 2 /\ \A i \in 1 .. n + 1 : i \in 1 .. (n + 1) + 1
        BY <2>4
      <3>4. (n + 1) + 1 \in 1 .. (n + 1) + 1
        BY <2>4
      <3> QED
        BY <2>12, <2>13, <2>14, <2>15, <3>1, <3>2, <3>3, <3>4
    <2>18. Frames' = Append(back, z)
      <3>1. n + 1 \in Nat /\ Frames' = [i \in 1 .. (n + 1) + 1 |-> Frames'[i]]
        BY <2>4, <2>12
      <3> QED
        BY <2>17, <3>1, AppendedTo
    <2>19. back = Promise!Read(Promise!Here.line, "INITIAL", NULL)
      BY <1>2, <1>3, <2>4, <2>5, <2>16, HereIs DEF Promise!Read, Promise!Turn
    <2>20. z = Promise!Frame(Promise!Here.name, disk.content[Promise!Here.name], Promise!Here.line)
      BY <1>3, <2>1, <2>5 DEF Promise!Frame
    <2>21. Promise!Taken(Promise!Here.name)
      BY <1>1, <1>2, <1>3, <1>6, AroundIs
    <2> QED
      BY <1>4, <2>18, <2>19, <2>20, <2>21 DEF Promise!Enter
  <1> QED
    BY <1>5, <1>6
\* A sequence without its last element.
LEMMA CutTo ==
    ASSUME NEW n \in Nat, NEW b, b = [i \in 1 .. n + 1 |-> b[i]], NEW t, t = [i \in 1 .. n |-> t[i]],
           \A i \in 1 .. n : t[i] = b[i]
    PROVE  t = SubSeq(b, 1, n)
  <1> DEFINE S == {b[i] : i \in 1 .. n + 1}
  <1>1. \A i \in 1 .. n + 1 : b[i] \in S
    OBVIOUS
  <1> HIDE DEF S
  <1>2. b \in Seq(S) /\ Len(b) = n + 1 /\ b # << >>
    <2>1. n + 1 \in Nat /\ n + 1 # 0
      OBVIOUS
    <2>2. [i \in 1 .. n + 1 |-> b[i]] \in Seq(S) /\ Len([i \in 1 .. n + 1 |-> b[i]]) = n + 1
      BY <1>1, <2>1
    <2>3. b \in Seq(S) /\ Len(b) = n + 1
      BY <2>2
    <2> QED
      BY <2>1, <2>3
  <1>3. PICK c : c = Front(b)
    OBVIOUS
  <1>4. c \in Seq(S) /\ Len(c) = n /\ \A i \in 1 .. n : c[i] = b[i]
    BY <1>2, <1>3, Popped, SMTT(30)
  <1>5. c = [i \in 1 .. n |-> c[i]]
    BY <1>4
  <1>6. c = SubSeq(b, 1, n)
    <2>1. Len(b) - 1 = n
      BY <1>2
    <2> QED
      BY <1>3, <2>1 DEF Front
  <1> QED
    BY <1>4, <1>5, <1>6

LEMMA PopFileRefined ==
    ASSUME Mapped, EndsClean, PopFile
    PROVE  Promise!Leave
  <1>1. PICK n : n = Len(include_stack)
    OBVIOUS
  <1>2. /\ parsing /\ parsing' /\ Top = << >> /\ include_stack # << >> /\ cond = "INITIAL"
        /\ include_stack' = Front(include_stack)
        /\ current_filename' = Last(include_stack).filename /\ current_line' = Last(include_stack).line
        /\ UNCHANGED << cond, tokens >>
    BY DEF PopFile, EndsClean
  <1>3. /\ n \in Nat /\ Left \in Nat /\ Len(buffers) \in Nat /\ Len(buffers) = Left + n + 1
        /\ Frames = [i \in 1 .. n + 1 |-> FrameAt(i)] /\ Promise!Depth = n + 1
    BY <1>1, <1>2, FrameFacts
  <1>4. /\ include_stack \in Seq([filename : Filenames, line : Nat \ {0}]) /\ file_stack \in Seq(Nat)
        /\ buffers \in Seq(Seq(STRING)) /\ Len(buffers) = Len(file_stack) + 1
    BY DEF Mapped, IInv, TypeOK
  <1>5. n - 1 \in Nat /\ n # 0 /\ Last(include_stack) = include_stack[n]
    BY <1>1, <1>2, <1>4 DEF Last
  <1>6. file_stack # << >> /\ buffers # << >> /\ Len(file_stack) = Left + n
    <2>1. Len(file_stack) \in Nat
      BY <1>4
    <2>2. Len(file_stack) = Left + n /\ Len(file_stack) # 0 /\ Len(buffers) # 0
      BY <1>3, <1>4, <1>5, <2>1
    <2> QED
      BY <2>2
  <1>7. buffers' = Front(buffers) /\ file_stack' = Front(file_stack)
    BY <1>6 DEF PopFile, lexer_pop_buffer
  <1>8. /\ Len(include_stack') = n - 1 /\ \A i \in 1 .. n - 1 : include_stack'[i] = include_stack[i]
        /\ Len(file_stack') = Len(file_stack) - 1
        /\ \A i \in 1 .. Len(buffers) - 1 : buffers'[i] = buffers[i]
    <2>1. Len(include_stack') = n - 1 /\ \A i \in 1 .. n - 1 : include_stack'[i] = include_stack[i]
      BY <1>1, <1>2, <1>4, Popped
    <2>2. Len(file_stack') = Len(file_stack) - 1
      BY <1>4, <1>6, <1>7, Popped
    <2>3. \A i \in 1 .. Len(buffers) - 1 : buffers'[i] = buffers[i]
      BY <1>4, <1>6, <1>7, Popped
    <2> QED
      BY <2>1, <2>2, <2>3
  <1>9. Left' = Left /\ (n - 1) + 1 = n
    BY <1>3, <1>6, <1>8 DEF Left
  <1>10. Frames' = [i \in 1 .. n |-> FrameAt(i)']
    BY <1>2, <1>8, <1>9 DEF Frames
  <1>11. ASSUME NEW i \in 1 .. n PROVE FrameAt(i)' = FrameAt(i)
    <2>1. buffers'[Left + i] = buffers[Left + i]
      <3>1. Left + i \in 1 .. Len(buffers) - 1
        BY <1>3
      <3> QED
        BY <1>8, <3>1
    <2>2. i <= n /\ ~ (i > n)
      BY <1>3
    <2>3. CASE i = n
      <3>1. ~ (i <= n - 1) /\ i > n - 1
        BY <1>3, <2>3
      <3> QED
        BY <1>1, <1>2, <1>5, <1>8, <1>9, <2>1, <2>2, <2>3, <3>1 DEF FrameAt
    <2>4. CASE i # n
      <3>1. i <= n - 1 /\ ~ (i > n - 1) /\ i \in 1 .. n - 1
        BY <1>3, <2>4
      <3> QED
        BY <1>1, <1>8, <1>9, <2>1, <2>2, <3>1 DEF FrameAt
    <2> QED
      BY <2>3, <2>4
  <1>12. Frames' = SubSeq(Frames, 1, n)
    <2>1. /\ Frames = [i \in 1 .. n + 1 |-> Frames[i]] /\ Frames' = [i \in 1 .. n |-> Frames'[i]]
          /\ \A i \in 1 .. n : Frames'[i] = Frames[i]
      <3>1. \A i \in 1 .. n : i \in 1 .. n + 1
        BY <1>3
      <3> QED
        BY <1>3, <1>10, <1>11, <3>1
    <2>2. n \in Nat
      BY <1>3
    <2> QED
      BY <2>1, <2>2, CutTo
  <1>13. Promise!Depth - 1 = n
    BY <1>3
  <1>14. Frames # << >> /\ Promise!Here.rest = << >>
    BY <1>2, HereIs
  <1> QED
    BY <1>2, <1>12, <1>13, <1>14 DEF Promise!Leave

LEMMA EndOfInputRefined ==
    ASSUME Mapped, EndOfInput
    PROVE  Promise!Leave
  <1>1. parsing /\ ~ parsing' /\ Top = << >> /\ include_stack = << >> /\ UNCHANGED tokens
    BY DEF EndOfInput, EndParse
  <1>2. Len(include_stack) = 0
    BY <1>1
  <1>3. Promise!Depth = 0 + 1 /\ Frames = [i \in 1 .. 0 + 1 |-> FrameAt(i)]
    <2>1. PICK n : n = Len(include_stack)
      OBVIOUS
    <2>2. Promise!Depth = n + 1 /\ Frames = [i \in 1 .. n + 1 |-> FrameAt(i)]
      BY <1>1, <2>1, FrameFacts
    <2> QED
      BY <1>2, <2>1, <2>2
  <1>4. Frames' = << >>
    BY <1>1 DEF Frames
  <1>5. Frames' = SubSeq(Frames, 1, 0)
    <2>1. /\ 0 \in Nat /\ Frames = [i \in 1 .. 0 + 1 |-> Frames[i]] /\ Frames' = [i \in 1 .. 0 |-> Frames'[i]]
          /\ \A i \in 1 .. 0 : Frames'[i] = Frames[i]
      BY <1>3, <1>4
    <2> QED
      BY <2>1, CutTo
  <1>6. Promise!Depth - 1 = 0
    BY <1>3
  <1> QED
    BY <1>1, <1>5, <1>6, HereIs DEF Promise!Leave

LEMMA StartParseRefined ==
    ASSUME Mapped, EndsClean, NEW d, StartParse(d)
    PROVE  Promise!Begin(d)
  <1>1. /\ ~ parsing /\ parsing' /\ tokens' = << >> /\ include_stack' = << >> /\ cond' = "INITIAL"
        /\ buffers' = [buffers EXCEPT ![Len(buffers)] = d.text] /\ UNCHANGED file_stack
        /\ current_filename' = d.file /\ current_line' = 1
    BY DEF StartParse, EndsClean
  <1>2. Frames = << >>
    BY <1>1 DEF Frames
  <1>3. Len(include_stack') = 0
    BY <1>1
  <1>4. buffers'[Left' + 1] = d.text
    <2>1. buffers \in Seq(Seq(STRING)) /\ Len(buffers) = Len(file_stack) + 1 /\ Len(file_stack) \in Nat
      BY DEF Mapped, IInv, TypeOK
    <2>2. Left' + 1 = Len(buffers) /\ Len(buffers) \in 1 .. Len(buffers)
      BY <1>1, <1>3, <2>1 DEF Left
    <2> QED
      BY <1>1, <2>1, <2>2
  <1>5. FrameAt(1)' = Promise!Frame(d.file, d.text, 1)
    <2>1. ~ (1 <= 0) /\ 1 > 0
      OBVIOUS
    <2> QED
      BY <1>1, <1>3, <1>4, <2>1 DEF FrameAt, Promise!Frame
  <1>6. Frames' = [i \in 1 .. 1 |-> FrameAt(i)']
    BY <1>1, <1>3 DEF Frames
  <1>7. Frames' = << Promise!Frame(d.file, d.text, 1) >>
    <2>1. PICK z : z = Promise!Frame(d.file, d.text, 1)
      OBVIOUS
    <2>2. Frames' = [i \in 1 .. 1 |-> z]
      BY <1>5, <1>6, <2>1
    <2>3. [i \in 1 .. 1 |-> z] = << z >>
      OBVIOUS
    <2> QED
      BY <2>1, <2>2, <2>3
  <1> QED
    BY <1>1, <1>2, <1>7 DEF Promise!Begin
\* Every step is one of CopyText's; what changes no variable changes no text.
LEMMA StepRefined ==
    Mapped /\ Room /\ EndsClean /\ [Next]_vars => [Promise!CNext]_<< disk, Frames, tokens >>
  <1> SUFFICES ASSUME Mapped, Room, EndsClean, [Next]_vars
               PROVE  [Promise!CNext]_<< disk, Frames, tokens >>
    OBVIOUS
  <1>1. CASE UNCHANGED vars
    <2>1. UNCHANGED << disk, tokens, parsing, include_stack, file_stack, buffers, current_filename,
                       current_line, cond, copy_filename >>
      BY <1>1 DEF vars, stacks, files, parse
    <2>2. Frames' = Frames
      BY <2>1 DEF Frames, FrameAt, Left
    <2> QED
      BY <2>1, <2>2
  <1>2. CASE Next
    <2>1. UNCHANGED disk
      BY <1>2 DEF Next, Lex, StartParse, NewLine, Token, DefineName, CopyKeyword, CopyName, Unexpected,
                  CopySemicolon, PopFile, EndOfInput, parse
    <2>2. ASSUME NEW d \in disk.documents, StartParse(d) PROVE Promise!CNext
      BY <2>1, <2>2, StartParseRefined DEF Promise!CNext
    <2>3. CASE NewLine
      BY <2>1, <2>3, NextLineRefined DEF Promise!CNext
    <2>4. CASE Token
      BY <2>1, <2>4, TokenRefined DEF Promise!CNext
    <2>5. CASE DefineName
      BY <2>1, <2>5, DefineNameRefined DEF Promise!CNext
    <2>6. CASE CopyKeyword
      BY <2>1, <2>6, CopyKeywordRefined DEF Promise!CNext
    <2>7. CASE CopyName
      BY <2>1, <2>7, CopyNameRefined DEF Promise!CNext
    <2>8. CASE Unexpected
      BY <2>1, <2>8, UnexpectedRefined DEF Promise!CNext
    <2>9. CASE CopySemicolon
      BY <2>1, <2>9, CopySemicolonRefined DEF Promise!CNext
    <2>10. CASE PopFile
      BY <2>1, <2>10, PopFileRefined DEF Promise!CNext
    <2>11. CASE EndOfInput
      BY <2>1, <2>11, EndOfInputRefined DEF Promise!CNext
    <2> QED
      BY <1>2, <2>2, <2>3, <2>4, <2>5, <2>6, <2>7, <2>8, <2>9, <2>10, <2>11 DEF Next, Lex
  <1> QED
    BY <1>1, <1>2

\* The parser is given what CopyText promises, as long as every COPY that is
\* carried out finds room in file_stack and no text and no parse ends within
\* a COPY or DEFINE.
\* (lexer_push_buffer, lexer_pop_buffer, preproc_push_file, preproc_pop_file)
THEOREM ReadsItsText == Spec /\ []Room /\ []EndsClean => ReadsAsPromised
  <1>1. Init => Mapped
    BY IInvInit DEF Init, FilesOK, ClosedOnce, Mapped
  <1>2. Mapped /\ Room /\ [Next]_vars => Mapped'
    BY IInvStep, FilesStep DEF Mapped
  <1>3. Init => Promise!CInit
    BY DEF Init, Promise!CInit, Frames
  <1> QED
    BY <1>1, <1>2, <1>3, StepRefined, PTL DEF Spec, ReadsAsPromised, Promise!CSpec
=============================================================================
