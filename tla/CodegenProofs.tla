--------------------------- MODULE CodegenProofs ---------------------------
(***************************************************************************)
(* Every jump of the emitted code reaches what it was written for, as the  *)
(* abstract linker has it, and stays in its procedure: proofs about        *)
(* Codegen, for any program, any size of the tables and of the code.       *)
(***************************************************************************)
EXTENDS Codegen, TLAPS

\* A word written for a place ahead, counted from the end of the word, or for
\* one behind, counted from base, is decoded to that place.
LEMMA ForwardWord ==
    ASSUME NEW t \in Nat, NEW p \in Nat, p + 2 <= t, t - (p + 2) <= 32767
    PROVE  Signed(Rel(t, p + 2)) = t - (p + 2) /\ Signed(Rel(t, p + 2)) >= 0
  BY DEF Signed, Rel

LEMMA BackwardWord ==
    ASSUME NEW t \in Nat, NEW base \in Nat, t < base, t - base >= -32768
    PROVE  Signed(Rel(t, base)) = t - base /\ Signed(Rel(t, base)) < 0
<1>1. (t - base) % 65536 = t - base + 65536
  OBVIOUS
<1> QED
  BY <1>1 DEF Signed, Rel

-----------------------------------------------------------------------------
\* What each jump site records; the word of a site lies in the code.
SitesOK ==
    \A p \in DOMAIN site :
        /\ p \in Nat
        /\ site[p].base \in Nat
        /\ p + 2 <= site[p].base
        /\ site[p].base <= size
        /\ site[p].proc = None => site[p].to \in ProcName
        /\ site[p].proc # None => site[p].proc \in ProcName /\ site[p].to \in LabelName

\* A forward reference is for the name its jump was written for.
RefsOK ==
    \A r \in refs :
        /\ r.at \in DOMAIN site
        /\ r.label = site[r.at].to
        /\ r.proc = site[r.at].proc

\* Labels and procedures that are known lie in the code emitted so far.
PlacesOK ==
    /\ \A x \in DOMAIN where : where[x] \in Nat /\ where[x] <= size
    /\ \A q \in DOMAIN proc_defs : proc_defs[q] \in Nat /\ proc_defs[q] <= size

\* No procedure and no label of the current procedure is defined twice.
NamesOK ==
    /\ DOMAIN proc_defs \subseteq begun
    /\ \A q \in ProcName, l \in LabelName :
          << q, l >> \in DOMAIN where => q \in begun
    /\ current_proc_name # None =>
          /\ current_proc_name \in begun
          /\ \A l \in LabelName :
                << current_proc_name, l >> \in DOMAIN where => l \in named

\* The label table holds places of the current procedure.
LabelsOK ==
    current_proc_name # None =>
        \A l \in DOMAIN labels :
            /\ << current_proc_name, l >> \in DOMAIN where
            /\ where[<< current_proc_name, l >>] = labels[l]

\* What still waits: in the current procedure only for labels it has not
\* met, so that the second pass of gen_proc finds nothing to do; a call
\* only for a procedure that comes after it.
PendingOK ==
    \A r \in refs :
        /\ r.proc # None /\ r.proc = current_proc_name => r.label \notin DOMAIN labels
        /\ r.proc = None /\ r.label \in DOMAIN proc_defs => r.at + 2 <= proc_defs[r.label]

IInv == CountersType /\ WordsType /\ TablesType /\ NamesType /\ SitesOK /\ RefsOK /\ PlacesOK /\ NamesOK /\ LabelsOK /\ PendingOK
          /\ NoJumpAstray

-----------------------------------------------------------------------------
\* Places once known do not move.
PlacesKept ==
    /\ \A x \in DOMAIN where : x \in DOMAIN where' /\ where'[x] = where[x]
    /\ \A q \in DOMAIN proc_defs : q \in DOMAIN proc_defs' /\ proc_defs'[q] = proc_defs[q]

LEMMA LandsKept ==
    ASSUME NEW p, PlacesKept, site'[p] = site[p], word'[p] = word[p], Lands(p)
    PROVE  Lands(p)'
<1>1. IsKnown(site[p])' /\ Intended(site[p])' = Intended(site[p])
  BY DEF IsKnown, Intended, PlacesKept, Lands
<1>2. Landing(p)' = Landing(p)
  BY DEF Landing
<1>3. Fits(p)' <=> Fits(p)
  BY <1>1 DEF Fits
<1> QED
  BY <1>1, <1>2, <1>3 DEF Lands

\* A jump bound forward, or backward, by a step lands after it.
LEMMA BoundForward ==
    ASSUME NEW p \in Nat, NEW t \in Nat,
           IsKnown(site[p])', Intended(site[p])' = t,
           p + 2 <= t,
           word'[p] = Rel(t, p + 2)
    PROVE  Lands(p)'
<1> SUFFICES ASSUME Fits(p)'
             PROVE  Landing(p)' = t
  BY DEF Lands
<1>1. t - (p + 2) <= 32767
  BY DEF Fits
<1>2. Signed(word'[p]) = t - (p + 2) /\ Signed(word'[p]) >= 0
  BY <1>1, ForwardWord
<1> QED
  BY <1>2 DEF Landing

LEMMA BoundBackward ==
    ASSUME NEW p \in Nat, NEW t \in Nat, NEW base \in Nat,
           IsKnown(site[p])', Intended(site[p])' = t,
           site'[p].base = base,
           t < base,
           word'[p] = Rel(t, base)
    PROVE  Lands(p)'
<1> SUFFICES ASSUME Fits(p)'
             PROVE  Landing(p)' = t
  BY DEF Lands
<1>1. t - base >= -32768
  BY DEF Fits
<1>2. Signed(word'[p]) = t - base /\ Signed(word'[p]) < 0
  BY <1>1, BackwardWord
<1> QED
  BY <1>2 DEF Landing

-----------------------------------------------------------------------------
LEMMA InitInv == Init => IInv
<1> SUFFICES ASSUME Init PROVE IInv
  OBVIOUS
<1>1. CountersType /\ WordsType
  BY CodegenAssumption DEF Init, Empty, CountersType, WordsType
<1>2. TablesType /\ NamesType
  BY DEF Init, Empty, TablesType, NamesType
<1>3. SitesOK /\ RefsOK /\ PlacesOK /\ NoJumpAstray
  BY DEF Init, Empty, SitesOK, RefsOK, PlacesOK, NoJumpAstray
<1>4. NamesOK /\ LabelsOK /\ PendingOK
  BY DEF Init, Empty, NamesOK, LabelsOK, PendingOK
<1> QED
  BY <1>1, <1>2, <1>3, <1>4 DEF IInv

LEMMA BeginProcInv == ASSUME IInv, NEW q \in ProcName, BeginProc(q) PROVE IInv'
<1>1. /\ UNCHANGED << size, word, refs, result, site, where >>
      /\ current_proc_name = None /\ current_proc_name' = q
      /\ q \notin begun /\ begun' = begun \cup {q}
      /\ labels' = Empty /\ named' = {}
      /\ q \notin DOMAIN proc_defs
  BY DEF BeginProc, NamesOK, IInv
<1>2. \/ proc_defs' = proc_defs /\ error_count' = error_count + 1
      \/ proc_defs' = Put(proc_defs, q, size) /\ error_count' = error_count
  BY DEF BeginProc
<1>3. PlacesKept
  BY <1>1, <1>2 DEF PlacesKept, Put
<1>4. \A o \in DOMAIN proc_defs' : \/ o \in DOMAIN proc_defs /\ proc_defs'[o] = proc_defs[o]
                                   \/ o = q /\ proc_defs'[o] = size
  BY <1>2 DEF Put
<1>5. DOMAIN labels' = {}
  BY <1>1 DEF Empty
<1>11. CountersType'
  BY <1>1, <1>2 DEF IInv, CountersType
<1>12. WordsType'
  BY <1>1 DEF IInv, WordsType
<1>13. TablesType'
  BY <1>1, <1>4, <1>5 DEF IInv, TablesType, CountersType
<1>14. NamesType'
  BY <1>1, ZenonT(20) DEF IInv, NamesType
<1>15. SitesOK' /\ RefsOK'
  BY <1>1 DEF IInv, SitesOK, RefsOK
<1>16. PlacesOK'
  BY <1>1, <1>4 DEF IInv, PlacesOK, CountersType
<1>17. NamesOK'
  BY <1>1, <1>4 DEF IInv, NamesOK
<1>18. LabelsOK'
  BY <1>5 DEF LabelsOK
<1>19. NoJumpAstray'
  <2> SUFFICES ASSUME NEW p \in DOMAIN site PROVE Waits(p)' \/ Lands(p)'
    BY <1>1 DEF NoJumpAstray
  <2>1. CASE Waits(p)
    BY <1>1, <2>1 DEF Waits
  <2>2. CASE Lands(p)
    BY <1>1, <1>3, <2>2, LandsKept
  <2> QED
    BY <2>1, <2>2 DEF IInv, NoJumpAstray
<1>20. PendingOK'
  BY <1>1, <1>4, <1>5 DEF IInv, PendingOK, RefsOK, SitesOK, CountersType
<1> QED
  BY <1>11, <1>12, <1>13, <1>14, <1>15, <1>16, <1>17, <1>18, <1>19, <1>20 DEF IInv

LEMMA EmitCodeInv == ASSUME IInv, NEW n \in Lengths, EmitCode(n) PROVE IInv'
<1>1. /\ UNCHANGED << word, labels, proc_defs, refs, current_proc_name, error_count,
                      result, begun, named, site, where >>
      /\ size' = size + n
  BY DEF EmitCode
<1>2. size \in Nat /\ size' \in Nat /\ size <= size'
  BY <1>1, CodegenAssumption DEF IInv, CountersType
<1>3. PlacesKept
  BY <1>1 DEF PlacesKept
<1>10. CountersType' /\ WordsType'
  BY <1>1, <1>2 DEF IInv, CountersType, WordsType
<1>11. TablesType' /\ NamesType'
  BY <1>1 DEF IInv, TablesType, NamesType
<1>12. SitesOK'
  BY <1>1, <1>2 DEF IInv, SitesOK
<1>13. RefsOK'
  BY <1>1 DEF IInv, RefsOK
<1>14. PlacesOK'
  BY <1>1, <1>2 DEF IInv, PlacesOK
<1>15. NamesOK' /\ LabelsOK'
  BY <1>1 DEF IInv, NamesOK, LabelsOK
<1>17. NoJumpAstray'
  <2> SUFFICES ASSUME NEW p \in DOMAIN site PROVE Waits(p)' \/ Lands(p)'
    BY <1>1 DEF NoJumpAstray
  <2>1. CASE Waits(p)
    BY <1>1, <2>1 DEF Waits
  <2>2. CASE Lands(p)
    BY <1>1, <1>3, <2>2, LandsKept
  <2> QED
    BY <2>1, <2>2 DEF IInv, NoJumpAstray
<1>18. PendingOK'
  BY <1>1 DEF IInv, PendingOK
<1> QED
  BY <1>10, <1>11, <1>12, <1>13, <1>14, <1>15, <1>17, <1>18 DEF IInv

\* A step that writes the jumps at the positions E, all of them at the end of
\* the code, each either bound or left to a new forward reference.
Writes(E) ==
    /\ UNCHANGED << labels, proc_defs, current_proc_name, error_count, begun, named, where >>
    /\ size' \in Nat /\ size <= size'
    /\ DOMAIN site' = DOMAIN site \cup E
    /\ DOMAIN word' = DOMAIN word \cup E
    /\ \A p \in DOMAIN site : site'[p] = site[p] /\ word'[p] = word[p]
    /\ \A p \in E : word'[p] \in Nat /\ word'[p] <= 65535
    /\ \A p \in E :
          /\ p \in Nat
          /\ site'[p].base \in Nat
          /\ p + 2 <= site'[p].base
          /\ site'[p].base <= size'
          /\ site'[p].proc = None => site'[p].to \in ProcName
          /\ site'[p].proc # None => site'[p].proc \in ProcName /\ site'[p].to \in LabelName
    /\ refs \subseteq refs'
    /\ \A r \in refs' : \/ r \in refs
                        \/ /\ r.at \in E
                           /\ r.label = site'[r.at].to
                           /\ r.proc = site'[r.at].proc
    /\ \A r \in refs' : \/ r \in refs
                        \/ r.proc # None /\ r.label \notin DOMAIN labels
                        \/ r.proc = None /\ r.label \notin DOMAIN proc_defs
    /\ \A p \in E : Waits(p)' \/ Lands(p)'

LEMMA JumpsWritten ==
    ASSUME IInv, NEW E, Writes(E)
    PROVE  IInv'
<1>1. CountersType'
  BY DEF Writes, IInv, CountersType
<1>2. WordsType'
  BY DEF Writes, IInv, WordsType
<1>3. TablesType' /\ NamesType'
  BY DEF Writes, IInv, TablesType, NamesType
<1>4. SitesOK'
  BY DEF Writes, IInv, SitesOK, CountersType
<1>5. RefsOK'
  BY DEF Writes, IInv, RefsOK
<1>6. PlacesOK'
  BY DEF Writes, IInv, PlacesOK, CountersType
<1>7. NamesOK' /\ LabelsOK'
  BY DEF Writes, IInv, NamesOK, LabelsOK
<1>10. PendingOK'
  BY DEF Writes, IInv, PendingOK
<1>8. ASSUME NEW p \in DOMAIN site
      PROVE  Waits(p)' \/ Lands(p)'
  <2>1. PlacesKept
    BY DEF Writes, PlacesKept
  <2>2. CASE Waits(p)
    BY <2>2 DEF Writes, Waits
  <2>3. CASE Lands(p)
    BY <2>1, <2>3, LandsKept DEF Writes
  <2> QED
    BY <2>2, <2>3 DEF IInv, NoJumpAstray
<1>9. NoJumpAstray'
  BY <1>8 DEF Writes, NoJumpAstray
<1> QED
  BY <1>1, <1>2, <1>3, <1>4, <1>5, <1>6, <1>7, <1>9, <1>10 DEF IInv

\* The case of one jump at position at, after n bytes.
WritesOne(n, at, new, w) ==
    /\ UNCHANGED << labels, proc_defs, current_proc_name, error_count, begun, named, where >>
    /\ at = size + n /\ size' = at + 2
    /\ w \in Nat /\ w <= 65535
    /\ site' = Put(site, at, new) /\ word' = Put(word, at, w)
    /\ new.base = at + 2
    /\ new.proc = None => new.to \in ProcName
    /\ new.proc # None => new.proc \in ProcName /\ new.to \in LabelName
    /\ \/ refs' = refs
       \/ /\ refs' = refs \cup {[at |-> at, label |-> new.to, proc |-> new.proc]}
          /\ new.proc # None => new.to \notin DOMAIN labels
          /\ new.proc = None => new.to \notin DOMAIN proc_defs
    /\ Waits(at)' \/ Lands(at)'

LEMMA OneJumpWritten ==
    ASSUME IInv, NEW n \in Lengths, NEW at, NEW new, NEW w, WritesOne(n, at, new, w)
    PROVE  IInv'
<1>0. /\ UNCHANGED << labels, proc_defs, current_proc_name, error_count, begun, named, where >>
      /\ at = size + n /\ size' = at + 2
      /\ w \in Nat /\ w <= 65535
      /\ site' = Put(site, at, new) /\ word' = Put(word, at, w)
      /\ new.base = at + 2
      /\ new.proc = None => new.to \in ProcName
      /\ new.proc # None => new.proc \in ProcName /\ new.to \in LabelName
      /\ \/ refs' = refs
         \/ /\ refs' = refs \cup {[at |-> at, label |-> new.to, proc |-> new.proc]}
            /\ new.proc # None => new.to \notin DOMAIN labels
            /\ new.proc = None => new.to \notin DOMAIN proc_defs
      /\ Waits(at)' \/ Lands(at)'
  BY DEF WritesOne
<1>1. size \in Nat /\ at \in Nat /\ size <= at /\ at \notin DOMAIN site /\ DOMAIN word = DOMAIN site
  BY <1>0, CodegenAssumption DEF IInv, CountersType, WordsType, SitesOK
<1>2. size' \in Nat /\ size <= size'
  BY <1>0, <1>1
<1>3. DOMAIN site' = DOMAIN site \cup {at} /\ DOMAIN word' = DOMAIN word \cup {at}
  BY <1>0 DEF Put
<1>4. \A p \in DOMAIN site : site'[p] = site[p] /\ word'[p] = word[p]
  BY <1>0, <1>1 DEF Put
<1>5. site'[at] = new /\ word'[at] = w
  BY <1>0, <1>1 DEF Put
<1>6. \A p \in {at} : /\ p \in Nat
                      /\ site'[p].base \in Nat
                      /\ p + 2 <= site'[p].base
                      /\ site'[p].base <= size'
                      /\ site'[p].proc = None => site'[p].to \in ProcName
                      /\ site'[p].proc # None
                           => site'[p].proc \in ProcName /\ site'[p].to \in LabelName
  BY <1>0, <1>1, <1>5
<1>7. refs \subseteq refs'
  BY <1>0
<1>8. \A r \in refs' : \/ r \in refs
                       \/ /\ r.at \in {at}
                          /\ r.label = site'[r.at].to
                          /\ r.proc = site'[r.at].proc
  BY <1>0, <1>5
<1>9. \A p \in {at} : word'[p] \in Nat /\ word'[p] <= 65535
  BY <1>0, <1>5
<1>10. \A r \in refs' : \/ r \in refs
                        \/ r.proc # None /\ r.label \notin DOMAIN labels
                        \/ r.proc = None /\ r.label \notin DOMAIN proc_defs
  BY <1>0
<1>11. Writes({at})
  BY <1>0, <1>2, <1>3, <1>4, <1>6, <1>7, <1>8, <1>9, <1>10 DEF Writes
<1> QED
  BY <1>11, JumpsWritten

LEMMA EmitJumpInv ==
    ASSUME IInv, NEW l \in LabelName, NEW n \in Lengths, EmitJump(l, n) PROVE IInv'
<1>1. PICK at, new, ref :
         /\ at = size + n
         /\ new = [to |-> l, proc |-> current_proc_name, base |-> at + 2]
         /\ ref = [at |-> at, label |-> l, proc |-> current_proc_name]
  OBVIOUS
<1>2. /\ UNCHANGED << labels, proc_defs, current_proc_name, error_count, begun, named, where >>
      /\ current_proc_name \in ProcName
      /\ current_proc_name # None
      /\ size' = at + 2
      /\ site' = Put(site, at, new)
  BY <1>1 DEF EmitJump, IInv, NamesType
<1>3. at \in Nat /\ site'[at] = new /\ at + 2 \in Nat
  BY <1>1, <1>2, CodegenAssumption DEF IInv, CountersType, Put
<1>4. CASE l \in DOMAIN labels
  <2>1. PICK t : t = labels[l]
    OBVIOUS
  <2>2. word' = Put(word, at, Rel(t, at + 2)) /\ refs' = refs
    BY <1>1, <1>4, <2>1 DEF EmitJump
  <2>3. t \in Nat /\ t <= size /\ where[<< current_proc_name, l >>] = t
    BY <1>2, <1>4, <2>1, CodegenAssumption DEF IInv, LabelsOK, PlacesOK
  <2>4. t < at + 2
    <3>1. size \in Nat /\ n \in Nat
      BY CodegenAssumption DEF IInv, CountersType
    <3> QED
      BY <1>1, <2>3, <3>1
  <2>5. Rel(t, at + 2) \in Nat /\ Rel(t, at + 2) <= 65535
    <3>1. t \in Nat /\ at + 2 \in Nat
      BY <1>3, <2>3
    <3> QED
      BY <3>1 DEF Rel
  <2>6. word'[at] = Rel(t, at + 2)
    BY <2>2 DEF Put
  <2>7. IsKnown(site[at])' /\ Intended(site[at])' = t
    BY <1>1, <1>2, <1>3, <1>4, <2>3, CodegenAssumption DEF IsKnown, Intended, IInv, LabelsOK
  <2>8. Lands(at)'
    <3>1. PICK base : base = at + 2
      OBVIOUS
    <3>2. base \in Nat /\ t < base /\ site'[at].base = base /\ word'[at] = Rel(t, base)
      BY <1>1, <1>3, <2>4, <2>6, <3>1
    <3> QED
      BY <1>3, <2>3, <2>7, <3>2, BoundBackward
  <2> QED
    <3>1. WritesOne(n, at, new, Rel(t, at + 2))
      BY <1>1, <1>2, <2>2, <2>5, <2>8 DEF WritesOne
    <3> QED
      BY <3>1, OneJumpWritten
<1>5. CASE l \notin DOMAIN labels
  <2>1. word' = Put(word, at, 0) /\ refs' = refs \cup {ref}
    BY <1>1, <1>5 DEF EmitJump
  <2>2. Waits(at)'
    BY <1>1, <1>3, <2>1 DEF Waits
  <2>3. refs' = refs \cup {[at |-> at, label |-> new.to, proc |-> new.proc]}
    BY <1>1, <2>1
  <2> QED
    <3>1. WritesOne(n, at, new, 0)
      BY <1>1, <1>2, <1>5, <2>1, <2>2, <2>3 DEF WritesOne
    <3> QED
      BY <3>1, OneJumpWritten
<1> QED
  BY <1>4, <1>5

LEMMA GenProcCallInv ==
    ASSUME IInv, NEW q \in ProcName, NEW n \in Lengths, GenProcCall(q, n) PROVE IInv'
<1>1. PICK at, new, ref :
         /\ at = size + n
         /\ new = [to |-> q, proc |-> None, base |-> at + 2]
         /\ ref = [at |-> at, label |-> q, proc |-> None]
  OBVIOUS
<1>2. q \notin DOMAIN proc_defs
  BY DEF GenProcCall, IInv, NamesOK
<1>3. /\ UNCHANGED << labels, proc_defs, current_proc_name, error_count, begun, named, where >>
      /\ size' = at + 2
      /\ site' = Put(site, at, new)
      /\ word' = Put(word, at, 0)
      /\ refs' = refs \cup {ref}
  BY <1>1, <1>2 DEF GenProcCall
<1>4. site'[at] = new
  BY <1>3 DEF Put
<1>5. Waits(at)'
  BY <1>1, <1>3, <1>4 DEF Waits
<1>6. WritesOne(n, at, new, 0)
  BY <1>1, <1>2, <1>3, <1>5 DEF WritesOne
<1> QED
  BY <1>6, OneJumpWritten

LEMMA GotoDependingOnInv ==
    ASSUME IInv, NEW k \in 1 .. MaxTargets, NEW ls \in [1 .. k -> LabelName],
           NEW n \in Lengths, GotoDependingOn(k, ls, n)
    PROVE  IInv'
<1>1. PICK end, E, label :
         /\ end = size + n + 2 * k
         /\ E = {size + n + 2 * (i - 1) : i \in 1 .. k}
         /\ label = [p \in E |-> ls[1 + (p - (size + n)) \div 2]]
  OBVIOUS
<1>2. /\ UNCHANGED << labels, proc_defs, current_proc_name, error_count, begun, named, where >>
      /\ current_proc_name # None
      /\ size' = end
  BY <1>1 DEF GotoDependingOn
<1>3. size \in Nat /\ n \in Nat /\ k \in Nat /\ 1 <= k /\ end \in Nat /\ size <= end
  BY <1>1, CodegenAssumption DEF IInv, CountersType
<1>4. ASSUME NEW p \in E
      PROVE  p \in Nat /\ size <= p /\ p + 2 <= end /\ label[p] \in LabelName
  <2>1. PICK i \in 1 .. k : p = size + n + 2 * (i - 1)
    BY <1>1
  <2>2. (p - (size + n)) \div 2 = i - 1
    BY <1>3, <2>1
  <2>3. label[p] = ls[i]
    BY <1>1, <2>2
  <2>4. i \in Nat /\ 1 <= i /\ i <= k
    BY <1>3
  <2>5. p \in Nat /\ size <= p /\ p + 2 <= end
    BY <1>1, <1>3, <2>1, <2>4
  <2> QED
    BY <2>3, <2>5
<1>5. DOMAIN site' = DOMAIN site \cup E /\ DOMAIN word' = DOMAIN word \cup E
  BY <1>1 DEF GotoDependingOn
<1>6. \A p \in E : p \notin DOMAIN site
  BY <1>3, <1>4 DEF IInv, SitesOK
<1>7. \A p \in DOMAIN site : site'[p] = site[p] /\ word'[p] = word[p]
  BY <1>1, <1>6 DEF GotoDependingOn, IInv, WordsType
<1>8. ASSUME NEW p \in E
      PROVE  /\ site'[p].to = label[p]
             /\ site'[p].proc = current_proc_name
             /\ site'[p].base = end
  BY <1>1 DEF GotoDependingOn
<1>9. ASSUME NEW p \in E, label[p] \in DOMAIN labels
      PROVE  /\ labels[label[p]] \in Nat
             /\ labels[label[p]] <= size
             /\ << current_proc_name, label[p] >> \in DOMAIN where
             /\ where[<< current_proc_name, label[p] >>] = labels[label[p]]
  BY <1>2, <1>9 DEF IInv, LabelsOK, PlacesOK
<1>10. ASSUME NEW p \in E, label[p] \in DOMAIN labels
       PROVE  word'[p] = Rel(labels[label[p]], end)
  <2>1. labels[label[p]] < p + 2
    <3>1. PICK t : t = labels[label[p]]
      OBVIOUS
    <3>2. t \in Nat /\ t <= size
      BY <1>9, <1>10, <3>1
    <3>3. p \in Nat /\ size <= p
      BY <1>4
    <3> QED
      BY <1>3, <3>1, <3>2, <3>3
  <2> QED
    BY <1>1, <1>10, <2>1 DEF GotoDependingOn
<1>11. ASSUME NEW p \in E, label[p] \notin DOMAIN labels
       PROVE  word'[p] = 0
  BY <1>1, <1>11 DEF GotoDependingOn
<1>12. refs' = refs \cup {[at |-> p, label |-> label[p], proc |-> current_proc_name] :
                            p \in {q \in E : label[q] \notin DOMAIN labels}}
  BY <1>1 DEF GotoDependingOn
<1>13. ASSUME NEW p \in E
       PROVE  Waits(p)' \/ Lands(p)'
  <2>1. CASE label[p] \in DOMAIN labels
    <3>1. PICK t : t = labels[label[p]]
      OBVIOUS
    <3>2. IsKnown(site[p])' /\ Intended(site[p])' = t
      BY <1>2, <1>8, <1>9, <2>1, <3>1 DEF IsKnown, Intended
    <3>3. t \in Nat /\ p \in Nat /\ t < end
      <4>1. t \in Nat /\ t <= size
        BY <1>9, <2>1, <3>1
      <4>2. p \in Nat /\ size <= p /\ p + 2 <= end
        BY <1>4
      <4> QED
        BY <1>3, <4>1, <4>2
    <3>4. word'[p] = Rel(t, end) /\ site'[p].base = end
      BY <1>8, <1>10, <2>1, <3>1
    <3> QED
      BY <1>3, <3>2, <3>3, <3>4, BoundBackward
  <2>2. CASE label[p] \notin DOMAIN labels
    <3>1. PICK r : r = [at |-> p, label |-> label[p], proc |-> current_proc_name]
      OBVIOUS
    <3>2. r \in refs'
      BY <1>12, <2>2, <3>1
    <3>3. r.at = p /\ r.label = site'[p].to /\ r.proc = site'[p].proc
      BY <1>8, <3>1
    <3> QED
      BY <3>2, <3>3 DEF Waits
  <2> QED
    BY <2>1, <2>2
<1>14. \A p \in E : word'[p] \in Nat /\ word'[p] <= 65535
  <2> SUFFICES ASSUME NEW p \in E
               PROVE  word'[p] \in Nat /\ word'[p] <= 65535
    OBVIOUS
  <2>1. CASE label[p] \in DOMAIN labels
    <3>1. PICK t : t = labels[label[p]]
      OBVIOUS
    <3>2. t \in Nat
      BY <1>9, <2>1, <3>1
    <3>3. Rel(t, end) \in Nat /\ Rel(t, end) <= 65535
      BY <1>3, <3>2 DEF Rel
    <3> QED
      BY <1>10, <2>1, <3>1, <3>3
  <2>2. CASE label[p] \notin DOMAIN labels
    BY <1>11, <2>2
  <2> QED
    BY <2>1, <2>2
<1>15. ASSUME NEW r \in refs', r \notin refs
       PROVE  /\ r.at \in E
              /\ r.label = site'[r.at].to
              /\ r.proc = site'[r.at].proc
              /\ r.proc # None
              /\ r.label \notin DOMAIN labels
  <2>1. PICK p \in E : /\ label[p] \notin DOMAIN labels
                       /\ r = [at |-> p, label |-> label[p], proc |-> current_proc_name]
    BY <1>12, <1>15
  <2>2. r.at = p /\ r.label = label[p] /\ r.proc = current_proc_name
    BY <2>1
  <2> QED
    BY <1>2, <1>8, <2>1, <2>2
<1>16. ASSUME NEW p \in E
       PROVE  /\ p \in Nat
              /\ site'[p].base \in Nat
              /\ p + 2 <= site'[p].base
              /\ site'[p].base <= size'
              /\ site'[p].proc = None => site'[p].to \in ProcName
              /\ site'[p].proc # None
                   => site'[p].proc \in ProcName /\ site'[p].to \in LabelName
  <2>1. current_proc_name \in ProcName
    BY <1>2 DEF IInv, NamesType
  <2> QED
    BY <1>2, <1>3, <1>4, <1>8, <2>1
<1>17. refs \subseteq refs' /\ size' \in Nat /\ size <= size'
  BY <1>2, <1>3, <1>12
<1>18. Writes(E)
  BY <1>2, <1>5, <1>7, <1>13, <1>14, <1>15, <1>16, <1>17 DEF Writes
<1> QED
  BY <1>18, JumpsWritten

-----------------------------------------------------------------------------
\* The reference a pending position waits on.
LEMMA RefAtPending ==
    ASSUME NEW p, Pending(p)
    PROVE  RefAt(p) \in refs /\ RefAt(p).at = p
  BY DEF Pending, RefAt

\* define_label binds what waits for the label in this procedure and leaves
\* the rest as it was.
LEMMA DefineLabelInv ==
    ASSUME IInv, NEW l \in LabelName, DefineLabel(l) PROVE IInv'
<1>1. /\ UNCHANGED << size, proc_defs, current_proc_name, result, begun, site >>
      /\ current_proc_name # None
      /\ l \notin named
      /\ named' = named \cup {l}
  BY DEF DefineLabel
<1>2. current_proc_name \in ProcName /\ size \in Nat /\ error_count \in Nat
  BY <1>1 DEF IInv, NamesType, CountersType
<1>3. NamesType'
  BY <1>1, ZenonT(20) DEF IInv, NamesType
<1>4. SitesOK'
  BY <1>1 DEF IInv, SitesOK
<1>5. CASE /\ error_count' = error_count + 1
           /\ UNCHANGED << word, labels, refs, where >>
  <2>1. CountersType' /\ WordsType'
    BY <1>1, <1>2, <1>5 DEF IInv, CountersType, WordsType
  <2>2. TablesType'
    BY <1>1, <1>5 DEF IInv, TablesType
  <2>3. RefsOK' /\ PlacesOK'
    BY <1>1, <1>5 DEF IInv, RefsOK, PlacesOK
  <2>4. NamesOK'
    BY <1>1, <1>5 DEF IInv, NamesOK
  <2>5. LabelsOK' /\ PendingOK'
    BY <1>1, <1>5 DEF IInv, LabelsOK, PendingOK
  <2>6. NoJumpAstray'
    <3> SUFFICES ASSUME NEW p \in DOMAIN site PROVE Waits(p)' \/ Lands(p)'
      BY <1>1 DEF NoJumpAstray
    <3>1. CASE Waits(p)
      BY <1>1, <1>5, <3>1 DEF Waits
    <3>2. CASE Lands(p)
      BY <1>1, <1>5, <3>2, LandsKept DEF PlacesKept
    <3> QED
      BY <3>1, <3>2 DEF IInv, NoJumpAstray
  <2> QED
    BY <1>3, <1>4, <2>1, <2>2, <2>3, <2>4, <2>5, <2>6 DEF IInv
<1>6. CASE /\ labels' = Put(labels, l, size)
           /\ where' = Put(where, << current_proc_name, l >>, size)
           /\ word' = [p \in DOMAIN word |->
                         IF Pending(p) /\ Resolves(RefAt(p), l)
                         THEN Rel(size, p + 2) ELSE word[p]]
           /\ refs' = {r \in refs : ~ Resolves(r, l)}
           /\ error_count' = error_count
  <2>1. PICK here : here = << current_proc_name, l >>
    OBVIOUS
  <2>2. here \notin DOMAIN where
    BY <1>1, <2>1 DEF IInv, NamesOK
  <2>3. /\ DOMAIN where' = DOMAIN where \cup {here}
        /\ where'[here] = size
        /\ \A x \in DOMAIN where : where'[x] = where[x]
    BY <1>6, <2>1, <2>2 DEF Put
  <2>4. /\ DOMAIN labels' = DOMAIN labels \cup {l}
        /\ labels'[l] = size
        /\ \A m \in DOMAIN labels : m # l => labels'[m] = labels[m]
    BY <1>6 DEF Put
  <2>5. PlacesKept
    BY <1>1, <2>3 DEF PlacesKept
  <2>6. DOMAIN word' = DOMAIN word
    BY <1>6
  <2>7. ASSUME NEW p \in DOMAIN word, Pending(p), Resolves(RefAt(p), l)
        PROVE  word'[p] = Rel(size, p + 2)
    BY <1>6, <2>7
  <2>8. ASSUME NEW p \in DOMAIN word, ~ (Pending(p) /\ Resolves(RefAt(p), l))
        PROVE  word'[p] = word[p]
    BY <1>6, <2>8
  <2>9. ASSUME NEW r \in refs'
        PROVE  r \in refs /\ ~ Resolves(r, l)
    BY <1>6
  <2>10. CountersType'
    BY <1>1, <1>2, <1>6 DEF CountersType
  <2>11. WordsType'
    <3> SUFFICES ASSUME NEW p \in DOMAIN site
                 PROVE  word'[p] \in Nat /\ word'[p] <= 65535
      BY <1>1, <2>6 DEF IInv, WordsType
    <3>1. p \in DOMAIN word /\ p + 2 \in Nat /\ word[p] \in Nat /\ word[p] <= 65535
      BY DEF IInv, WordsType, SitesOK
    <3>2. CASE Pending(p) /\ Resolves(RefAt(p), l)
      <4>1. Rel(size, p + 2) \in Nat /\ Rel(size, p + 2) <= 65535
        <5>1. size \in Nat /\ p + 2 \in Nat
          BY <1>2, <3>1
        <5> QED
          BY <5>1 DEF Rel
      <4> QED
        BY <2>7, <3>1, <3>2, <4>1
    <3>3. CASE ~ (Pending(p) /\ Resolves(RefAt(p), l))
      BY <2>8, <3>1, <3>3
    <3> QED
      BY <3>2, <3>3
  <2>12. TablesType'
    BY <1>1, <1>2, <2>4 DEF IInv, TablesType
  <2>13. RefsOK'
    BY <1>1, <2>9 DEF IInv, RefsOK
  <2>14. PlacesOK'
    BY <1>1, <1>2, <2>3 DEF IInv, PlacesOK
  <2>15. NamesOK'
    <3>1. DOMAIN proc_defs' \subseteq begun'
      BY <1>1 DEF IInv, NamesOK
    <3>2. ASSUME NEW q \in ProcName, NEW m \in LabelName, << q, m >> \in DOMAIN where'
          PROVE  q \in begun'
      BY <1>1, <2>1, <2>3, <3>2 DEF IInv, NamesOK
    <3>3. ASSUME NEW m \in LabelName, << current_proc_name', m >> \in DOMAIN where'
          PROVE  m \in named'
      BY <1>1, <2>1, <2>3, <3>3 DEF IInv, NamesOK
    <3>4. current_proc_name' \in begun'
      BY <1>1 DEF IInv, NamesOK
    <3> QED
      BY <3>1, <3>2, <3>3, <3>4 DEF NamesOK
  <2>16. LabelsOK'
    <3> SUFFICES ASSUME NEW m \in DOMAIN labels'
                 PROVE  /\ << current_proc_name, m >> \in DOMAIN where'
                        /\ where'[<< current_proc_name, m >>] = labels'[m]
      BY <1>1 DEF LabelsOK
    <3>1. CASE m = l
      BY <2>1, <2>3, <2>4, <3>1
    <3>2. CASE m # l
      BY <1>1, <2>3, <2>4, <3>2 DEF IInv, LabelsOK
    <3> QED
      BY <3>1, <3>2
  <2>17. PendingOK'
    <3> SUFFICES ASSUME NEW r \in refs'
                 PROVE  /\ r.proc # None /\ r.proc = current_proc_name => r.label \notin DOMAIN labels'
                        /\ r.proc = None /\ r.label \in DOMAIN proc_defs
                             => r.at + 2 <= proc_defs[r.label]
      BY <1>1 DEF PendingOK
    <3>1. r \in refs /\ ~ (r.label = l /\ r.proc = current_proc_name)
      BY <2>9 DEF Resolves
    <3> QED
      BY <2>4, <3>1 DEF IInv, PendingOK
  <2>18. NoJumpAstray'
    <3> SUFFICES ASSUME NEW p \in DOMAIN site PROVE Waits(p)' \/ Lands(p)'
      BY <1>1 DEF NoJumpAstray
    <3>1. p \in DOMAIN word /\ p \in Nat /\ p + 2 <= size
      BY <1>2 DEF IInv, WordsType, SitesOK
    <3>2. CASE Pending(p) /\ Resolves(RefAt(p), l)
      <4>1. RefAt(p) \in refs /\ RefAt(p).at = p
        BY <3>2, RefAtPending
      <4>2. site[p].to = l /\ site[p].proc = current_proc_name
        BY <3>2, <4>1 DEF IInv, RefsOK, Resolves
      <4>3. IsKnown(site[p])' /\ Intended(site[p])' = size
        BY <1>1, <2>1, <2>3, <4>2 DEF IsKnown, Intended
      <4>4. word'[p] = Rel(size, p + 2)
        BY <2>7, <3>1, <3>2
      <4> QED
        BY <1>2, <3>1, <4>3, <4>4, BoundForward
    <3>3. CASE ~ (Pending(p) /\ Resolves(RefAt(p), l))
      <4>1. word'[p] = word[p] /\ site'[p] = site[p]
        BY <1>1, <2>8, <3>1, <3>3
      <4>2. CASE Lands(p)
        BY <2>5, <4>1, <4>2, LandsKept
      <4>3. CASE Waits(p)
        <5>1. PICK r \in refs : r.at = p /\ r.label = site[p].to /\ r.proc = site[p].proc
          BY <4>3 DEF Waits
        <5>2. Pending(p)
          BY <5>1 DEF Pending
        <5>3. RefAt(p) \in refs /\ RefAt(p).at = p
          BY <5>2, RefAtPending
        <5>4. RefAt(p).label = r.label /\ RefAt(p).proc = r.proc
          BY <5>1, <5>3 DEF IInv, RefsOK
        <5>5. ~ Resolves(r, l)
          BY <3>3, <5>2, <5>4 DEF Resolves
        <5>6. r \in refs'
          BY <1>6, <5>5
        <5> QED
          BY <4>1, <5>1, <5>6 DEF Waits
      <4> QED
        BY <4>2, <4>3 DEF IInv, NoJumpAstray
    <3> QED
      BY <3>2, <3>3
  <2> QED
    BY <1>3, <1>4, <2>10, <2>11, <2>12, <2>13, <2>14, <2>15, <2>16, <2>17, <2>18 DEF IInv
<1> QED
  BY <1>5, <1>6 DEF DefineLabel

\* The second pass of gen_proc finds nothing to patch.
LEMMA SecondPassIdle ==
    ASSUME IInv, EndProc
    PROVE  \A p \in DOMAIN word : word'[p] = word[p]
<1> SUFFICES ASSUME NEW p \in DOMAIN word
             PROVE  ~ (/\ Pending(p)
                       /\ RefAt(p).proc = current_proc_name
                       /\ RefAt(p).label \in DOMAIN labels)
  BY DEF EndProc
<1>1. current_proc_name # None
  BY DEF EndProc
<1>2. CASE Pending(p)
  <2>1. RefAt(p) \in refs
    BY <1>2, RefAtPending
  <2> QED
    BY <1>1, <2>1 DEF IInv, PendingOK
<1> QED
  BY <1>2

LEMMA EndProcInv == ASSUME IInv, EndProc PROVE IInv'
<1>1. /\ UNCHANGED << labels, proc_defs, refs, error_count, result, begun, named,
                      site, where >>
      /\ size' = size + 1
      /\ current_proc_name' = None
      /\ DOMAIN word' = DOMAIN word
      /\ \A p \in DOMAIN word : word'[p] = word[p]
  BY SecondPassIdle DEF EndProc
<1>2. size \in Nat /\ size' \in Nat /\ size <= size'
  BY <1>1 DEF IInv, CountersType
<1>3. PlacesKept
  BY <1>1 DEF PlacesKept
<1>4. CountersType'
  BY <1>1, <1>2 DEF IInv, CountersType
<1>5. WordsType'
  BY <1>1 DEF IInv, WordsType
<1>6. TablesType'
  BY <1>1 DEF IInv, TablesType
<1>7. NamesType'
  BY <1>1 DEF IInv, NamesType
<1>8. SitesOK'
  BY <1>1, <1>2 DEF IInv, SitesOK
<1>9. RefsOK'
  BY <1>1 DEF IInv, RefsOK
<1>10. PlacesOK'
  BY <1>1, <1>2 DEF IInv, PlacesOK
<1>11. NamesOK'
  BY <1>1 DEF IInv, NamesOK
<1>12. LabelsOK'
  BY <1>1 DEF LabelsOK
<1>13. PendingOK'
  BY <1>1 DEF IInv, PendingOK
<1>14. NoJumpAstray'
  <2> SUFFICES ASSUME NEW p \in DOMAIN site PROVE Waits(p)' \/ Lands(p)'
    BY <1>1 DEF NoJumpAstray
  <2>1. p \in DOMAIN word
    BY DEF IInv, WordsType
  <2>2. CASE Waits(p)
    BY <1>1, <2>2 DEF Waits
  <2>3. CASE Lands(p)
    BY <1>1, <1>3, <2>1, <2>3, LandsKept
  <2> QED
    BY <2>2, <2>3 DEF IInv, NoJumpAstray
<1> QED
  BY <1>4, <1>5, <1>6, <1>7, <1>8, <1>9, <1>10, <1>11, <1>12, <1>13, <1>14 DEF IInv

\* Which positions codegen_generate patches after the last procedure.
CallIsKnown(p) == Pending(p) /\ RefAt(p).proc = None /\ RefAt(p).label \in DOMAIN proc_defs

LEMMA FinishInv == ASSUME IInv, NEW outcome \in Outcomes, Finish(outcome) PROVE IInv'
<1>1. /\ UNCHANGED << size, labels, proc_defs, refs, current_proc_name, begun, named,
                      site, where >>
      /\ DOMAIN word' = DOMAIN word
      /\ error_count' \in Nat
  BY DEF Finish, IInv, CountersType
<1>2. ASSUME NEW p \in DOMAIN word, CallIsKnown(p)
      PROVE  word'[p] = Rel(proc_defs[RefAt(p).label], p + 2)
  BY <1>2 DEF Finish, CallIsKnown
<1>3. ASSUME NEW p \in DOMAIN word, ~ CallIsKnown(p)
      PROVE  word'[p] = word[p]
  BY <1>3 DEF Finish, CallIsKnown
<1>4. PlacesKept
  BY <1>1 DEF PlacesKept
<1>5. CountersType'
  BY <1>1 DEF IInv, CountersType
<1>6. ASSUME NEW p \in DOMAIN site, CallIsKnown(p)
      PROVE  /\ p \in Nat
             /\ proc_defs[RefAt(p).label] \in Nat
             /\ p + 2 <= proc_defs[RefAt(p).label]
             /\ site[p].to = RefAt(p).label
             /\ site[p].proc = None
             /\ site[p].to \in DOMAIN proc_defs
  <2>1. RefAt(p) \in refs /\ RefAt(p).at = p
    BY <1>6, RefAtPending DEF CallIsKnown
  <2>2. p \in Nat
    BY DEF IInv, SitesOK
  <2>3. RefAt(p).proc = None /\ RefAt(p).label \in DOMAIN proc_defs
    BY <1>6 DEF CallIsKnown
  <2>4. site[p].to = RefAt(p).label /\ site[p].proc = RefAt(p).proc
    BY <2>1 DEF IInv, RefsOK
  <2>5. p + 2 <= proc_defs[RefAt(p).label]
    BY <2>1, <2>3 DEF IInv, PendingOK
  <2>6. proc_defs[RefAt(p).label] \in Nat
    BY <2>3 DEF IInv, TablesType
  <2> QED
    BY <2>2, <2>3, <2>4, <2>5, <2>6
<1>7. WordsType'
  <2> SUFFICES ASSUME NEW p \in DOMAIN site
               PROVE  word'[p] \in Nat /\ word'[p] <= 65535
    BY <1>1 DEF IInv, WordsType
  <2>1. p \in DOMAIN word /\ p + 2 \in Nat /\ word[p] \in Nat /\ word[p] <= 65535
    BY DEF IInv, WordsType, SitesOK
  <2>2. CASE CallIsKnown(p)
    <3>1. PICK t : t = proc_defs[RefAt(p).label]
      OBVIOUS
    <3>2. t \in Nat
      BY <1>6, <2>2, <3>1
    <3>3. Rel(t, p + 2) \in Nat /\ Rel(t, p + 2) <= 65535
      <4>1. t \in Nat /\ p + 2 \in Nat
        BY <2>1, <3>2
      <4> QED
        BY <4>1 DEF Rel
    <3> QED
      BY <1>2, <2>1, <2>2, <3>1, <3>3
  <2>3. CASE ~ CallIsKnown(p)
    BY <1>3, <2>1, <2>3
  <2> QED
    BY <2>2, <2>3
<1>8. TablesType' /\ NamesType'
  BY <1>1 DEF IInv, TablesType, NamesType
<1>9. SitesOK' /\ RefsOK'
  BY <1>1 DEF IInv, SitesOK, RefsOK
<1>10. PlacesOK'
  BY <1>1 DEF IInv, PlacesOK
<1>11. NamesOK' /\ LabelsOK'
  BY <1>1 DEF IInv, NamesOK, LabelsOK
<1>12. PendingOK'
  BY <1>1 DEF IInv, PendingOK
<1>13. NoJumpAstray'
  <2> SUFFICES ASSUME NEW p \in DOMAIN site PROVE Waits(p)' \/ Lands(p)'
    BY <1>1 DEF NoJumpAstray
  <2>1. p \in DOMAIN word
    BY DEF IInv, WordsType
  <2>2. CASE CallIsKnown(p)
    <3>1. PICK t : t = proc_defs[RefAt(p).label]
      OBVIOUS
    <3>2. IsKnown(site[p])' /\ Intended(site[p])' = t
      BY <1>1, <1>6, <2>2, <3>1 DEF IsKnown, Intended
    <3>3. word'[p] = Rel(t, p + 2)
      BY <1>2, <2>1, <2>2, <3>1
    <3>4. p \in Nat /\ t \in Nat /\ p + 2 <= t
      BY <1>6, <2>2, <3>1
    <3> QED
      BY <3>2, <3>3, <3>4, BoundForward
  <2>3. CASE ~ CallIsKnown(p)
    <3>1. CASE Waits(p)
      BY <1>1, <3>1 DEF Waits
    <3>2. CASE Lands(p)
      BY <1>1, <1>3, <1>4, <2>1, <2>3, <3>2, LandsKept
    <3> QED
      BY <3>1, <3>2 DEF IInv, NoJumpAstray
  <2> QED
    BY <2>2, <2>3
<1> QED
  BY <1>5, <1>7, <1>8, <1>9, <1>10, <1>11, <1>12, <1>13 DEF IInv

LEMMA StutterInv == ASSUME IInv, UNCHANGED vars PROVE IInv'
<1>1. CountersType' /\ WordsType'
  BY DEF vars, IInv, CountersType, WordsType
<1>2. TablesType' /\ NamesType'
  BY DEF vars, IInv, TablesType, NamesType
<1>3. SitesOK' /\ RefsOK' /\ PlacesOK'
  BY DEF vars, IInv, SitesOK, RefsOK, PlacesOK
<1>4. NamesOK' /\ LabelsOK' /\ PendingOK'
  BY DEF vars, IInv, NamesOK, LabelsOK, PendingOK
<1>5. ASSUME NEW p \in DOMAIN site PROVE Waits(p)' \/ Lands(p)'
  <2>1. CASE Waits(p)
    BY <2>1 DEF vars, Waits
  <2>2. CASE Lands(p)
    BY <2>2, LandsKept DEF vars, PlacesKept
  <2> QED
    BY <2>1, <2>2 DEF IInv, NoJumpAstray
<1>6. NoJumpAstray'
  BY <1>5 DEF vars, NoJumpAstray
<1> QED
  BY <1>1, <1>2, <1>3, <1>4, <1>6 DEF IInv

LEMMA NextInv == ASSUME IInv, [Next]_vars PROVE IInv'
<1>1. CASE \E p \in ProcName : BeginProc(p)
  BY <1>1, BeginProcInv
<1>2. CASE \E n \in Lengths : EmitCode(n)
  BY <1>2, EmitCodeInv
<1>3. CASE \E l \in LabelName, n \in Lengths : EmitJump(l, n)
  BY <1>3, EmitJumpInv
<1>4. CASE \E k \in 1 .. MaxTargets : \E ls \in [1 .. k -> LabelName], n \in Lengths :
              GotoDependingOn(k, ls, n)
  BY <1>4, GotoDependingOnInv
<1>5. CASE \E q \in ProcName, n \in Lengths : GenProcCall(q, n)
  BY <1>5, GenProcCallInv
<1>6. CASE \E l \in LabelName : DefineLabel(l)
  BY <1>6, DefineLabelInv
<1>7. CASE EndProc
  BY <1>7, EndProcInv
<1>8. CASE \E outcome \in Outcomes : Finish(outcome)
  BY <1>8, FinishInv
<1>9. CASE UNCHANGED vars
  BY <1>9, StutterInv
<1> QED
  BY <1>1, <1>2, <1>3, <1>4, <1>5, <1>6, <1>7, <1>8, <1>9 DEF Next

LEMMA Inductive == Spec => []IInv
  BY InitInv, NextInv, PTL DEF Spec

\* The tables of the generator hold what they are declared to hold; every
\* patched word fits its two bytes, however far the jump.
THEOREM TypeCorrect == Spec => []TypeOK
<1>1. IInv => TypeOK
  BY DEF IInv, TypeOK
<1> QED
  BY <1>1, Inductive, PTL

\* Whatever the program and the sizes of the tables, a jump or call that has
\* been written either waits for the name it was written for or goes to the
\* place of that name, if its distance fits 16 bits.
THEOREM JumpsNeverAstray == Spec => []NoJumpAstray
<1>1. IInv => NoJumpAstray
  BY DEF IInv
<1> QED
  BY <1>1, Inductive, PTL

-----------------------------------------------------------------------------
\* What a step leaves alone of the jumps written before it, and what it may
\* add to them.
Frame == \A p \in DOMAIN site : /\ p \in DOMAIN site'
                                /\ site'[p] = site[p]
                                /\ word'[p] = word[p]
NewSites == \A p \in DOMAIN site' : \/ p \in DOMAIN site
                                    \/ site'[p].proc = current_proc_name
                                    \/ site'[p].proc = None /\ word'[p] = 0
Jumps ==
    \/ \E l \in LabelName, n \in Lengths : EmitJump(l, n)
    \/ \E k \in 1 .. MaxTargets : \E ls \in [1 .. k -> LabelName], n \in Lengths :
          GotoDependingOn(k, ls, n)
    \/ \E q \in ProcName, n \in Lengths : GenProcCall(q, n)

LEMMA JumpsFrame == ASSUME IInv, Jumps PROVE Frame /\ NewSites
<1>1. ASSUME NEW l \in LabelName, NEW n \in Lengths, EmitJump(l, n)
      PROVE  Frame /\ NewSites
  <2>1. size + n \notin DOMAIN site
    BY CodegenAssumption DEF IInv, CountersType, SitesOK
  <2>2. PICK at, w, new : /\ at = size + n
                          /\ site' = Put(site, at, new)
                          /\ word' = Put(word, at, w)
                          /\ new.proc = current_proc_name
    BY <1>1 DEF EmitJump
  <2>3. DOMAIN word = DOMAIN site
    BY DEF IInv, WordsType
  <2> QED
    BY <2>1, <2>2, <2>3 DEF Frame, NewSites, Put
<1>2. ASSUME NEW q \in ProcName, NEW n \in Lengths, GenProcCall(q, n)
      PROVE  Frame /\ NewSites
  <2>1. size + n \notin DOMAIN site
    BY CodegenAssumption DEF IInv, CountersType, SitesOK
  <2>2. q \notin DOMAIN proc_defs
    BY <1>2 DEF GenProcCall, IInv, NamesOK
  <2>3. PICK at, new : /\ at = size + n
                       /\ site' = Put(site, at, new)
                       /\ word' = Put(word, at, 0)
                       /\ new.proc = None
    BY <1>2, <2>2 DEF GenProcCall
  <2>4. DOMAIN word = DOMAIN site
    BY DEF IInv, WordsType
  <2> QED
    BY <2>1, <2>3, <2>4 DEF Frame, NewSites, Put
<1>3. ASSUME NEW k \in 1 .. MaxTargets, NEW ls \in [1 .. k -> LabelName],
             NEW n \in Lengths, GotoDependingOn(k, ls, n)
      PROVE  Frame /\ NewSites
  <2>1. PICK E : E = {size + n + 2 * (i - 1) : i \in 1 .. k}
    OBVIOUS
  <2>2. ASSUME NEW p \in E
        PROVE  p \notin DOMAIN site
    <3>1. PICK i \in 1 .. k : p = size + n + 2 * (i - 1)
      BY <2>1
    <3>2. size \in Nat /\ n \in Nat /\ i \in Nat /\ 1 <= i
      BY CodegenAssumption DEF IInv, CountersType
    <3>3. p \in Nat /\ size <= p
      BY <3>1, <3>2
    <3> QED
      BY <3>2, <3>3 DEF IInv, SitesOK
  <2>3. /\ DOMAIN site' = DOMAIN site \cup E
        /\ \A p \in DOMAIN site : p \notin E => site'[p] = site[p]
        /\ \A p \in E : site'[p].proc = current_proc_name
    BY <1>3, <2>1 DEF GotoDependingOn
  <2>4. \A p \in DOMAIN word : p \notin E => word'[p] = word[p]
    BY <1>3, <2>1 DEF GotoDependingOn
  <2>5. DOMAIN word = DOMAIN site
    BY DEF IInv, WordsType
  <2> QED
    BY <2>2, <2>3, <2>4, <2>5 DEF Frame, NewSites
<1> QED
  BY <1>1, <1>2, <1>3 DEF Jumps

\* A position that is not pending is in no case of define_label or of the
\* two passes that patch.
LEMMA BoundStays ==
    ASSUME IInv, [Next]_vars, NEW p \in DOMAIN word, ~ Pending(p)
    PROVE  word'[p] = word[p]
<1>1. p \in DOMAIN site
  BY DEF IInv, WordsType
<1>2. CASE Jumps
  BY <1>1, <1>2, JumpsFrame DEF Frame
<1>3. ASSUME NEW q \in ProcName, BeginProc(q) PROVE word'[p] = word[p]
  BY <1>3 DEF BeginProc
<1>4. ASSUME NEW n \in Lengths, EmitCode(n) PROVE word'[p] = word[p]
  BY <1>4 DEF EmitCode
<1>5. ASSUME NEW l \in LabelName, DefineLabel(l) PROVE word'[p] = word[p]
  BY <1>5 DEF DefineLabel
<1>6. CASE EndProc
  BY <1>6 DEF EndProc
<1>7. ASSUME NEW outcome \in Outcomes, Finish(outcome) PROVE word'[p] = word[p]
  BY <1>7 DEF Finish
<1>8. CASE UNCHANGED vars
  BY <1>8 DEF vars
<1> QED
  BY <1>2, <1>3, <1>4, <1>5, <1>6, <1>7, <1>8 DEF Next, Jumps

\* A jump that has found its place is never written again.
THEOREM BoundJumpsStay == Spec => BoundForever
<1>1. IInv /\ [Next]_vars => [\A p \in DOMAIN word : ~ Pending(p) => word'[p] = word[p]]_vars
  BY BoundStays
<1> QED
  BY <1>1, Inductive, PTL DEF Spec, BoundForever

-----------------------------------------------------------------------------
\* Without an error every procedure has its entry in the table, and every
\* label of the current one.
NothingLost ==
    error_count = 0 =>
        /\ \A q \in begun : q \in DOMAIN proc_defs
        /\ current_proc_name # None => \A l \in named : l \in DOMAIN labels

\* Without an error the jumps of a finished procedure are all bound.
FinishedBound ==
    error_count = 0 =>
        \A p \in DOMAIN site :
            site[p].proc # None /\ site[p].proc # current_proc_name => Lands(p)

\* The offset of a call to a procedure not met so far is zero.
OpenCalls ==
    \A p \in DOMAIN site :
        site[p].proc = None /\ site[p].to \notin DOMAIN proc_defs => word[p] = 0

JInv == IInv /\ NothingLost /\ FinishedBound /\ OpenCalls /\ LinkedWhenClean

LEMMA InitJ == Init => NothingLost /\ FinishedBound /\ OpenCalls /\ LinkedWhenClean
  BY CodegenAssumption DEF Init, Empty, NothingLost, FinishedBound, OpenCalls, LinkedWhenClean

\* Before codegen_generate returns there is no result to speak of.
LEMMA NoResultYet == ASSUME result' = None PROVE LinkedWhenClean'
  BY CodegenAssumption DEF LinkedWhenClean

LEMMA JumpsJ == ASSUME JInv, Jumps PROVE JInv'
<1>1. UNCHANGED << labels, proc_defs, current_proc_name, error_count, begun, named, where >>
  <2>1. ASSUME NEW l \in LabelName, NEW n \in Lengths, EmitJump(l, n)
        PROVE  UNCHANGED << labels, proc_defs, current_proc_name, error_count, begun, named, where >>
    BY <2>1 DEF EmitJump
  <2>2. ASSUME NEW q \in ProcName, NEW n \in Lengths, GenProcCall(q, n)
        PROVE  UNCHANGED << labels, proc_defs, current_proc_name, error_count, begun, named, where >>
    BY <2>2 DEF GenProcCall
  <2>3. ASSUME NEW k \in 1 .. MaxTargets, NEW ls \in [1 .. k -> LabelName],
               NEW n \in Lengths, GotoDependingOn(k, ls, n)
        PROVE  UNCHANGED << labels, proc_defs, current_proc_name, error_count, begun, named, where >>
    BY <2>3 DEF GotoDependingOn
  <2> QED
    BY <2>1, <2>2, <2>3 DEF Jumps
<1>2. result' = None /\ current_proc_name # None
  BY DEF Jumps, EmitJump, GenProcCall, GotoDependingOn
<1>3. Frame /\ NewSites
  BY JumpsFrame DEF JInv
<1>4. IInv'
  <2>1. [Next]_vars
    BY DEF Jumps, Next
  <2> QED
    BY <2>1, NextInv DEF JInv
<1>5. NothingLost'
  BY <1>1 DEF JInv, NothingLost
<1>6. FinishedBound'
  <2> SUFFICES ASSUME error_count' = 0,
                      NEW p \in DOMAIN site',
                      site'[p].proc # None /\ site'[p].proc # current_proc_name'
               PROVE  Lands(p)'
    BY DEF FinishedBound
  <2>1. p \in DOMAIN site
    BY <1>1, <1>3 DEF NewSites
  <2>2. site'[p] = site[p] /\ word'[p] = word[p]
    BY <1>3, <2>1 DEF Frame
  <2>3. Lands(p)
    BY <1>1, <2>1, <2>2 DEF JInv, FinishedBound
  <2> QED
    BY <1>1, <2>2, <2>3, LandsKept DEF PlacesKept
<1>7. OpenCalls'
  BY <1>1, <1>2, <1>3 DEF JInv, OpenCalls, Frame, NewSites
<1> QED
  BY <1>2, <1>4, <1>5, <1>6, <1>7, NoResultYet DEF JInv

LEMMA BeginProcJ == ASSUME JInv, NEW q \in ProcName, BeginProc(q) PROVE JInv'
<1>1. /\ UNCHANGED << size, word, refs, result, site, where >>
      /\ result = None
      /\ current_proc_name = None /\ current_proc_name' = q
      /\ begun' = begun \cup {q}
      /\ named' = {}
      /\ q \notin DOMAIN proc_defs
  BY DEF BeginProc, NamesOK, IInv, JInv
<1>2. \/ proc_defs' = proc_defs /\ error_count' = error_count + 1
      \/ proc_defs' = Put(proc_defs, q, size) /\ error_count' = error_count
  BY DEF BeginProc
<1>3. error_count' = 0 => error_count = 0 /\ q \in DOMAIN proc_defs'
  BY <1>2 DEF JInv, IInv, CountersType, Put
<1>4. PlacesKept
  BY <1>1, <1>2 DEF PlacesKept, Put
<1>5. IInv'
  BY BeginProcInv DEF JInv
<1>6. NothingLost'
  BY <1>1, <1>3, <1>4 DEF JInv, NothingLost, PlacesKept
<1>7. FinishedBound'
  <2> SUFFICES ASSUME error_count' = 0, NEW p \in DOMAIN site, site[p].proc # None
               PROVE  Lands(p)'
    BY <1>1 DEF FinishedBound
  <2>1. Lands(p)
    BY <1>1, <1>3 DEF JInv, FinishedBound
  <2> QED
    BY <1>1, <1>4, <2>1, LandsKept
<1>8. OpenCalls'
  BY <1>1, <1>4 DEF JInv, OpenCalls, PlacesKept
<1> QED
  BY <1>1, <1>5, <1>6, <1>7, <1>8, NoResultYet DEF JInv

LEMMA EmitCodeJ == ASSUME JInv, NEW n \in Lengths, EmitCode(n) PROVE JInv'
<1>1. /\ UNCHANGED << word, labels, proc_defs, refs, current_proc_name, error_count,
                      result, begun, named, site, where >>
      /\ result = None
  BY DEF EmitCode
<1>2. IInv'
  BY EmitCodeInv DEF JInv
<1>3. NothingLost' /\ OpenCalls'
  BY <1>1 DEF JInv, NothingLost, OpenCalls
<1>4. FinishedBound'
  <2> SUFFICES ASSUME error_count = 0, NEW p \in DOMAIN site,
                      site[p].proc # None /\ site[p].proc # current_proc_name
               PROVE  Lands(p)'
    BY <1>1 DEF FinishedBound
  <2>1. Lands(p)
    BY DEF JInv, FinishedBound
  <2> QED
    BY <1>1, <2>1, LandsKept DEF PlacesKept
<1> QED
  BY <1>1, <1>2, <1>3, <1>4, NoResultYet DEF JInv

LEMMA DefineLabelJ == ASSUME JInv, NEW l \in LabelName, DefineLabel(l) PROVE JInv'
<1>1. /\ UNCHANGED << size, proc_defs, current_proc_name, result, begun, site >>
      /\ result = None
      /\ current_proc_name # None
      /\ l \notin named
      /\ named' = named \cup {l}
  BY DEF DefineLabel
<1>2. IInv'
  BY DefineLabelInv DEF JInv
<1>3. ASSUME NEW p \in DOMAIN site, site[p].proc # current_proc_name
      PROVE  word'[p] = word[p]
  <2>1. p \in DOMAIN word
    BY DEF JInv, IInv, WordsType
  <2>2. CASE Pending(p)
    <3>1. RefAt(p) \in refs /\ RefAt(p).at = p
      BY <2>2, RefAtPending
    <3>2. ~ Resolves(RefAt(p), l)
      BY <1>3, <3>1 DEF JInv, IInv, RefsOK, Resolves
    <3> QED
      BY <2>1, <3>2 DEF DefineLabel
  <2>3. CASE ~ Pending(p)
    BY <2>1, <2>3 DEF DefineLabel
  <2> QED
    BY <2>2, <2>3
<1>4. << current_proc_name, l >> \notin DOMAIN where
  BY <1>1 DEF JInv, IInv, NamesOK
<1>5. PlacesKept
  <2>1. where' = where \/ where' = Put(where, << current_proc_name, l >>, size)
    BY DEF DefineLabel
  <2> QED
    BY <1>1, <1>4, <2>1 DEF PlacesKept, Put
<1>6. error_count' = 0 => /\ error_count = 0
                          /\ l \in DOMAIN labels'
                          /\ \A m \in DOMAIN labels : m \in DOMAIN labels'
  BY DEF DefineLabel, JInv, IInv, CountersType, Put
<1>7. NothingLost'
  BY <1>1, <1>6 DEF JInv, NothingLost
<1>8. FinishedBound'
  <2> SUFFICES ASSUME error_count' = 0, NEW p \in DOMAIN site,
                      site[p].proc # None /\ site[p].proc # current_proc_name
               PROVE  Lands(p)'
    BY <1>1 DEF FinishedBound
  <2>1. Lands(p)
    BY <1>6 DEF JInv, FinishedBound
  <2> QED
    BY <1>1, <1>3, <1>5, <2>1, LandsKept
<1>9. OpenCalls'
  BY <1>1, <1>3 DEF JInv, OpenCalls
<1> QED
  BY <1>1, <1>2, <1>7, <1>8, <1>9, NoResultYet DEF JInv

LEMMA EndProcJ == ASSUME JInv, EndProc PROVE JInv'
<1>1. /\ UNCHANGED << labels, proc_defs, refs, error_count, result, begun, named,
                      site, where >>
      /\ result = None
      /\ current_proc_name # None
      /\ current_proc_name' = None
      /\ \A p \in DOMAIN word : word'[p] = word[p]
      /\ DOMAIN word = DOMAIN site
  BY SecondPassIdle DEF EndProc, JInv, IInv, WordsType
<1>2. \A p \in DOMAIN site : site[p].proc = current_proc_name => site[p].to \in named
  BY DEF EndProc
<1>3. IInv'
  BY EndProcInv DEF JInv
<1>4. NothingLost' /\ OpenCalls'
  BY <1>1 DEF JInv, NothingLost, OpenCalls
<1>5. FinishedBound'
  <2> SUFFICES ASSUME error_count = 0, NEW p \in DOMAIN site, site[p].proc # None
               PROVE  Lands(p)'
    BY <1>1 DEF FinishedBound
  <2>1. ASSUME site[p].proc # current_proc_name
        PROVE  Lands(p)
    BY <2>1 DEF JInv, FinishedBound
  <2>2. ASSUME site[p].proc = current_proc_name
        PROVE  Lands(p)
    <3>1. site[p].to \in DOMAIN labels
      BY <1>1, <1>2, <2>2 DEF JInv, NothingLost
    <3>2. ~ Waits(p)
      BY <1>1, <2>2, <3>1 DEF JInv, IInv, PendingOK, Waits
    <3> QED
      BY <3>2 DEF JInv, IInv, NoJumpAstray
  <2>3. Lands(p)
    BY <2>1, <2>2
  <2> QED
    BY <1>1, <2>3, LandsKept DEF PlacesKept
<1> QED
  BY <1>1, <1>3, <1>4, <1>5, NoResultYet DEF JInv

\* The last pass binds every call to a procedure that has an entry.
LEMMA FinishBinds ==
    ASSUME IInv, NEW outcome \in Outcomes, Finish(outcome),
           NEW p \in DOMAIN site, site[p].proc = None, site[p].to \in DOMAIN proc_defs
    PROVE  Lands(p)'
<1>1. UNCHANGED << proc_defs, site, refs, where >> /\ DOMAIN word = DOMAIN site
  BY DEF Finish, IInv, WordsType
<1>2. CASE CallIsKnown(p)
  <2>1. RefAt(p) \in refs /\ RefAt(p).at = p
    BY <1>2, RefAtPending DEF CallIsKnown
  <2>2. RefAt(p).label = site[p].to
    BY <2>1 DEF IInv, RefsOK
  <2>3. PICK t : t = proc_defs[site[p].to]
    OBVIOUS
  <2>4. p \in Nat /\ t \in Nat /\ p + 2 <= t
    BY <2>1, <2>2, <2>3 DEF IInv, SitesOK, TablesType, PendingOK, RefsOK
  <2>5. word'[p] = Rel(t, p + 2)
    BY <1>1, <1>2, <2>2, <2>3 DEF Finish, CallIsKnown
  <2>6. IsKnown(site[p])' /\ Intended(site[p])' = t
    BY <1>1, <2>3 DEF IsKnown, Intended
  <2> QED
    BY <2>4, <2>5, <2>6, BoundForward
<1>3. CASE ~ CallIsKnown(p)
  <2>1. ~ Waits(p)
    <3> SUFFICES ASSUME NEW r \in refs, r.at = p, r.label = site[p].to, r.proc = site[p].proc
                 PROVE  FALSE
      BY DEF Waits
    <3>1. Pending(p)
      BY DEF Pending
    <3>2. RefAt(p) \in refs /\ RefAt(p).at = p
      BY <3>1, RefAtPending
    <3>3. RefAt(p).label = site[p].to /\ RefAt(p).proc = site[p].proc
      BY <3>2 DEF IInv, RefsOK
    <3> QED
      BY <1>3, <3>1, <3>3 DEF CallIsKnown
  <2>2. Lands(p)
    BY <2>1 DEF IInv, NoJumpAstray
  <2>3. word'[p] = word[p]
    BY <1>1, <1>3 DEF Finish, CallIsKnown
  <2> QED
    BY <1>1, <2>2, <2>3, LandsKept DEF PlacesKept
<1> QED
  BY <1>2, <1>3

\* The last pass of codegen_generate: without an error every call to a
\* procedure of the program is bound when it is over.
LEMMA FinishJ == ASSUME JInv, NEW outcome \in Outcomes, Finish(outcome) PROVE JInv'
<1>1. /\ UNCHANGED << size, labels, proc_defs, refs, current_proc_name, begun, named,
                      site, where >>
      /\ current_proc_name = None
      /\ error_count' = 0 => error_count = 0
      /\ DOMAIN word = DOMAIN site
  BY DEF Finish, JInv, IInv, WordsType, CountersType
<1>2. IInv'
  BY FinishInv DEF JInv
<1>3. ASSUME NEW p \in DOMAIN site, ~ CallIsKnown(p)
      PROVE  word'[p] = word[p]
  BY <1>1, <1>3 DEF Finish, CallIsKnown
<1>4. ASSUME NEW p \in DOMAIN site, site[p].proc # None \/ site[p].to \notin DOMAIN proc_defs
      PROVE  ~ CallIsKnown(p)
  <2> SUFFICES ASSUME CallIsKnown(p) PROVE FALSE
    OBVIOUS
  <2>1. RefAt(p) \in refs /\ RefAt(p).at = p
    BY RefAtPending DEF CallIsKnown
  <2> QED
    BY <1>4, <2>1 DEF JInv, IInv, RefsOK, CallIsKnown
<1>5. PlacesKept
  BY <1>1 DEF PlacesKept
<1>6. NothingLost'
  BY <1>1 DEF JInv, NothingLost
<1>7. FinishedBound'
  <2> SUFFICES ASSUME error_count = 0, NEW p \in DOMAIN site, site[p].proc # None
               PROVE  Lands(p)'
    BY <1>1 DEF FinishedBound
  <2>1. Lands(p)
    BY <1>1 DEF JInv, FinishedBound
  <2> QED
    BY <1>1, <1>3, <1>4, <1>5, <2>1, LandsKept
<1>8. OpenCalls'
  BY <1>1, <1>3, <1>4 DEF JInv, OpenCalls
<1>9. LinkedWhenClean'
  <2> SUFFICES ASSUME error_count' = 0, NEW p \in DOMAIN site
               PROVE  IF site[p].proc = None /\ site[p].to \notin begun
                      THEN word'[p] = 0 ELSE Lands(p)'
    BY <1>1 DEF LinkedWhenClean
  <2>1. CASE site[p].proc # None
    BY <1>1, <1>7, <2>1 DEF FinishedBound
  <2>2. CASE site[p].proc = None /\ site[p].to \notin begun
    BY <1>1, <1>8, <2>2 DEF OpenCalls, JInv, IInv, NamesOK
  <2>3. CASE site[p].proc = None /\ site[p].to \in begun
    <3>1. site[p].to \in DOMAIN proc_defs
      BY <1>1, <2>3 DEF JInv, NothingLost
    <3> QED
      BY <2>3, <3>1, FinishBinds DEF JInv
  <2> QED
    BY <2>1, <2>2, <2>3
<1> QED
  BY <1>2, <1>6, <1>7, <1>8, <1>9 DEF JInv

LEMMA StutterJ == ASSUME JInv, UNCHANGED vars PROVE JInv'
<1>1. IInv'
  BY StutterInv DEF JInv
<1>2. NothingLost' /\ OpenCalls'
  BY DEF vars, JInv, NothingLost, OpenCalls
<1>3. \A p \in DOMAIN site : Lands(p) => Lands(p)'
  BY LandsKept DEF vars, PlacesKept
<1>4. FinishedBound'
  BY <1>3 DEF vars, JInv, FinishedBound
<1>5. LinkedWhenClean'
  BY <1>3 DEF vars, JInv, LinkedWhenClean
<1> QED
  BY <1>1, <1>2, <1>4, <1>5 DEF JInv

LEMMA NextJ == ASSUME JInv, [Next]_vars PROVE JInv'
<1>1. CASE Jumps
  BY <1>1, JumpsJ
<1>2. CASE \E p \in ProcName : BeginProc(p)
  BY <1>2, BeginProcJ
<1>3. CASE \E n \in Lengths : EmitCode(n)
  BY <1>3, EmitCodeJ
<1>4. CASE \E l \in LabelName : DefineLabel(l)
  BY <1>4, DefineLabelJ
<1>5. CASE EndProc
  BY <1>5, EndProcJ
<1>6. CASE \E outcome \in Outcomes : Finish(outcome)
  BY <1>6, FinishJ
<1>7. CASE UNCHANGED vars
  BY <1>7, StutterJ
<1> QED
  BY <1>1, <1>2, <1>3, <1>4, <1>5, <1>6, <1>7 DEF Next, Jumps

\* When codegen_generate has returned without an error, every jump is on its
\* label and every call on its procedure, if the distance fits; a call to a
\* procedure the program does not have keeps offset 0.
THEOREM CleanMeansLinked == Spec => []LinkedWhenClean
<1>1. Init => JInv
  BY InitInv, InitJ DEF JInv
<1>2. JInv /\ [Next]_vars => JInv'
  BY NextJ
<1>3. JInv => LinkedWhenClean
  BY DEF JInv
<1> QED
  BY <1>1, <1>2, <1>3, PTL DEF Spec

-----------------------------------------------------------------------------
(***************************************************************************)
(* Codegen implements Linker: every step of the generator is a step of the *)
(* abstract linker or leaves it where it is.  And jumps stay within their  *)
(* procedure: the labels of a procedure lie between its own entry and the  *)
(* next one.                                                               *)
(***************************************************************************)

\* A label of the current procedure that has a place is in the label table.
LabelsExact ==
    current_proc_name # None =>
        \A l \in LabelName : << current_proc_name, l >> \in DOMAIN where => l \in DOMAIN labels

\* Without an error no reference of a finished procedure is left.
NoneLeft ==
    error_count = 0 => \A r \in refs : r.proc = None \/ r.proc = current_proc_name

\* What the steps that write jumps leave alone, and what references they add.
LEMMA JumpsLeave ==
    ASSUME Jumps
    PROVE  /\ UNCHANGED << labels, proc_defs, where, current_proc_name, error_count, result >>
           /\ result = None
<1>1. ASSUME NEW l \in LabelName, NEW n \in Lengths, EmitJump(l, n)
      PROVE  /\ UNCHANGED << labels, proc_defs, where, current_proc_name, error_count, result >>
             /\ result = None
  BY <1>1 DEF EmitJump
<1>2. ASSUME NEW q \in ProcName, NEW n \in Lengths, GenProcCall(q, n)
      PROVE  /\ UNCHANGED << labels, proc_defs, where, current_proc_name, error_count, result >>
             /\ result = None
  BY <1>2 DEF GenProcCall
<1>3. ASSUME NEW k \in 1 .. MaxTargets, NEW ls \in [1 .. k -> LabelName],
             NEW n \in Lengths, GotoDependingOn(k, ls, n)
      PROVE  /\ UNCHANGED << labels, proc_defs, where, current_proc_name, error_count, result >>
             /\ result = None
  BY <1>3 DEF GotoDependingOn
<1> QED
  BY <1>1, <1>2, <1>3 DEF Jumps

LEMMA JumpsRefs ==
    ASSUME IInv, Jumps
    PROVE  /\ refs \subseteq refs'
           /\ \A r \in refs' : \/ r \in refs
                               \/ r.proc = None
                               \/ r.proc = current_proc_name
<1>1. ASSUME NEW l \in LabelName, NEW n \in Lengths, EmitJump(l, n)
      PROVE  /\ refs \subseteq refs'
             /\ \A r \in refs' : r \in refs \/ r.proc = None \/ r.proc = current_proc_name
  <2>1. \/ refs' = refs
        \/ \E at : refs' = refs \cup {[at |-> at, label |-> l, proc |-> current_proc_name]}
    BY <1>1 DEF EmitJump
  <2> QED
    BY <2>1
<1>2. ASSUME NEW q \in ProcName, NEW n \in Lengths, GenProcCall(q, n)
      PROVE  /\ refs \subseteq refs'
             /\ \A r \in refs' : r \in refs \/ r.proc = None \/ r.proc = current_proc_name
  <2>1. \/ refs' = refs
        \/ \E at : refs' = refs \cup {[at |-> at, label |-> q, proc |-> None]}
    BY <1>2 DEF GenProcCall
  <2> QED
    BY <2>1
<1>3. ASSUME NEW k \in 1 .. MaxTargets, NEW ls \in [1 .. k -> LabelName],
             NEW n \in Lengths, GotoDependingOn(k, ls, n)
      PROVE  /\ refs \subseteq refs'
             /\ \A r \in refs' : r \in refs \/ r.proc = None \/ r.proc = current_proc_name
  BY <1>3 DEF GotoDependingOn
<1> QED
  BY <1>1, <1>2, <1>3 DEF Jumps

RInv == JInv /\ LabelsExact /\ NoneLeft

LEMMA RInvInit == Init => RInv
  BY InitInv, InitJ DEF Init, Empty, RInv, JInv, LabelsExact, NoneLeft

LEMMA RInvStep == ASSUME RInv, [Next]_vars PROVE RInv'
<1>1. JInv'
  BY NextJ DEF RInv
<1>2. ASSUME NEW q \in ProcName, BeginProc(q) PROVE LabelsExact' /\ NoneLeft'
  <2>1. /\ q \notin begun /\ current_proc_name' = q /\ current_proc_name = None
        /\ UNCHANGED << where, refs >> /\ error_count' \in {error_count, error_count + 1}
    BY <1>2 DEF BeginProc
  <2>2. LabelsExact'
    BY <2>1 DEF LabelsExact, RInv, JInv, IInv, NamesOK
  <2>3. NoneLeft'
    BY <2>1 DEF NoneLeft, RInv, JInv, IInv, CountersType
  <2> QED
    BY <2>2, <2>3
<1>3. ASSUME NEW n \in Lengths, EmitCode(n) PROVE LabelsExact' /\ NoneLeft'
  BY <1>3 DEF EmitCode, LabelsExact, NoneLeft, RInv
<1>4. ASSUME Jumps PROVE LabelsExact' /\ NoneLeft'
  <2>1. UNCHANGED << labels, where, current_proc_name, error_count >>
    BY <1>4, JumpsLeave
  <2>2. \A r \in refs' : r \in refs \/ r.proc = None \/ r.proc = current_proc_name
    BY <1>4, JumpsRefs DEF RInv, JInv
  <2> QED
    BY <2>1, <2>2 DEF LabelsExact, NoneLeft, RInv
<1>5. ASSUME NEW l \in LabelName, DefineLabel(l) PROVE LabelsExact' /\ NoneLeft'
  <2>1. /\ current_proc_name # None /\ UNCHANGED current_proc_name
        /\ refs' \subseteq refs /\ error_count' \in {error_count, error_count + 1}
    BY <1>5 DEF DefineLabel
  <2>2. \/ labels' = labels /\ where' = where
        \/ /\ labels' = Put(labels, l, size)
           /\ where' = Put(where, << current_proc_name, l >>, size)
    BY <1>5 DEF DefineLabel
  <2>3. LabelsExact'
    BY <2>1, <2>2 DEF LabelsExact, RInv, Put
  <2>4. NoneLeft'
    BY <2>1 DEF NoneLeft, RInv, JInv, IInv, CountersType
  <2> QED
    BY <2>3, <2>4
<1>6. ASSUME EndProc PROVE LabelsExact' /\ NoneLeft'
  <2>1. /\ current_proc_name # None /\ current_proc_name' = None
        /\ UNCHANGED << refs, error_count, labels, site >>
        /\ \A p \in DOMAIN site : site[p].proc = current_proc_name => site[p].to \in named
    BY <1>6 DEF EndProc
  <2>2. NoneLeft'
    <3> SUFFICES ASSUME error_count = 0, NEW r \in refs, r.proc = current_proc_name
                 PROVE  FALSE
      BY <2>1 DEF NoneLeft, RInv
    <3>1. r.label \in named
      BY <2>1 DEF RInv, JInv, IInv, RefsOK
    <3>2. r.label \in DOMAIN labels
      BY <2>1, <3>1 DEF RInv, JInv, NothingLost
    <3> QED
      BY <2>1, <3>2 DEF RInv, JInv, IInv, PendingOK
  <2> QED
    BY <2>1, <2>2 DEF LabelsExact
<1>7. ASSUME NEW outcome \in Outcomes, Finish(outcome) PROVE LabelsExact' /\ NoneLeft'
  <2>1. /\ UNCHANGED << refs, labels, where, current_proc_name >>
        /\ error_count' \in {error_count, error_count + 1}
    BY <1>7 DEF Finish
  <2>2. NoneLeft'
    BY <2>1 DEF NoneLeft, RInv, JInv, IInv, CountersType
  <2> QED
    BY <2>1, <2>2 DEF LabelsExact, RInv
<1>8. ASSUME UNCHANGED vars PROVE LabelsExact' /\ NoneLeft'
  BY <1>8 DEF vars, LabelsExact, NoneLeft, RInv
<1> QED
  BY <1>1, <1>2, <1>3, <1>4, <1>5, <1>6, <1>7, <1>8 DEF Next, Jumps, RInv

LEMMA RInvHolds == Spec => []RInv
  BY RInvInit, RInvStep, PTL DEF Spec

-----------------------------------------------------------------------------
\* A jump that no longer waits leads where the abstract linker has it arrive.
LEMMA GoesBound ==
    ASSUME NEW p \in DOMAIN site, Lands(p), ~ Waiting(p)
    PROVE  Abstract!Known(site[p]) /\ Goes(p) = Abstract!Arrives(p, site[p])
<1>1. IsKnown(site[p]) /\ Abstract!Known(site[p])
  BY DEF Lands, IsKnown, Abstract!Known
<1>2. Abstract!Target(site[p]) = Intended(site[p])
  BY DEF Abstract!Target, Intended
<1>3. Abstract!InReach(p, site[p]) <=> Fits(p)
  BY <1>2 DEF Abstract!InReach, Fits
<1> QED
  BY <1>1, <1>2, <1>3 DEF Goes, Abstract!Arrives, Abstract!Lost, Lands

LEMMA GoesBoundAfter ==
    ASSUME NEW p, p \in DOMAIN site', Lands(p)', ~ Waiting(p)'
    PROVE  Goes(p)' = Abstract!Arrives(p, site[p])'
<1>1. IsKnown(site[p])'
  BY DEF Lands
<1>2. Abstract!Target(site[p])' = Intended(site[p])'
  BY DEF Abstract!Target, Intended
<1>3. Abstract!InReach(p, site[p])' <=> Fits(p)'
  BY <1>2 DEF Abstract!InReach, Fits
<1> QED
  BY <1>1, <1>2, <1>3 DEF Goes, Abstract!Arrives, Abstract!Lost, Lands

LEMMA GoesSame ==
    ASSUME RInv, [Next]_vars, NEW p \in DOMAIN site, result = None,
           PlacesKept, site'[p] = site[p],
           Pending(p)' <=> Pending(p), Waiting(p)' <=> Pending(p)
    PROVE  Goes(p)' = Goes(p)
<1>1. CASE Pending(p)
  BY <1>1 DEF Goes, Waiting
<1>2. CASE ~ Pending(p)
  <2>1. p \in DOMAIN word
    BY DEF RInv, JInv, IInv, WordsType
  <2>2. word'[p] = word[p]
    BY <1>2, <2>1, BoundStays DEF RInv, JInv
  <2>3. Lands(p)
    BY <1>2 DEF RInv, JInv, IInv, NoJumpAstray, Waits, Pending
  <2>4. IsKnown(site[p])' /\ IsKnown(site[p]) /\ Intended(site[p])' = Intended(site[p])
    BY <2>3 DEF IsKnown, Intended, PlacesKept, Lands
  <2>5. Landing(p)' = Landing(p)
    BY <2>2 DEF Landing
  <2>6. Fits(p)' <=> Fits(p)
    BY <2>4 DEF Fits
  <2> QED
    BY <1>2, <2>4, <2>5, <2>6 DEF Goes, Waiting
<1> QED
  BY <1>1, <1>2

\* The abstract variable goes, before and after a step.
AllGoes == [p \in DOMAIN site |-> Goes(p)]

\* A step that leaves jumps, references and places alone is no step of the
\* linker.
LEMMA Idle ==
    ASSUME RInv, [Next]_vars, result = None,
           UNCHANGED << result, site, refs, proc_defs, where >>
    PROVE  UNCHANGED Abstract!lvars
<1>1. ASSUME NEW p \in DOMAIN site PROVE Goes(p)' = Goes(p)
  BY <1>1, GoesSame DEF PlacesKept, Pending, Waiting
<1>2. AllGoes' = AllGoes
  BY <1>1 DEF AllGoes
<1> QED
  BY <1>2 DEF Abstract!lvars, AllGoes
-----------------------------------------------------------------------------
\* Of the jumps a step writes, those wait whose name has no place yet.
NewWait == \A p \in DOMAIN site' : p \notin DOMAIN site => (Pending(p)' <=> ~ IsKnown(site[p])')
OldWait == \A p \in DOMAIN site : Pending(p)' <=> Pending(p)

LEMMA JumpsWait == ASSUME RInv, Jumps PROVE NewWait /\ OldWait
<1> USE DEF RInv, JInv, IInv
<1>0. \A r \in refs : r.at \in DOMAIN site
  BY DEF RefsOK
<1>1. \A l \in LabelName : l \in DOMAIN labels <=> << current_proc_name, l >> \in DOMAIN where
  <2>1. current_proc_name # None
    BY DEF Jumps, EmitJump, GenProcCall, GotoDependingOn
  <2> QED
    BY <2>1 DEF LabelsExact, LabelsOK
<1>2. ASSUME NEW l \in LabelName, NEW n \in Lengths, EmitJump(l, n)
      PROVE  NewWait /\ OldWait
  <2>1. PICK at : at = size + n
    OBVIOUS
  <2>2. at \notin DOMAIN site
    BY <2>1, CodegenAssumption DEF CountersType, SitesOK
  <2>3. /\ DOMAIN site' = DOMAIN site \cup {at}
        /\ site'[at] = [to |-> l, proc |-> current_proc_name, base |-> at + 2]
        /\ current_proc_name # None /\ where' = where
    BY <1>2, <2>1 DEF EmitJump, Put
  <2>4. refs' = IF l \in DOMAIN labels THEN refs
                ELSE refs \cup {[at |-> at, label |-> l, proc |-> current_proc_name]}
    BY <1>2, <2>1 DEF EmitJump
  <2>5. OldWait
    BY <1>0, <2>2, <2>4 DEF OldWait, Pending
  <2>6. Pending(at)' <=> l \notin DOMAIN labels
    <3>1. ASSUME l \notin DOMAIN labels PROVE Pending(at)'
      <4>1. [at |-> at, label |-> l, proc |-> current_proc_name] \in refs'
        BY <2>4, <3>1
      <4> QED
        BY <4>1 DEF Pending
    <3>2. ASSUME l \in DOMAIN labels PROVE ~ Pending(at)'
      BY <1>0, <2>2, <2>4, <3>2 DEF Pending
    <3> QED
      BY <3>1, <3>2
  <2>7. IsKnown(site[at])' <=> l \in DOMAIN labels
    BY <1>1, <2>3 DEF IsKnown
  <2> QED
    BY <2>3, <2>5, <2>6, <2>7 DEF NewWait
<1>3. ASSUME NEW q \in ProcName, NEW n \in Lengths, GenProcCall(q, n)
      PROVE  NewWait /\ OldWait
  <2>1. PICK at : at = size + n
    OBVIOUS
  <2>2. at \notin DOMAIN site
    BY <2>1, CodegenAssumption DEF CountersType, SitesOK
  <2>3. /\ DOMAIN site' = DOMAIN site \cup {at}
        /\ site'[at] = [to |-> q, proc |-> None, base |-> at + 2]
        /\ proc_defs' = proc_defs
    BY <1>3, <2>1 DEF GenProcCall, Put
  <2>4. refs' = IF q \in DOMAIN proc_defs THEN refs
                ELSE refs \cup {[at |-> at, label |-> q, proc |-> None]}
    BY <1>3, <2>1 DEF GenProcCall
  <2>5. OldWait
    BY <1>0, <2>2, <2>4 DEF OldWait, Pending
  <2>6. Pending(at)' <=> q \notin DOMAIN proc_defs
    <3>1. ASSUME q \notin DOMAIN proc_defs PROVE Pending(at)'
      <4>1. [at |-> at, label |-> q, proc |-> None] \in refs'
        BY <2>4, <3>1
      <4> QED
        BY <4>1 DEF Pending
    <3>2. ASSUME q \in DOMAIN proc_defs PROVE ~ Pending(at)'
      BY <1>0, <2>2, <2>4, <3>2 DEF Pending
    <3> QED
      BY <3>1, <3>2
  <2>7. IsKnown(site[at])' <=> q \in DOMAIN proc_defs
    BY <2>3 DEF IsKnown
  <2> QED
    BY <2>3, <2>5, <2>6, <2>7 DEF NewWait
<1>4. ASSUME NEW k \in 1 .. MaxTargets, NEW ls \in [1 .. k -> LabelName],
             NEW n \in Lengths, GotoDependingOn(k, ls, n)
      PROVE  NewWait /\ OldWait
  <2>1. PICK E : E = {size + n + 2 * (i - 1) : i \in 1 .. k}
    OBVIOUS
  <2>2. ASSUME NEW p \in E
        PROVE  p \notin DOMAIN site /\ ls[1 + (p - (size + n)) \div 2] \in LabelName
    <3>1. PICK i \in 1 .. k : p = size + n + 2 * (i - 1)
      BY <2>1
    <3>2. size \in Nat /\ n \in Nat /\ k \in Nat /\ i \in Nat /\ 1 <= i /\ i <= k
      BY CodegenAssumption DEF CountersType
    <3>3. p \in Nat /\ size <= p /\ 1 + (p - (size + n)) \div 2 = i
      BY <3>1, <3>2
    <3> QED
      BY <3>2, <3>3 DEF SitesOK
  <2>3. /\ DOMAIN site' = DOMAIN site \cup E
        /\ \A p \in E : /\ site'[p].to = ls[1 + (p - (size + n)) \div 2]
                        /\ site'[p].proc = current_proc_name
        /\ current_proc_name # None /\ where' = where
    BY <1>4, <2>1 DEF GotoDependingOn
  <2>4. refs' = refs \cup {[at |-> p, label |-> ls[1 + (p - (size + n)) \div 2],
                            proc |-> current_proc_name] :
                  p \in {q \in E : ls[1 + (q - (size + n)) \div 2] \notin DOMAIN labels}}
    BY <1>4, <2>1 DEF GotoDependingOn
  <2>5. OldWait
    BY <1>0, <2>2, <2>4 DEF OldWait, Pending
  <2>6. ASSUME NEW p \in E
        PROVE  Pending(p)' <=> site'[p].to \notin DOMAIN labels
    <3>1. site'[p].to = ls[1 + (p - (size + n)) \div 2]
      BY <2>3
    <3>2. ASSUME site'[p].to \notin DOMAIN labels PROVE Pending(p)'
      <4>1. [at |-> p, label |-> ls[1 + (p - (size + n)) \div 2],
             proc |-> current_proc_name] \in refs'
        BY <2>4, <3>1, <3>2
      <4> QED
        BY <4>1 DEF Pending
    <3>3. ASSUME site'[p].to \in DOMAIN labels PROVE ~ Pending(p)'
      BY <1>0, <2>2, <2>4, <3>1, <3>3 DEF Pending
    <3> QED
      BY <3>2, <3>3
  <2>7. ASSUME NEW p \in E
        PROVE  IsKnown(site[p])' <=> site'[p].to \in DOMAIN labels
    BY <1>1, <2>2, <2>3 DEF IsKnown
  <2> QED
    BY <2>3, <2>5, <2>6, <2>7 DEF NewWait
<1> QED
  BY <1>2, <1>3, <1>4 DEF Jumps

-----------------------------------------------------------------------------
LEMMA JumpsWrite == ASSUME RInv, Jumps PROVE Abstract!Write
<1>1. /\ UNCHANGED << proc_defs, where, result, error_count >> /\ result = None
  BY JumpsLeave
<1>2. Frame
  BY JumpsFrame DEF RInv, JInv
<1>3. [Next]_vars
  BY DEF Jumps, Next
<1>4. IInv'
  BY <1>3, NextInv DEF RInv, JInv
<1>5. ASSUME NEW p \in DOMAIN site PROVE Goes(p)' = Goes(p)
  BY <1>1, <1>2, <1>3, JumpsWait, GoesSame DEF OldWait, Frame, PlacesKept, Waiting
<1>6. ASSUME NEW p \in DOMAIN site', p \notin DOMAIN site
      PROVE  Goes(p)' = IF Abstract!Known(site'[p]) THEN Abstract!Arrives(p, site'[p])
                        ELSE Abstract!Open
  <2>1. Waiting(p)' <=> ~ IsKnown(site[p])'
    BY <1>1, <1>6, JumpsWait DEF NewWait, Waiting
  <2>2. IsKnown(site[p])' <=> Abstract!Known(site'[p])
    BY <1>1 DEF IsKnown, Abstract!Known
  <2>3. CASE IsKnown(site[p])'
    <3>1. Lands(p)'
      <4>1. ~ Pending(p)'
        BY <1>1, <2>1, <2>3 DEF Waiting
      <4>2. ~ Waits(p)'
        BY <4>1 DEF Waits, Pending
      <4> QED
        BY <1>4, <1>6, <4>2 DEF IInv, NoJumpAstray
    <3>2. Goes(p)' = Abstract!Arrives(p, site[p])'
      BY <1>6, <2>1, <2>3, <3>1, GoesBoundAfter
    <3>3. Abstract!Arrives(p, site[p])' = Abstract!Arrives(p, site'[p])
      BY <1>1 DEF Abstract!Arrives, Abstract!InReach, Abstract!Target, Abstract!Lost
    <3> QED
      BY <2>2, <2>3, <3>2, <3>3
  <2>4. CASE ~ IsKnown(site[p])'
    BY <2>1, <2>2, <2>4 DEF Goes, Abstract!Open
  <2> QED
    BY <2>3, <2>4
<1>7. AllGoes' = [p \in DOMAIN site' |->
                    IF p \in DOMAIN site THEN AllGoes[p]
                    ELSE IF Abstract!Known(site'[p]) THEN Abstract!Arrives(p, site'[p])
                    ELSE Abstract!Open]
  BY <1>5, <1>6 DEF AllGoes
<1> QED
  BY <1>1, <1>2, <1>7 DEF Abstract!Write, AllGoes, Frame

LEMMA BeginProcEnters ==
    ASSUME RInv, NEW q \in ProcName, BeginProc(q)
    PROVE  Abstract!Enter(q) \/ UNCHANGED Abstract!lvars
<1>1. /\ result = None /\ UNCHANGED << result, site, refs, where >> /\ q \notin DOMAIN proc_defs
  BY DEF BeginProc, RInv, JInv, IInv, NamesOK
<1>2. [Next]_vars
  BY DEF Next
<1>3. CASE proc_defs' = proc_defs
  BY <1>1, <1>2, <1>3, Idle
<1>4. CASE proc_defs' = Put(proc_defs, q, size)
  <2>1. /\ DOMAIN proc_defs' = DOMAIN proc_defs \cup {q}
        /\ \A o \in DOMAIN proc_defs : proc_defs'[o] = proc_defs[o]
    BY <1>1, <1>4 DEF Put
  <2>2. ASSUME NEW p \in DOMAIN site PROVE Goes(p)' = Goes(p)
    BY <1>1, <1>2, <2>1, GoesSame DEF PlacesKept, Pending, Waiting
  <2>3. AllGoes' = AllGoes
    BY <1>1, <2>2 DEF AllGoes
  <2> QED
    BY <1>1, <2>1, <2>3 DEF Abstract!Enter, AllGoes
<1> QED
  BY <1>3, <1>4 DEF BeginProc

LEMMA DefineLabelMeets ==
    ASSUME RInv, NEW l \in LabelName, DefineLabel(l)
    PROVE  Abstract!Meet(<< current_proc_name, l >>) \/ UNCHANGED Abstract!lvars
<1> USE DEF RInv, JInv, IInv
<1>1. /\ result = None /\ UNCHANGED << result, site, proc_defs, current_proc_name >>
      /\ current_proc_name # None
      /\ << current_proc_name, l >> \notin DOMAIN where
  BY DEF DefineLabel, NamesOK
<1>2. [Next]_vars /\ IInv'
  BY DefineLabelInv DEF Next
<1>3. CASE UNCHANGED << refs, where >>
  BY <1>1, <1>2, <1>3, Idle
<1>4. CASE /\ where' = Put(where, << current_proc_name, l >>, size)
           /\ refs' = {r \in refs : ~ Resolves(r, l)}
  <2> DEFINE x == << current_proc_name, l >>
             Mine(p) == site[p].proc # None /\ << site[p].proc, site[p].to >> = x
  <2>1. /\ DOMAIN where' = DOMAIN where \cup {x}
        /\ \A y \in DOMAIN where : where'[y] = where[y]
        /\ where'[x] = size
    BY <1>1, <1>4 DEF Put
  <2>2. ASSUME NEW p \in DOMAIN site, Mine(p)
        PROVE  Goes(p)' = Abstract!Arrives(p, site[p])'
    <3>1. ~ Pending(p)'
      BY <1>4, <2>2 DEF Pending, Resolves, RefsOK
    <3>2. Lands(p)'
      BY <1>1, <1>2, <3>1 DEF NoJumpAstray, Waits, Pending
    <3> QED
      BY <1>1, <3>1, <3>2, GoesBoundAfter DEF Waiting
  <2>3. ASSUME NEW p \in DOMAIN site, ~ Mine(p)
        PROVE  Goes(p)' = Goes(p)
    <3>1. Pending(p)' <=> Pending(p)
      BY <1>1, <1>4, <2>3 DEF Pending, Resolves, RefsOK
    <3> QED
      BY <1>1, <1>2, <2>1, <3>1, GoesSame DEF PlacesKept, Waiting
  <2>4. AllGoes' = [p \in DOMAIN site |->
                      IF Mine(p) THEN Abstract!Arrives(p, site[p])' ELSE AllGoes[p]]
    BY <1>1, <2>2, <2>3 DEF AllGoes
  <2> QED
    BY <1>1, <2>1, <2>4 DEF Abstract!Meet, AllGoes
<1> QED
  BY <1>3, <1>4 DEF DefineLabel

LEMMA FinishCloses ==
    ASSUME RInv, NEW outcome \in Outcomes, Finish(outcome)
    PROVE  Abstract!Close
<1> USE DEF RInv, JInv, IInv
<1>1. /\ result = None /\ result' \in {0, -1} /\ result' # None
      /\ current_proc_name = None
      /\ UNCHANGED << site, proc_defs, where, refs, begun >>
      /\ DOMAIN word = DOMAIN site
      /\ error_count' = 0 => error_count = 0
  BY CodegenAssumption DEF Finish, WordsType, CountersType
<1>2. [Next]_vars /\ JInv'
  BY FinishJ DEF Next
<1>3. \A p \in DOMAIN site : IsKnown(site[p])' = IsKnown(site[p]) /\ Pending(p)' = Pending(p)
  BY <1>1 DEF IsKnown, Pending
<1>4. ASSUME NEW p \in DOMAIN site, site[p].proc = None, IsKnown(site[p])
      PROVE  Goes(p)' = Abstract!Arrives(p, site[p])
  <2>1. Lands(p)'
    BY <1>4, FinishBinds DEF IsKnown
  <2>2. ~ Waiting(p)'
    BY <1>1, <1>3, <1>4 DEF Waiting
  <2>3. Goes(p)' = Abstract!Arrives(p, site[p])'
    BY <1>1, <2>1, <2>2, GoesBoundAfter
  <2> QED
    BY <1>1, <2>3 DEF Abstract!Arrives, Abstract!InReach, Abstract!Target, Abstract!Lost
<1>5. ASSUME NEW p \in DOMAIN site, ~ (site[p].proc = None /\ IsKnown(site[p]))
      PROVE  Goes(p)' = Goes(p)
  BY <1>1, <1>2, <1>3, <1>5, GoesSame DEF PlacesKept, Waiting
<1>6. AllGoes' = [p \in DOMAIN site |->
                    IF site[p].proc = None /\ Abstract!Known(site[p])
                    THEN Abstract!Arrives(p, site[p]) ELSE AllGoes[p]]
  BY <1>1, <1>4, <1>5 DEF AllGoes, Abstract!Known, IsKnown
<1>7. ASSUME error_count' = 0, NEW p \in DOMAIN site, site[p].proc # None
      PROVE  Abstract!Known(site[p]) /\ Goes(p)' = Abstract!Arrives(p, site[p])
  <2>1. Lands(p) /\ ~ Pending(p)
    <3>1. Lands(p)
      BY <1>1, <1>7 DEF FinishedBound
    <3>2. ~ Pending(p)
      BY <1>1, <1>7 DEF NoneLeft, Pending, RefsOK
    <3> QED
      BY <3>1, <3>2
  <2>2. Goes(p) = Abstract!Arrives(p, site[p]) /\ Abstract!Known(site[p])
    BY <2>1, GoesBound DEF Waiting
  <2> QED
    BY <1>5, <1>7, <2>2
<1>8. error_count' = 0 =>
        \A p \in DOMAIN site :
           \/ Abstract!Known(site[p]) /\ AllGoes'[p] = Abstract!Arrives(p, site[p])
           \/ site[p].proc = None
  BY <1>1, <1>7 DEF AllGoes
<1> QED
  BY <1>1, <1>6, <1>8 DEF Abstract!Close, AllGoes

\* For every program, any size of the tables and of the code, the generator
\* implements the abstract linker.
THEOREM CodegenLinks == Spec => LinksAsPromised
<1>1. Init => Abstract!LInit
  BY DEF Init, Empty, Abstract!LInit
<1>2. ASSUME RInv, [Next]_vars PROVE [Abstract!LNext]_(Abstract!lvars)
  <2>1. CASE Jumps
    BY <1>2, <2>1, JumpsWrite DEF Abstract!LNext
  <2>2. ASSUME NEW q \in ProcName, BeginProc(q) PROVE [Abstract!LNext]_(Abstract!lvars)
    BY <1>2, <2>2, BeginProcEnters DEF Abstract!LNext, Abstract!Enter
  <2>3. ASSUME NEW n \in Lengths, EmitCode(n) PROVE [Abstract!LNext]_(Abstract!lvars)
    BY <1>2, <2>3, Idle DEF EmitCode
  <2>4. ASSUME NEW l \in LabelName, DefineLabel(l) PROVE [Abstract!LNext]_(Abstract!lvars)
    BY <1>2, <2>4, DefineLabelMeets DEF Abstract!LNext, Abstract!Meet
  <2>5. CASE EndProc
    BY <1>2, <2>5, Idle DEF EndProc
  <2>6. ASSUME NEW outcome \in Outcomes, Finish(outcome) PROVE [Abstract!LNext]_(Abstract!lvars)
    BY <1>2, <2>6, FinishCloses DEF Abstract!LNext
  <2>7. CASE UNCHANGED vars
    BY <2>7 DEF vars, Abstract!lvars, Goes, Waiting, Pending, IsKnown, Fits, Intended, Landing
  <2> QED
    BY <1>2, <2>1, <2>2, <2>3, <2>4, <2>5, <2>6, <2>7 DEF Next, Jumps
<1> QED
  BY <1>1, <1>2, RInvHolds, PTL DEF Spec, LinksAsPromised, Abstract!LSpec
-----------------------------------------------------------------------------

\* The procedure being emitted is the last one; the labels of a procedure
\* that is in the table lie behind its entry and not behind a later one.
LastIsCurrent ==
    current_proc_name \in DOMAIN proc_defs =>
        \A o \in DOMAIN proc_defs : proc_defs[o] <= proc_defs[current_proc_name]
LabelsWithin ==
    \A q \in DOMAIN proc_defs, l \in LabelName :
        << q, l >> \in DOMAIN where =>
            /\ proc_defs[q] <= where[<< q, l >>]
            /\ \A o \in DOMAIN proc_defs :
                  proc_defs[o] > proc_defs[q] => where[<< q, l >>] <= proc_defs[o]

EInv == IInv /\ LastIsCurrent /\ LabelsWithin

LEMMA ExtentInit == Init => EInv
  BY InitInv DEF Init, Empty, EInv, LastIsCurrent, LabelsWithin

\* Most steps leave the two tables and the current procedure alone.
LEMMA ExtentKept ==
    ASSUME EInv, UNCHANGED << where, proc_defs >>,
           \/ current_proc_name' = current_proc_name
           \/ current_proc_name' = None
    PROVE  LastIsCurrent' /\ LabelsWithin'
<1>1. None \notin DOMAIN proc_defs
  BY CodegenAssumption DEF EInv, IInv, TablesType
<1> QED
  BY <1>1 DEF EInv, LastIsCurrent, LabelsWithin

LEMMA ExtentBegins ==
    ASSUME EInv, NEW p \in ProcName, BeginProc(p)
    PROVE  LastIsCurrent' /\ LabelsWithin'
<1>1. /\ p \notin begun /\ current_proc_name' = p /\ where' = where
      /\ proc_defs' = proc_defs \/ proc_defs' = Put(proc_defs, p, size)
  BY DEF BeginProc
<1>2. p \notin DOMAIN proc_defs /\ \A l \in LabelName : << p, l >> \notin DOMAIN where
  BY <1>1 DEF EInv, IInv, NamesOK
<1>3. CASE proc_defs' = proc_defs
  BY <1>1, <1>2, <1>3 DEF EInv, LastIsCurrent, LabelsWithin
<1>4. CASE proc_defs' = Put(proc_defs, p, size)
  <2>1. /\ DOMAIN proc_defs' = DOMAIN proc_defs \cup {p}
        /\ proc_defs'[p] = size
        /\ \A o \in DOMAIN proc_defs : proc_defs'[o] = proc_defs[o]
    BY <1>2, <1>4 DEF Put
  <2>2. /\ size \in Nat
        /\ \A o \in DOMAIN proc_defs : proc_defs[o] \in Nat /\ proc_defs[o] <= size
        /\ \A x \in DOMAIN where : where[x] \in Nat /\ where[x] <= size
    BY DEF EInv, IInv, CountersType, PlacesOK
  <2>3. LastIsCurrent'
    BY <1>1, <2>1, <2>2 DEF LastIsCurrent
  <2>4. LabelsWithin'
    <3> SUFFICES ASSUME NEW q \in DOMAIN proc_defs', NEW l \in LabelName,
                        << q, l >> \in DOMAIN where
                 PROVE  /\ proc_defs'[q] <= where[<< q, l >>]
                        /\ \A o \in DOMAIN proc_defs' :
                              proc_defs'[o] > proc_defs'[q] => where[<< q, l >>] <= proc_defs'[o]
      BY <1>1 DEF LabelsWithin
    <3>1. q \in DOMAIN proc_defs
      BY <1>2, <2>1
    <3> QED
      BY <2>1, <2>2, <3>1 DEF EInv, LabelsWithin
  <2> QED
    BY <2>3, <2>4
<1> QED
  BY <1>1, <1>3, <1>4

LEMMA ExtentDefines ==
    ASSUME EInv, NEW l \in LabelName, DefineLabel(l)
    PROVE  LastIsCurrent' /\ LabelsWithin'
<1> DEFINE c == current_proc_name
<1>1. /\ c # None /\ current_proc_name' = c /\ proc_defs' = proc_defs
      /\ where' = where \/ where' = Put(where, << c, l >>, size)
  BY DEF DefineLabel
<1>2. CASE where' = where
  BY <1>1, <1>2, ExtentKept
<1>3. CASE where' = Put(where, << c, l >>, size)
  <2>1. LastIsCurrent'
    BY <1>1 DEF EInv, LastIsCurrent
  <2>2. /\ size \in Nat
        /\ \A o \in DOMAIN proc_defs : proc_defs[o] \in Nat /\ proc_defs[o] <= size
    BY DEF EInv, IInv, CountersType, PlacesOK
  <2>3. ASSUME NEW q \in DOMAIN proc_defs, NEW m \in LabelName, << q, m >> \in DOMAIN where'
        PROVE  /\ proc_defs[q] <= where'[<< q, m >>]
               /\ \A o \in DOMAIN proc_defs :
                     proc_defs[o] > proc_defs[q] => where'[<< q, m >>] <= proc_defs[o]
    <3>1. CASE << q, m >> = << c, l >>
      <4>1. where'[<< q, m >>] = size /\ q = c
        BY <1>3, <3>1 DEF Put
      <4>2. \A o \in DOMAIN proc_defs : proc_defs[o] <= proc_defs[q]
        BY <4>1 DEF EInv, LastIsCurrent
      <4> QED
        BY <2>2, <4>1, <4>2
    <3>2. CASE << q, m >> # << c, l >>
      <4>1. << q, m >> \in DOMAIN where /\ where'[<< q, m >>] = where[<< q, m >>]
        BY <1>3, <2>3, <3>2 DEF Put
      <4> QED
        BY <4>1 DEF EInv, LabelsWithin
    <3> QED
      BY <3>1, <3>2
  <2>4. LabelsWithin'
    BY <1>1, <2>3 DEF LabelsWithin
  <2> QED
    BY <2>1, <2>4
<1> QED
  BY <1>1, <1>2, <1>3

LEMMA ExtentStep == ASSUME EInv, [Next]_vars PROVE EInv'
<1>1. IInv'
  BY NextInv DEF EInv
<1>2. ASSUME NEW p \in ProcName, BeginProc(p) PROVE LastIsCurrent' /\ LabelsWithin'
  BY <1>2, ExtentBegins
<1>3. ASSUME NEW n \in Lengths, EmitCode(n) PROVE LastIsCurrent' /\ LabelsWithin'
  BY <1>3, ExtentKept DEF EmitCode
<1>4. ASSUME Jumps PROVE LastIsCurrent' /\ LabelsWithin'
  BY <1>4, JumpsLeave, ExtentKept
<1>5. ASSUME NEW l \in LabelName, DefineLabel(l) PROVE LastIsCurrent' /\ LabelsWithin'
  BY <1>5, ExtentDefines
<1>6. ASSUME EndProc PROVE LastIsCurrent' /\ LabelsWithin'
  BY <1>6, ExtentKept DEF EndProc
<1>7. ASSUME NEW outcome \in Outcomes, Finish(outcome) PROVE LastIsCurrent' /\ LabelsWithin'
  BY <1>7, ExtentKept DEF Finish
<1>8. ASSUME UNCHANGED vars PROVE LastIsCurrent' /\ LabelsWithin'
  BY <1>8, ExtentKept DEF vars
<1> QED
  BY <1>1, <1>2, <1>3, <1>4, <1>5, <1>6, <1>7, <1>8 DEF Next, Jumps, EInv

\* A bound jump is on its label, and its label is in its procedure.
LEMMA BoundWithin == ASSUME EInv PROVE JumpsStayInProc
<1> SUFFICES ASSUME size <= 32768, NEW p \in DOMAIN site,
                    site[p].proc \in DOMAIN proc_defs, ~ Pending(p)
             PROVE  Landing(p) \in Extent(site[p].proc)
  BY DEF JumpsStayInProc
<1> DEFINE q == site[p].proc
           x == << q, site[p].to >>
<1>1. q # None /\ q \in ProcName /\ site[p].to \in LabelName
  BY CodegenAssumption DEF EInv, IInv, TablesType, SitesOK
<1>2. Lands(p)
  BY DEF EInv, IInv, NoJumpAstray, Waits, Pending
<1>3. x \in DOMAIN where /\ Intended(site[p]) = where[x]
  BY <1>1, <1>2 DEF Lands, IsKnown, Intended
<1>4. /\ size \in Nat /\ where[x] \in Nat /\ where[x] <= size
      /\ p \in Nat /\ site[p].base \in Nat /\ site[p].base <= size
  BY <1>3 DEF EInv, IInv, CountersType, PlacesOK, SitesOK
<1>5. Landing(p) = where[x]
  BY <1>2, <1>3, <1>4 DEF Lands, Fits
<1>6. /\ proc_defs[q] \in Nat
      /\ proc_defs[q] <= where[x]
      /\ \A o \in DOMAIN proc_defs : proc_defs[o] > proc_defs[q] => where[x] <= proc_defs[o]
  BY <1>1, <1>3 DEF EInv, LabelsWithin, IInv, PlacesOK
<1> QED
  BY <1>4, <1>5, <1>6 DEF Extent

\* In code of at most 32768 bytes, whatever labels two procedures share and
\* however full the tables are, a jump that has found its label stays in the
\* procedure it was written in (define_label, lookup_label, gen_proc).
THEOREM JumpsNeverLeave == Spec => []JumpsStayInProc
<1>1. Init => EInv
  BY ExtentInit
<1>2. EInv /\ [Next]_vars => EInv'
  BY ExtentStep
<1>3. EInv => JumpsStayInProc
  BY BoundWithin
<1> QED
  BY <1>1, <1>2, <1>3, PTL DEF Spec
=============================================================================
