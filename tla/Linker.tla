------------------------------- MODULE Linker -------------------------------
(***************************************************************************)
(* What the linking of a compiler promises, without saying how: a jump is  *)
(* written for a name; it is bound in the very step in which the place of  *)
(* that name becomes known (at once if it is known already), a call in the *)
(* last step; and what is bound never moves.  Codegen, with its tables,    *)
(* its list of forward references and its patched words, implements it.    *)
(*                                                                         *)
(* A jump whose distance no word can hold is bound to Lost: the generator  *)
(* cuts the distance to sixteen bits and says nothing.                     *)
(***************************************************************************)
EXTENDS Integers

CONSTANT None           \* the procedure of a call; the place of an open jump

VARIABLES
    jump,               \* position -> what was to be reached
    entry,              \* procedure -> where it begins
    place,              \* <<procedure, label>> -> where it is
    goes,               \* position -> where the jump leads
    status              \* "open", "linked" or "failed"

lvars == << jump, entry, place, goes, status >>

Open == None
Lost == -1

Known(j) == IF j.proc = None THEN j.to \in DOMAIN entry
                             ELSE << j.proc, j.to >> \in DOMAIN place
Target(j) == IF j.proc = None THEN entry[j.to] ELSE place[<< j.proc, j.to >>]

\* A 16-bit distance counts forward from the end of its word, backward from
\* the base of the jump.
InReach(p, j) == Target(j) - (p + 2) <= 32767 /\ Target(j) - j.base >= -32768
Arrives(p, j) == IF InReach(p, j) THEN Target(j) ELSE Lost

LInit ==
    /\ jump = [x \in {} |-> 0] /\ entry = [x \in {} |-> 0]
    /\ place = [x \in {} |-> 0] /\ goes = [x \in {} |-> 0]
    /\ status = "open"

\* New jumps, each bound if the place of its name is known.
Write ==
    /\ status = "open"
    /\ UNCHANGED << entry, place, status >>
    /\ \A p \in DOMAIN jump : p \in DOMAIN jump' /\ jump'[p] = jump[p]
    /\ goes' = [p \in DOMAIN jump' |-> IF p \in DOMAIN jump THEN goes[p]
                                       ELSE IF Known(jump'[p]) THEN Arrives(p, jump'[p])
                                       ELSE Open]

\* A procedure begins; the calls to it stay open.
Enter(q) ==
    /\ status = "open"
    /\ UNCHANGED << jump, place, goes, status >>
    /\ q \notin DOMAIN entry /\ DOMAIN entry' = DOMAIN entry \cup {q}
    /\ \A o \in DOMAIN entry : entry'[o] = entry[o]

\* A label is met: every jump to it, and no other, is bound.
Meet(x) ==
    /\ status = "open"
    /\ UNCHANGED << jump, entry, status >>
    /\ x \notin DOMAIN place /\ DOMAIN place' = DOMAIN place \cup {x}
    /\ \A y \in DOMAIN place : place'[y] = place[y]
    /\ goes' = [p \in DOMAIN jump |->
                  IF jump[p].proc # None /\ << jump[p].proc, jump[p].to >> = x
                  THEN Arrives(p, jump[p])' ELSE goes[p]]

\* The calls are bound.  The program counts as linked only if no jump is
\* open but the calls to procedures it does not have.
Close ==
    /\ status = "open" /\ status' \in {"linked", "failed"}
    /\ UNCHANGED << jump, entry, place >>
    /\ goes' = [p \in DOMAIN jump |-> IF jump[p].proc = None /\ Known(jump[p])
                                      THEN Arrives(p, jump[p]) ELSE goes[p]]
    /\ status' = "linked" =>
         \A p \in DOMAIN jump :
            \/ Known(jump[p]) /\ goes'[p] = Arrives(p, jump[p])
            \/ jump[p].proc = None

LNext ==
    \/ Write
    \/ \E q \in DOMAIN entry' : Enter(q)
    \/ \E x \in DOMAIN place' : Meet(x)
    \/ Close

LSpec == LInit /\ [][LNext]_lvars
=============================================================================
