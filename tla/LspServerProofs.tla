--------------------------- MODULE LspServerProofs ---------------------------
(***************************************************************************)
(* The language server, for any files, texts, answers and number of        *)
(* messages: its lifecycle and its requests for the configuration; that    *)
(* what it shows of the documents is fresh; what references and rename     *)
(* find.                                                                   *)
(***************************************************************************)
EXTENDS LspServer, FiniteSetTheorems, SequenceTheorems, TLAPS

\* While an answer is waited for, none so new has been applied.
RequestsOK ==
    /\ next_request_id \in Nat /\ applied \in Nat
    /\ applied <= next_request_id
    /\ pending => applied < next_request_id
    /\ unanswered \subseteq 1 .. next_request_id

\* While the process runs, state tells what the client has asked for.
StateOK ==
    exit = None =>
        /\ state = "shutdown" => stopped = "shutdown"
        /\ stopped = "shutdown" => state \in {"shutdown", "running"}

ServerInv == RequestsOK /\ StateOK

-----------------------------------------------------------------------------
(* What the steps leave alone.                                             *)

\* The store, the index and the parses are all a message about a document changes.
LEMMA DocumentMessageFrame ==
    ASSUME DocumentMessage
    PROVE  Running /\ UNCHANGED << session, paths, style, pending >>
  BY DEF DocumentMessage, DidOpen, DidChange, DidSave, DidClose

LEMMA RenameFrame ==
    ASSUME NEW f \in Files, NEW n \in Names, Rename(f, n)
    PROVE  Running /\ UNCHANGED << documents, content, parent, paths, style, pending, session >>
  BY DEF Rename

LEMMA ReferencesFrame ==
    ASSUME NEW f \in Files, NEW n \in Names, References(f, n)
    PROVE  Running /\ UNCHANGED << vars, session >>
  BY DEF References

\* An answer changes the configuration only when it is the one waited for.
LEMMA ResponseFrame ==
    ASSUME NEW id \in unanswered, NEW c \in Configurations, Response(id, c)
    PROVE  /\ unanswered' = unanswered \ {id}
           /\ UNCHANGED << state, supports, next_request_id, stopped, exit >>
           /\ \/ UNCHANGED << vars, applied >>
              \/ pending /\ ~ pending' /\ id = next_request_id /\ applied' = id
  BY DEF Response, ConfigurationResponse

-----------------------------------------------------------------------------
LEMMA ServerInitInv == SInit => ServerInv
  BY DEF SInit, ServerInv, RequestsOK, StateOK

LEMMA ServerInvKept ==
    ASSUME ServerInv, UNCHANGED << session, pending >>
    PROVE  ServerInv'
<1>1. UNCHANGED << state, next_request_id, unanswered, applied, stopped, exit >>
  BY DEF session
<1>2. pending' => pending
  BY Zenon
<1> QED
  BY <1>1, <1>2 DEF ServerInv, RequestsOK, StateOK

LEMMA ServerStepInv ==
    ASSUME ServerInv, [SNext]_server_vars
    PROVE  ServerInv'
<1> USE DEF ServerInv, RequestsOK, StateOK, session
<1>1. CASE UNCHANGED server_vars
  BY <1>1, ServerInvKept DEF server_vars, vars
<1>2. CASE exit = None /\ Message
  <2>1. ASSUME NEW b \in BOOLEAN, Initialize(b) PROVE ServerInv'
    BY <1>2, <2>1 DEF Initialize, vars
  <2>2. CASE Initialized
    <3>1. CASE supports
      <4>1. next_request_id' = next_request_id + 1 /\ pending' = TRUE
        BY <2>2, <3>1 DEF Initialized
      <4>2. unanswered' = unanswered \cup {next_request_id + 1}
        BY <2>2, <3>1, <4>1 DEF Initialized
      <4> QED
        BY <1>2, <2>2, <4>1, <4>2 DEF Initialized
    <3>2. CASE ~ supports
      <4>1. pending' => pending
        BY <2>2, <3>2, Zenon DEF Initialized
      <4>2. next_request_id' = next_request_id /\ unanswered' = unanswered
        BY <2>2, <3>2 DEF Initialized
      <4> QED
        BY <1>2, <2>2, <4>1, <4>2 DEF Initialized
    <3> QED
      BY <3>1, <3>2
  <2>3. CASE Shutdown
    BY <1>2, <2>3 DEF Shutdown, vars
  <2>4. CASE Exit
    BY <1>2, <2>4, ServerAssumption DEF Exit, vars
  <2>5. CASE EndOfInput
    BY <1>2, <2>5, ServerAssumption DEF EndOfInput, vars
  <2>6. ASSUME NEW id \in unanswered, ResponseEmpty(id) PROVE ServerInv'
    BY <1>2, <2>6 DEF ResponseEmpty
  <2>7. ASSUME NEW id \in unanswered, NEW c \in Configurations, Response(id, c)
        PROVE  ServerInv'
    <3>1. /\ unanswered' = unanswered \ {id}
          /\ UNCHANGED << state, supports, next_request_id, stopped, exit >>
      BY <2>7, ResponseFrame
    <3>2. CASE UNCHANGED << vars, applied >>
      <4>1. pending' => pending
        BY <3>2, Zenon DEF vars
      <4> QED
        BY <3>1, <3>2, <4>1
    <3>3. CASE ~ pending' /\ id = next_request_id /\ applied' = id
      BY <3>1, <3>3
    <3> QED
      BY <2>7, <3>2, <3>3, ResponseFrame
  <2>8. CASE DocumentMessage
    BY <2>8, DocumentMessageFrame, ServerInvKept
  <2> QED
    BY <1>2, <2>1, <2>2, <2>3, <2>4, <2>5, <2>6, <2>7, <2>8 DEF Message
<1>3. ASSUME NEW f \in Files, NEW n \in Names, Rename(f, n) \/ References(f, n)
      PROVE  ServerInv'
  BY <1>3, RenameFrame, ReferencesFrame, ServerInvKept DEF vars
<1> QED
  BY <1>1, <1>2, <1>3 DEF SNext

LEMMA ServerInvariant == SSpec => []ServerInv
<1>1. ServerInv /\ [SNext]_server_vars => ServerInv'
  BY ServerStepInv
<1> QED
  BY ServerInitInv, <1>1, PTL DEF SSpec

-----------------------------------------------------------------------------
\* One step of the configuration, and one of the lifecycle.
Newest ==
    << paths, style >>' # << paths, style >> => applied < applied' /\ applied' = next_request_id
Lifecycle ==
    /\ << documents, content, index, parent >>' # << documents, content, index, parent >>
         => state = "running" \/ unanswered' # unanswered
    /\ exit' # exit /\ stopped' # "end" =>
         (exit' = 0 <=> stopped = "shutdown" /\ state # "running")

LEMMA NewestStep ==
    ASSUME ServerInv, [SNext]_server_vars
    PROVE  Newest
<1> USE DEF Newest, vars
<1>1. CASE UNCHANGED server_vars
  BY <1>1 DEF server_vars
<1>2. CASE Message
  <2>1. ASSUME NEW b \in BOOLEAN, Initialize(b) PROVE Newest
    BY <2>1 DEF Initialize
  <2>2. CASE Initialized \/ Shutdown \/ Exit \/ EndOfInput
    BY <2>2 DEF Initialized, Shutdown, Exit, EndOfInput
  <2>3. ASSUME NEW id \in unanswered, ResponseEmpty(id) PROVE Newest
    BY <2>3 DEF ResponseEmpty
  <2>4. ASSUME NEW id \in unanswered, NEW c \in Configurations, Response(id, c)
        PROVE  Newest
    BY <2>4, ResponseFrame DEF ServerInv, RequestsOK
  <2>5. CASE DocumentMessage
    BY <2>5, DocumentMessageFrame
  <2> QED
    BY <1>2, <2>1, <2>2, <2>3, <2>4, <2>5 DEF Message
<1>3. ASSUME NEW f \in Files, NEW n \in Names, Rename(f, n) \/ References(f, n)
      PROVE  Newest
  BY <1>3, RenameFrame, ReferencesFrame
<1> QED
  BY <1>1, <1>2, <1>3 DEF SNext

LEMMA LifecycleStep ==
    ASSUME ServerInv, [SNext]_server_vars
    PROVE  Lifecycle
<1> USE DEF Lifecycle, vars, session
<1>1. CASE UNCHANGED server_vars
  BY <1>1 DEF server_vars
<1>2. CASE exit = None /\ Message
  <2>1. ASSUME NEW b \in BOOLEAN, Initialize(b) PROVE Lifecycle
    BY <2>1 DEF Initialize
  <2>2. CASE Initialized \/ Shutdown
    BY <2>2 DEF Initialized, Shutdown
  <2>3. CASE Exit
    <3>1. exit' = 0 <=> state = "shutdown"
      BY <2>3 DEF Exit
    <3>2. state = "shutdown" <=> stopped = "shutdown" /\ state # "running"
      BY <1>2 DEF ServerInv, StateOK
    <3> QED
      BY <2>3, <3>1, <3>2 DEF Exit
  <2>4. CASE EndOfInput
    BY <2>4 DEF EndOfInput
  <2>5. ASSUME NEW id \in unanswered, ResponseEmpty(id) PROVE Lifecycle
    BY <2>5 DEF ResponseEmpty
  <2>6. ASSUME NEW id \in unanswered, NEW c \in Configurations, Response(id, c)
        PROVE  Lifecycle
    BY <2>6, ResponseFrame
  <2>7. CASE DocumentMessage
    BY <2>7, DocumentMessageFrame DEF Running
  <2> QED
    BY <1>2, <2>1, <2>2, <2>3, <2>4, <2>5, <2>6, <2>7 DEF Message
<1>3. ASSUME NEW f \in Files, NEW n \in Names, Rename(f, n) \/ References(f, n)
      PROVE  Lifecycle
  BY <1>3, RenameFrame, ReferencesFrame DEF Running
<1> QED
  BY <1>1, <1>2, <1>3 DEF SNext

-----------------------------------------------------------------------------
\* Whatever the client answers and whenever it does, a configuration that is
\* taken is that of the newest request, and none is taken twice or after that
\* of a later request.  (dispatch, pending_config_request_id)
THEOREM NewestIsTaken == SSpec => NewestConfiguration
<1>1. ServerInv /\ [SNext]_server_vars =>
          [<< paths, style >>' # << paths, style >>
              => applied < applied' /\ applied' = next_request_id]_server_vars
  BY NewestStep DEF Newest
<1> QED
  BY ServerInvariant, <1>1, PTL DEF SSpec, NewestConfiguration

\* In whatever order the client sends its messages, the documents change only
\* while the server runs or takes an answer, and the exit code tells whether
\* it was asked to shut down.  (dispatch, handle_exit)
THEOREM LifecycleKept == SSpec => OnlyWhenRunning
<1>1. ServerInv /\ [SNext]_server_vars =>
          [/\ << documents, content, index, parent >>' # << documents, content, index, parent >>
                => state = "running" \/ unanswered' # unanswered
           /\ exit' # exit /\ stopped' # "end" =>
                (exit' = 0 <=> stopped = "shutdown" /\ state # "running")]_server_vars
  BY LifecycleStep DEF Lifecycle
<1> QED
  BY ServerInvariant, <1>1, PTL DEF SSpec, OnlyWhenRunning

-----------------------------------------------------------------------------
(***************************************************************************)
(* The documents.  What follows is about LspDocs by itself: that what is   *)
(* shown is fresh, when no document is opened or closed unsaved, there is  *)
(* room for the text of every COPY file, an answer with a style has        *)
(* include paths, and what a COPY file itself copies does not change.      *)
(***************************************************************************)
Room ==
    /\ IsFiniteSet(Copies) /\ Cardinality(Copies) <= MAX_CONTENT_OVERRIDES
    /\ ~ Unsaved
    /\ \A c \in Configurations : c.paths \/ c.style = DefaultStyle
Steady == \A c \in Copies : \A t, u \in Texts[c] : t.copies = u.copies
Flat == \A c \in Copies : \A t \in Texts[c] : t.copies = {}

(***************************************************************************)
(* Induction, and the recursive functions by which the model follows COPY  *)
(* and parses the documents one after the other.                           *)
(***************************************************************************)
LEMMA Induction ==
    ASSUME NEW T, 0 \in T, \A n \in Nat : n \in T => n + 1 \in T
    PROVE  \A n \in Nat : n \in T
<1> SUFFICES ASSUME NEW n \in Nat, n \notin T PROVE FALSE
  OBVIOUS
<1> DEFINE B == {m \in Nat : m \notin T}
<1>1. PICK m \in B : \A k \in B : ~ (<< k, m >> \in OpToRel(<, Nat))
  <2>1. B \subseteq Nat /\ B # {}
    OBVIOUS
  <2> HIDE DEF B
  <2> QED
    BY <2>1, NatLessThanWellFounded, WFMin
<1>2. \A k \in B : ~ (k < m)
  BY <1>1 DEF OpToRel
<1>3. m # 0 /\ m - 1 \in Nat /\ m - 1 < m /\ (m - 1) + 1 = m
  OBVIOUS
<1>4. m - 1 \in T
  BY <1>2, <1>3
<1> QED
  BY <1>3, <1>4

\* What the COPYs of the files in v add.
More(e, v) == (UNION {Seen(e, c).copies : c \in v}) \cap Found(e)

\* h follows the COPYs N deep, from those in x.
Follows(h, e, x, N) ==
    h = [n \in 0 .. N |-> IF n = 0 THEN x ELSE h[n - 1] \cup More(e, h[n - 1])]

LEMMA WithinDefined ==
    ASSUME NEW e, NEW x, NEW N \in Nat
    PROVE  \E h : Follows(h, e, x, N)
<1> DEFINE St(v) == v \cup More(e, v)
           Eq(h, n) == h = [i \in 0 .. n |-> IF i = 0 THEN x ELSE St(h[i - 1])]
           T == {n \in Nat : \E h : Eq(h, n)}
<1> HIDE DEF St
<1>1. 0 \in T
  <2>1. Eq([i \in 0 .. 0 |-> x], 0)
    OBVIOUS
  <2> QED
    BY <2>1
<1>2. ASSUME NEW n \in Nat, n \in T PROVE n + 1 \in T
  <2>1. PICK h : Eq(h, n)
    BY <1>2
  <2>2. PICK g : g = [i \in 0 .. n + 1 |-> IF i = n + 1 THEN St(h[n]) ELSE h[i]]
    OBVIOUS
  <2>3. ASSUME NEW i \in 0 .. n + 1
        PROVE  g[i] = IF i = 0 THEN x ELSE St(g[i - 1])
    <3>1. CASE i = 0
      BY <2>1, <2>2, <3>1
    <3>2. CASE i = n + 1
      BY <2>2, <3>2
    <3>3. CASE i \in 1 .. n
      BY <2>1, <2>2, <3>3
    <3> QED
      BY <3>1, <3>2, <3>3
  <2>4. Eq(g, n + 1)
    BY <2>2, <2>3
  <2> QED
    BY <2>4
<1>3. N \in T
  <2> HIDE DEF T
  <2> QED
    BY <1>1, <1>2, Induction
<1> QED
  BY <1>3 DEF St, Follows

\* One document after the other: what Reparse makes of w for the file f.
After(w, e, f, sources, parents) ==
    IF f \in sources \/ (f \in Copies /\ w.parent[f] \in parents) THEN Reparse(w, e, f) ELSE w

\* h parses the first N documents one after the other.
Parses(h, w0, e, sources, parents, N) ==
    h = [n \in 0 .. N |-> IF n = 0 THEN w0
                          ELSE After(h[n - 1], e, e.documents[n], sources, parents)]

LEMMA ParsedDefined ==
    ASSUME NEW w0, NEW e, NEW sources, NEW parents, NEW N \in Nat
    PROVE  \E h : Parses(h, w0, e, sources, parents, N)
<1> DEFINE St(w, n) == After(w, e, e.documents[n], sources, parents)
           Eq(h, n) == h = [i \in 0 .. n |-> IF i = 0 THEN w0 ELSE St(h[i - 1], i)]
           T == {n \in Nat : \E h : Eq(h, n)}
<1> HIDE DEF St
<1>1. 0 \in T
  <2>1. Eq([i \in 0 .. 0 |-> w0], 0)
    OBVIOUS
  <2> QED
    BY <2>1
<1>2. ASSUME NEW n \in Nat, n \in T PROVE n + 1 \in T
  <2>1. PICK h : Eq(h, n)
    BY <1>2
  <2>2. PICK g : g = [i \in 0 .. n + 1 |-> IF i = n + 1 THEN St(h[n], n + 1) ELSE h[i]]
    OBVIOUS
  <2>3. ASSUME NEW i \in 0 .. n + 1
        PROVE  g[i] = IF i = 0 THEN w0 ELSE St(g[i - 1], i)
    <3>1. CASE i = 0
      BY <2>1, <2>2, <3>1
    <3>2. CASE i = n + 1
      BY <2>2, <3>2
    <3>3. CASE i \in 1 .. n
      BY <2>1, <2>2, <3>3
    <3> QED
      BY <3>1, <3>2, <3>3
  <2>4. Eq(g, n + 1)
    BY <2>2, <2>3
  <2> QED
    BY <2>4
<1>3. N \in T
  <2> HIDE DEF T
  <2> QED
    BY <1>1, <1>2, Induction
<1> QED
  BY <1>3 DEF St, Parses

(***************************************************************************)
(* The files a source reads.                                               *)
(***************************************************************************)
LEMMA FollowsSteps ==
    ASSUME NEW h, NEW e, NEW x, NEW N \in Nat, Follows(h, e, x, N)
    PROVE  h[0] = x /\ \A n \in 1 .. N : h[n] = h[n - 1] \cup More(e, h[n - 1])
<1>1. \A n \in 0 .. N : h[n] = IF n = 0 THEN x ELSE h[n - 1] \cup More(e, h[n - 1])
  BY Zenon DEF Follows
<1>2. 0 \in 0 .. N /\ \A n \in 1 .. N : n \in 0 .. N /\ n # 0
  OBVIOUS
<1> QED
  BY <1>1, <1>2, Zenon

LEMMA ReachedSteps ==
    ASSUME IsFiniteSet(Copies), NEW e, NEW s
    PROVE  \E h : \E N \in Nat : /\ N = Cardinality(Copies) /\ Reached(e, s) = h[N]
                                 /\ Follows(h, e, Buffer(e, s).copies \cap Found(e), N)
<1>1. PICK N \in Nat : N = Cardinality(Copies)
  BY FS_CardinalityType
<1>2. PICK x : x = Buffer(e, s).copies \cap Found(e)
  OBVIOUS
<1>3. \E h : Follows(h, e, x, N)
  BY WithinDefined
<1>4. Reached(e, s) = (CHOOSE h : Follows(h, e, x, N))[N]
  BY <1>1, <1>2 DEF Reached, More, Follows
<1>5. PICK h : Follows(h, e, x, N) /\ Reached(e, s) = h[N]
  BY <1>3, <1>4, Zenon
<1> QED
  BY <1>1, <1>2, <1>5

LEMMA ReachedIsFound ==
    ASSUME IsFiniteSet(Copies), NEW e, NEW s
    PROVE  Reached(e, s) \subseteq Found(e) /\ Found(e) \subseteq Copies
<1>1. PICK h : \E N \in Nat : /\ N = Cardinality(Copies) /\ Reached(e, s) = h[N]
                              /\ Follows(h, e, Buffer(e, s).copies \cap Found(e), N)
  BY ReachedSteps
<1>2. PICK N \in Nat : /\ N = Cardinality(Copies) /\ Reached(e, s) = h[N]
                       /\ Follows(h, e, Buffer(e, s).copies \cap Found(e), N)
  BY <1>1
<1>3. /\ h[0] = Buffer(e, s).copies \cap Found(e)
      /\ \A n \in 1 .. N : h[n] = h[n - 1] \cup More(e, h[n - 1])
  BY <1>2, FollowsSteps
<1> DEFINE T == {n \in Nat : n <= N => h[n] \subseteq Found(e)}
<1>4. 0 \in T
  BY <1>3
<1>5. ASSUME NEW n \in Nat, n \in T PROVE n + 1 \in T
  <2> SUFFICES ASSUME n + 1 <= N PROVE h[n + 1] \subseteq Found(e)
    OBVIOUS
  <2>1. h[n] \subseteq Found(e)
    BY <1>5
  <2>2. h[n + 1] = h[n] \cup More(e, h[n])
    BY <1>3
  <2>3. More(e, h[n]) \subseteq Found(e)
    BY DEF More
  <2> QED
    BY <2>1, <2>2, <2>3
<1>6. N \in T
  <2> HIDE DEF T
  <2> QED
    BY <1>4, <1>5, Induction
<1> QED
  BY <1>2, <1>6, LspAssumption DEF Found

\* They depend on no more than this.
LEMMA SameReached ==
    ASSUME IsFiniteSet(Copies), NEW e, NEW f, NEW s, Found(e) = Found(f),
           Buffer(e, s).copies = Buffer(f, s).copies,
           \A c \in Copies : Seen(e, c).copies = Seen(f, c).copies
    PROVE  Reached(e, s) = Reached(f, s)
<1>1. PICK x, N : x = Buffer(e, s).copies \cap Found(e) /\ N = Cardinality(Copies)
  OBVIOUS
<1>2. N \in Nat /\ x \subseteq Copies
  BY <1>1, FS_CardinalityType, LspAssumption DEF Found
<1>3. PICK g : Follows(g, e, x, N) /\ Reached(e, s) = g[N]
  BY <1>1, ReachedSteps
<1>4. PICK h : Follows(h, f, x, N) /\ Reached(f, s) = h[N]
  BY <1>1, ReachedSteps
<1>5. g[0] = x /\ \A n \in 1 .. N : g[n] = g[n - 1] \cup More(e, g[n - 1])
  BY <1>2, <1>3, FollowsSteps
<1>6. h[0] = x /\ \A n \in 1 .. N : h[n] = h[n - 1] \cup More(f, h[n - 1])
  BY <1>2, <1>4, FollowsSteps
<1> DEFINE T == {n \in Nat : n <= N => h[n] = g[n] /\ h[n] \subseteq Copies}
<1>7. 0 \in T
  BY <1>2, <1>5, <1>6
<1>8. ASSUME NEW n \in Nat, n \in T PROVE n + 1 \in T
  <2> SUFFICES ASSUME n + 1 <= N PROVE h[n + 1] = g[n + 1] /\ h[n + 1] \subseteq Copies
    OBVIOUS
  <2>1. h[n] = g[n] /\ h[n] \subseteq Copies
    BY <1>2, <1>8
  <2>2. h[n + 1] = h[n] \cup More(f, h[n]) /\ g[n + 1] = g[n] \cup More(e, g[n])
    BY <1>2, <1>5, <1>6
  <2>3. More(e, h[n]) = More(f, h[n]) /\ More(f, h[n]) \subseteq Copies
    <3>1. UNION {Seen(e, c).copies : c \in h[n]} = UNION {Seen(f, c).copies : c \in h[n]}
      BY <2>1
    <3>2. Found(f) \subseteq Copies
      BY LspAssumption DEF Found
    <3> QED
      BY <3>1, <3>2 DEF More
  <2> QED
    BY <2>1, <2>2, <2>3
<1>9. N \in T
  <2> HIDE DEF T
  <2> QED
    BY <1>2, <1>7, <1>8, Induction
<1> QED
  BY <1>2, <1>3, <1>4, <1>9

\* When COPY files copy nothing: those the source names and the paths find.
LEMMA FlatReached ==
    ASSUME IsFiniteSet(Copies), NEW e, NEW s, \A c \in Copies : Seen(e, c).copies = {}
    PROVE  Reached(e, s) = Buffer(e, s).copies \cap Found(e)
<1>1. PICK x, N : x = Buffer(e, s).copies \cap Found(e) /\ N = Cardinality(Copies)
  OBVIOUS
<1>2. N \in Nat /\ x \subseteq Copies
  BY <1>1, FS_CardinalityType, LspAssumption DEF Found
<1>3. PICK h : Follows(h, e, x, N) /\ Reached(e, s) = h[N]
  BY <1>1, ReachedSteps
<1>4. h[0] = x /\ \A n \in 1 .. N : h[n] = h[n - 1] \cup More(e, h[n - 1])
  BY <1>2, <1>3, FollowsSteps
<1> DEFINE T == {n \in Nat : n <= N => h[n] = x}
<1>5. 0 \in T
  BY <1>4
<1>6. ASSUME NEW n \in Nat, n \in T PROVE n + 1 \in T
  <2> SUFFICES ASSUME n + 1 <= N PROVE h[n + 1] = x
    OBVIOUS
  <2>1. h[n] = x
    BY <1>2, <1>6
  <2>2. h[n + 1] = h[n] \cup More(e, h[n])
    BY <1>2, <1>4
  <2>3. More(e, x) = {}
    BY <1>2 DEF More
  <2> QED
    BY <2>1, <2>2, <2>3
<1>7. N \in T
  <2> HIDE DEF T
  <2> QED
    BY <1>2, <1>5, <1>6, Induction
<1> QED
  BY <1>1, <1>2, <1>3, <1>7

(***************************************************************************)
(* The store: what is in it is open, once.                                 *)
(***************************************************************************)
AllTexts == UNION {Texts[f] : f \in Files}
Stored(e) ==
    /\ e.documents \in Seq(Files)
    /\ \A i, j \in DOMAIN e.documents : e.documents[i] = e.documents[j] => i = j
    /\ e.content \in [Files -> AllTexts \cup {None}] /\ e.disk \in [Files -> AllTexts]
    /\ \A f \in Files : /\ e.disk[f] \in Texts[f]
                        /\ e.content[f] # None => e.content[f] \in Texts[f]
                        /\ e.content[f] # None <=> \E i \in DOMAIN e.documents : e.documents[i] = f

\* With room for all, the text of every open COPY file is seen.
LEMMA SeenIsBuffer ==
    ASSUME Room, NEW e, Stored(e), NEW c \in Copies
    PROVE  Seen(e, c) = Buffer(e, c)
<1>1. PICK d, N : d = e.documents /\ N = Len(d)
  OBVIOUS
<1>2. d \in Seq(Files) /\ N \in Nat /\ DOMAIN d = 1 .. N
  BY <1>1 DEF Stored
<1>3. ASSUME e.content[c] # None PROVE c \in Overridden(e)
  <2>1. PICK i \in 1 .. N : d[i] = c
    BY <1>1, <1>2, <1>3 DEF Stored, Files
  <2> DEFINE K == {k \in 1 .. i : d[k] \in Copies}
             f == [k \in K |-> d[k]]
  <2>2. \A k \in K : k \in DOMAIN d
    BY <1>2, <2>1
  <2>3. f \in [K -> Copies] /\ \A k, l \in K : f[k] = f[l] => k = l
    BY <1>1, <2>2 DEF Stored
  <2>4. f \in Injection(K, Copies)
    BY <2>3 DEF Injection, IsInjective
  <2> HIDE DEF f
  <2>5. IsFiniteSet(K) /\ Cardinality(K) <= Cardinality(Copies)
    <3> HIDE DEF K
    <3> QED
      BY <2>4, FS_Injection DEF Room
  <2>6. Cardinality(K) <= MAX_CONTENT_OVERRIDES
    <3>1. Cardinality(K) \in Nat /\ Cardinality(Copies) \in Nat
      BY <2>5, FS_CardinalityType DEF Room
    <3> HIDE DEF K
    <3> QED
      BY <2>5, <3>1, LspAssumption DEF Room
  <2> QED
    BY <1>1, <1>2, <2>1, <2>6 DEF Overridden
<1>4. ASSUME c \in Overridden(e) PROVE e.content[c] # None
  <2>1. \E i \in DOMAIN e.documents : e.documents[i] = c
    BY <1>4 DEF Overridden
  <2> QED
    BY <2>1 DEF Stored, Files
<1> QED
  BY <1>3, <1>4 DEF Seen, Buffer

\* A parse depends on the present texts of the files it reads.
LEMMA SameParse ==
    ASSUME IsFiniteSet(Copies), NEW e, NEW f, Found(e) = Found(f), NEW s,
           Buffer(e, s) = Buffer(f, s),
           \A c \in Copies : Seen(e, c).copies = Seen(f, c).copies,
           \A c \in Reached(e, s) : Seen(e, c) = Seen(f, c)
    PROVE  Reached(e, s) = Reached(f, s) /\ Parse(e, s) = Parse(f, s)
<1>1. Reached(e, s) = Reached(f, s)
  BY SameReached
<1>2. [c \in Reached(e, s) |-> Seen(e, c)] = [c \in Reached(f, s) |-> Seen(f, c)]
  BY <1>1
<1> QED
  BY <1>1, <1>2 DEF Parse

\* Whatever a COPY file says, it copies the same.
LEMMA SteadySeen ==
    ASSUME Room, Steady, NEW e, NEW f, Stored(e), Stored(f), NEW c \in Copies
    PROVE  Seen(e, c).copies = Seen(f, c).copies
<1>1. \A g \in {e, f} : Buffer(g, c) \in Texts[c]
  BY DEF Stored, Buffer, Files
<1> QED
  BY <1>1, SeenIsBuffer DEF Steady

(***************************************************************************)
(* The results of the parses, as the handlers pass them on.                *)
(***************************************************************************)
IsW(w) ==
    /\ w = [index |-> w.index, parent |-> w.parent, shown |-> w.shown]
    /\ w.index \in [Copies -> Seq(Sources)]
    /\ w.parent \in [Copies -> Sources \cup {None}]
    /\ w.shown = [f \in Files |-> w.shown[f]]

\* The index never forgets.
Grows(w, v) == \A c \in Copies : \A s : Contains(w.index[c], s) => Contains(v.index[c], s)

LEMMA GrowsOn ==
    ASSUME NEW u, NEW v, NEW w, Grows(u, v), Grows(v, w)
    PROVE  Grows(u, w)
  BY DEF Grows

LEMMA AppendContains ==
    ASSUME NEW q \in Seq(Sources), NEW s \in Sources
    PROVE  /\ Append(q, s) \in Seq(Sources) /\ Contains(Append(q, s), s)
           /\ \A t : Contains(q, t) => Contains(Append(q, s), t)
<1>1. PICK N \in Nat : N = Len(q)
  OBVIOUS
<1>2. /\ Append(q, s) \in Seq(Sources) /\ Len(Append(q, s)) = N + 1
      /\ Append(q, s)[N + 1] = s /\ \A i \in 1 .. N : Append(q, s)[i] = q[i]
  BY <1>1
<1>3. Contains(Append(q, s), s)
  BY <1>1, <1>2 DEF Contains
<1>4. ASSUME NEW t, Contains(q, t) PROVE Contains(Append(q, s), t)
  <2>1. PICK i \in 1 .. N : q[i] = t
    BY <1>1, <1>4 DEF Contains
  <2> QED
    BY <1>1, <1>2, <2>1 DEF Contains
<1> QED
  BY <1>2, <1>3, <1>4

LEMMA PopulateLearns ==
    ASSUME NEW w, IsW(w), NEW s \in Sources, NEW cs, NEW v, v = Populate(w, s, cs)
    PROVE  /\ IsW(v) /\ Grows(w, v) /\ v.parent = w.parent /\ v.shown = w.shown
           /\ \A c \in Copies : c \in cs => Contains(v.index[c], s)
<1>1. PICK q : q = [c \in Copies |-> IF c \in cs /\ ~ Contains(w.index[c], s)
                                     THEN Append(w.index[c], s) ELSE w.index[c]]
  OBVIOUS
<1>2. v = [w EXCEPT !.index = q]
  BY <1>1 DEF Populate
<1>3. v = [index |-> q, parent |-> w.parent, shown |-> w.shown]
  BY <1>2 DEF IsW
<1>4. ASSUME NEW c \in Copies
      PROVE  /\ q[c] \in Seq(Sources)
             /\ c \in cs => Contains(q[c], s)
             /\ \A t : Contains(w.index[c], t) => Contains(q[c], t)
  <2>1. w.index[c] \in Seq(Sources)
    BY DEF IsW
  <2>2. /\ Append(w.index[c], s) \in Seq(Sources) /\ Contains(Append(w.index[c], s), s)
        /\ \A t : Contains(w.index[c], t) => Contains(Append(w.index[c], s), t)
    BY <2>1, AppendContains
  <2>3. q[c] = IF c \in cs /\ ~ Contains(w.index[c], s) THEN Append(w.index[c], s) ELSE w.index[c]
    BY <1>1
  <2>4. CASE c \in cs /\ ~ Contains(w.index[c], s)
    BY <2>2, <2>3, <2>4
  <2>5. CASE ~ (c \in cs /\ ~ Contains(w.index[c], s))
    BY <2>1, <2>3, <2>5
  <2> QED
    BY <2>4, <2>5
<1>5. q \in [Copies -> Seq(Sources)]
  BY <1>1, <1>4
<1>6. IsW(v)
  BY <1>3, <1>5 DEF IsW
<1>7. Grows(w, v)
  BY <1>3, <1>4 DEF Grows
<1> QED
  BY <1>3, <1>4, <1>6, <1>7

\* The source s is shown as it is now, and known to copy what it copies.
SourceParsed(e, s, v) ==
    /\ v.shown[s] = [parse |-> Parse(e, s), style |-> e.style]
    /\ \A c \in Reached(e, s) : Contains(v.index[c], s)

\* Nothing but the results of f changes.
Others(f, w, v) ==
    /\ \A g \in Files : g # f => v.shown[g] = w.shown[g]
    /\ \A c \in Copies : c # f => v.parent[c] = w.parent[c]

LEMMA SourceIsParsed ==
    ASSUME IsFiniteSet(Copies), NEW w, IsW(w), NEW e, NEW s \in Sources, NEW v, v = ParseSource(w, e, s)
    PROVE  IsW(v) /\ Grows(w, v) /\ Others(s, w, v) /\ SourceParsed(e, s, v) /\ v.parent = w.parent
<1>1. PICK new, u : /\ new = [parse |-> Parse(e, s), style |-> e.style]
                    /\ u = [w EXCEPT !.shown = [w.shown EXCEPT ![s] = new]]
  OBVIOUS
<1>2. u = document_parse_with_overrides(w, e, s) /\ v = Populate(u, s, Reached(e, s))
  BY <1>1 DEF ParseSource, document_parse_with_overrides
<1>3. u = [index |-> w.index, parent |-> w.parent, shown |-> [w.shown EXCEPT ![s] = new]]
  BY <1>1 DEF IsW
<1>4. IsW(u) /\ u.shown[s] = new /\ Others(s, w, u)
  BY <1>3 DEF IsW, Others, Files
<1>5. /\ IsW(v) /\ Grows(u, v) /\ v.parent = u.parent /\ v.shown = u.shown
      /\ \A c \in Copies : c \in Reached(e, s) => Contains(v.index[c], s)
  BY <1>2, <1>4, PopulateLearns
<1>6. Reached(e, s) \subseteq Copies
  BY ReachedIsFound
<1>7. SourceParsed(e, s, v)
  BY <1>1, <1>4, <1>5, <1>6 DEF SourceParsed
<1>8. Grows(w, v)
  BY <1>3, <1>5 DEF Grows
<1> QED
  BY <1>3, <1>4, <1>5, <1>7, <1>8 DEF Others

LEMMA FirstOfFinds ==
    ASSUME NEW q \in Seq(Sources), NEW set
    PROVE  /\ FirstOf(q, set) = None => \A i \in DOMAIN q : q[i] \notin set
           /\ FirstOf(q, set) # None =>
                  /\ FirstOf(q, set) \in Sources /\ FirstOf(q, set) \in set
                  /\ \E i \in DOMAIN q : q[i] = FirstOf(q, set)
<1>1. PICK places : places = {i \in DOMAIN q : q[i] \in set}
  OBVIOUS
<1>2. FirstOf(q, set) = IF places = {} THEN None ELSE q[CHOOSE i \in places : \A j \in places : i <= j]
  BY <1>1 DEF FirstOf
<1>3. CASE places = {}
  BY <1>1, <1>2, <1>3
<1>4. CASE places # {}
  <2>1. places \subseteq Nat
    BY <1>1
  <2>2. PICK m \in places : \A k \in places : ~ (<< k, m >> \in OpToRel(<, Nat))
    BY <1>4, <2>1, NatLessThanWellFounded, WFMin
  <2>3. ASSUME NEW k \in places PROVE m <= k
    <3>1. m \in Nat /\ k \in Nat
      BY <2>1
    <3>2. ~ (k < m)
      BY <2>2, <3>1 DEF OpToRel
    <3> QED
      BY <3>1, <3>2
  <2>4. PICK i \in places : i = CHOOSE l \in places : \A j \in places : l <= j
    BY <2>3
  <2>5. FirstOf(q, set) = q[i] /\ i \in DOMAIN q /\ q[i] \in set
    BY <1>1, <1>2, <1>4, <2>4
  <2>6. q[i] \in Sources
    BY <2>5
  <2>7. None \notin Sources
    BY LspAssumption DEF Files
  <2> QED
    BY <2>5, <2>6, <2>7
<1> QED
  BY <1>3, <1>4

\* A COPY file of which the index knows a source is parsed through one it knows.
LEMMA ParentFound ==
    ASSUME NEW w, IsW(w), NEW e, NEW c \in Copies,
           NEW p, p = copy_index_find_parent(w, e, c)
    PROVE  /\ p = None => w.index[c] = << >>
           /\ p # None => p \in Sources /\ Contains(w.index[c], p)
<1>1. PICK q : q = w.index[c]
  OBVIOUS
<1>2. q \in Seq(Sources)
  BY <1>1 DEF IsW
<1>3. PICK set : set = {s \in Sources : e.content[s] # None}
  OBVIOUS
<1>4. p = IF FirstOf(q, set) # None THEN FirstOf(q, set) ELSE FirstOf(q, Sources)
  BY <1>1, <1>3 DEF copy_index_find_parent
<1>5. PICK t : t \in {set, Sources} /\ p = FirstOf(q, t) /\ (p = None => t = Sources)
  BY <1>4
<1>6. /\ FirstOf(q, t) = None => \A i \in DOMAIN q : q[i] \notin t
      /\ FirstOf(q, t) # None =>
             FirstOf(q, t) \in Sources /\ \E i \in DOMAIN q : q[i] = FirstOf(q, t)
  BY <1>2, FirstOfFinds
<1>7. ASSUME p = None PROVE q = << >>
  <2>1. \A i \in DOMAIN q : q[i] \notin Sources
    BY <1>5, <1>6, <1>7
  <2>2. \A i \in DOMAIN q : q[i] \in Sources
    BY <1>2
  <2> QED
    BY <1>2, <2>1, <2>2
<1>8. ASSUME p # None PROVE p \in Sources /\ Contains(q, p)
  <2>1. p \in Sources /\ \E i \in DOMAIN q : q[i] = p
    BY <1>5, <1>6, <1>8
  <2>2. DOMAIN q = 1 .. Len(q)
    BY <1>2
  <2> QED
    BY <2>1, <2>2 DEF Contains
<1> QED
  BY <1>1, <1>7, <1>8

\* The sources of the directory; one of them names c on the disk.
Listed == {ReadDir[i] : i \in DOMAIN ReadDir}
Named(e, c) == \E s \in Listed : c \in e.disk[s].copies

\* The COPY file c is shown as its parent has it now, or no source is known
\* for it and all is as it was in w.
CopyParsed(e, c, w, v) ==
    \/ /\ w.index[c] = << >> /\ ~ Named(e, c)
       /\ v.shown[c] = w.shown[c] /\ v.parent[c] = w.parent[c]
    \/ /\ v.parent[c] \in Sources
       /\ v.shown[c] = [parse |-> Parse(e, v.parent[c])]
       /\ c \in Reached(e, v.parent[c]) => Contains(v.index[c], v.parent[c])
       /\ v.index[c] # << >> \/ v.parent[c] \in Listed

LEMMA CopyIsParsed ==
    ASSUME IsFiniteSet(Copies), NEW w, IsW(w), NEW e, NEW c \in Copies,
           NEW v, v = document_parse_copy(w, e, c)
    PROVE  IsW(v) /\ Grows(w, v) /\ Others(c, w, v) /\ CopyParsed(e, c, w, v)
<1>1. PICK known, p : /\ known = copy_index_find_parent(w, e, c)
                      /\ p = IF known # None THEN known ELSE find_first_src_that_copies(e, c)
  OBVIOUS
<1>2. /\ known = None => w.index[c] = << >>
      /\ known # None => known \in Sources /\ Contains(w.index[c], known)
  BY <1>1, ParentFound
<1>3. PICK set : set = {s \in Sources : c \in e.disk[s].copies}
  OBVIOUS
<1>4. find_first_src_that_copies(e, c) = FirstOf(ReadDir, set)
  BY <1>3 DEF find_first_src_that_copies
<1>5. ReadDir \in Seq(Sources) /\ \A i \in DOMAIN ReadDir : ReadDir[i] \in Sources
  BY LspAssumption
<1>6. PICK first : first = FirstOf(ReadDir, set)
  OBVIOUS
<1>7. /\ first = None => \A i \in DOMAIN ReadDir : ReadDir[i] \notin set
      /\ first # None => first \in Sources /\ \E i \in DOMAIN ReadDir : ReadDir[i] = first
  BY <1>5, <1>6, FirstOfFinds
<1>8. CASE p = None
  <2>1. known = None /\ first = None /\ w.index[c] = << >>
    BY <1>1, <1>2, <1>4, <1>6, <1>8
  <2>2. ~ Named(e, c)
    BY <1>3, <1>5, <1>7, <2>1 DEF Named, Listed
  <2>3. v = w
    BY <1>1, <1>8 DEF document_parse_copy
  <2> QED
    BY <2>1, <2>2, <2>3 DEF Grows, Others, CopyParsed
<1>9. CASE p # None
  <2>1. p \in Sources /\ (known = None => p \in Listed)
    BY <1>1, <1>2, <1>4, <1>6, <1>7, <1>9 DEF Listed
  <2>2. PICK learnt, cs, u, new :
            /\ learnt = Reached(e, p)
            /\ cs = IF learnt # {} /\ known = None THEN learnt \cup {c} ELSE learnt
            /\ u = Populate(w, p, cs) /\ new = [parse |-> Parse(e, p)]
    OBVIOUS
  <2>3. /\ IsW(u) /\ Grows(w, u) /\ u.parent = w.parent /\ u.shown = w.shown
        /\ \A d \in Copies : d \in cs => Contains(u.index[d], p)
    BY <2>1, <2>2, PopulateLearns
  <2>4. v = [u EXCEPT !.parent[c] = p, !.shown[c] = new]
    BY <1>1, <1>9, <2>2 DEF document_parse_copy
  <2>5. v = [index |-> u.index, parent |-> [u.parent EXCEPT ![c] = p],
             shown |-> [u.shown EXCEPT ![c] = new]]
    BY <2>3, <2>4 DEF IsW
  <2>6. v.parent[c] = p /\ v.shown[c] = new /\ v.index = u.index
    BY <2>3, <2>5 DEF IsW, Files
  <2>7. IsW(v)
    <3>1. [u.parent EXCEPT ![c] = p] \in [Copies -> Sources \cup {None}]
      BY <2>1, <2>3 DEF IsW
    <3>2. [u.shown EXCEPT ![c] = new] = [f \in Files |-> [u.shown EXCEPT ![c] = new][f]]
      BY <2>3 DEF IsW
    <3> QED
      BY <2>3, <2>5, <3>1, <3>2 DEF IsW
  <2>8. Grows(w, v)
    BY <2>3, <2>6 DEF Grows
  <2>9. Others(c, w, v)
    BY <2>3, <2>5 DEF Others, IsW
  <2>10. c \in Reached(e, p) => Contains(v.index[c], p)
    BY <2>2, <2>3, <2>6
  <2>11. v.index[c] # << >> \/ p \in Listed
    <3>1. CASE known = None
      BY <2>1, <3>1
    <3>2. CASE known # None
      <4>1. Contains(v.index[c], p)
        BY <1>1, <1>2, <2>8, <3>2 DEF Grows
      <4> QED
        BY <4>1 DEF Contains
    <3> QED
      BY <3>1, <3>2
  <2>12. CopyParsed(e, c, w, v)
    BY <2>1, <2>2, <2>6, <2>10, <2>11 DEF CopyParsed
  <2> QED
    BY <2>7, <2>8, <2>9, <2>12
<1> QED
  BY <1>8, <1>9

LEMMA GrowsKeeps ==
    ASSUME NEW w, IsW(w), NEW v, IsW(v), Grows(w, v), NEW c \in Copies, w.index[c] # << >>
    PROVE  v.index[c] # << >>
<1>1. w.index[c] \in Seq(Sources)
  BY DEF IsW
<1>2. Contains(w.index[c], w.index[c][1])
  BY <1>1 DEF Contains
<1>3. Contains(v.index[c], w.index[c][1])
  BY <1>2 DEF Grows
<1> QED
  BY <1>3 DEF Contains

\* What the other parses do in between does not matter.
LEMMA CopyParsedOn ==
    ASSUME NEW e, NEW c \in Copies, NEW u, NEW v, NEW w, NEW x, IsW(u), IsW(v), IsW(w), IsW(x),
           Grows(u, v), v.shown[c] = u.shown[c], v.parent[c] = u.parent[c],
           CopyParsed(e, c, v, w),
           Grows(w, x), x.shown[c] = w.shown[c], x.parent[c] = w.parent[c]
    PROVE  CopyParsed(e, c, u, x)
<1>1. v.index[c] = << >> => u.index[c] = << >>
  BY GrowsKeeps
<1>2. w.index[c] # << >> => x.index[c] # << >>
  BY GrowsKeeps
<1>3. \A s : Contains(w.index[c], s) => Contains(x.index[c], s)
  BY DEF Grows
<1>4. CASE /\ v.index[c] = << >> /\ ~ Named(e, c)
           /\ w.shown[c] = v.shown[c] /\ w.parent[c] = v.parent[c]
  BY <1>1, <1>4 DEF CopyParsed
<1>5. CASE /\ w.parent[c] \in Sources
           /\ w.shown[c] = [parse |-> Parse(e, w.parent[c])]
           /\ c \in Reached(e, w.parent[c]) => Contains(w.index[c], w.parent[c])
           /\ w.index[c] # << >> \/ w.parent[c] \in Listed
  <2>1. x.parent[c] = w.parent[c] /\ x.shown[c] = w.shown[c]
    OBVIOUS
  <2> QED
    BY <1>2, <1>3, <1>5, <2>1 DEF CopyParsed
<1> QED
  BY <1>4, <1>5 DEF CopyParsed

LEMMA SourceParsedOn ==
    ASSUME IsFiniteSet(Copies), NEW e, NEW s, NEW v, NEW x, SourceParsed(e, s, v), Grows(v, x),
           x.shown[s] = v.shown[s]
    PROVE  SourceParsed(e, s, x)
<1>1. Reached(e, s) \subseteq Copies
  BY ReachedIsFound
<1> QED
  BY <1>1 DEF SourceParsed, Grows

LEMMA ParsesSteps ==
    ASSUME NEW h, NEW w0, NEW e, NEW sources, NEW parents, NEW N \in Nat,
           Parses(h, w0, e, sources, parents, N)
    PROVE  /\ h[0] = w0
           /\ \A n \in 1 .. N : h[n] = After(h[n - 1], e, e.documents[n], sources, parents)
<1>1. \A n \in 0 .. N : h[n] = IF n = 0 THEN w0
                               ELSE After(h[n - 1], e, e.documents[n], sources, parents)
  BY Zenon DEF Parses
<1>2. 0 \in 0 .. N /\ \A n \in 1 .. N : n \in 0 .. N /\ n # 0
  OBVIOUS
<1> QED
  BY <1>1, <1>2, Zenon

LEMMA EachParses ==
    ASSUME NEW w0, NEW e, NEW sources, NEW parents, Len(e.documents) \in Nat
    PROVE  \E h : /\ Parses(h, w0, e, sources, parents, Len(e.documents))
                  /\ ReparseEach(w0, e, sources, parents) = h[Len(e.documents)]
<1>1. PICK N \in Nat : N = Len(e.documents)
  OBVIOUS
<1>2. \E h : Parses(h, w0, e, sources, parents, N)
  BY ParsedDefined
<1>3. ReparseEach(w0, e, sources, parents) = (CHOOSE h : Parses(h, w0, e, sources, parents, N))[N]
  BY <1>1 DEF ReparseEach, Parses, After
<1>4. PICK h : Parses(h, w0, e, sources, parents, N) /\ ReparseEach(w0, e, sources, parents) = h[N]
  BY <1>2, <1>3, Zenon
<1> QED
  BY <1>1, <1>4

\* The files that ReparseEach parses, of those that are open.
Asked(w0, f, sources, parents) == f \in sources \/ (f \in Copies /\ w0.parent[f] \in parents)
Kept(f, w, v) == v.shown[f] = w.shown[f] /\ (f \in Copies => v.parent[f] = w.parent[f])
Parsed(e, w, v, f) == IF f \in Copies THEN CopyParsed(e, f, w, v) ELSE SourceParsed(e, f, v)

LEMMA ParsedOn ==
    ASSUME IsFiniteSet(Copies), NEW e, NEW f \in Files, NEW u, NEW v, NEW w, NEW x,
           IsW(u), IsW(v), IsW(w), IsW(x), Grows(u, v), Kept(f, u, v), Parsed(e, v, w, f),
           Grows(w, x), Kept(f, w, x)
    PROVE  Parsed(e, u, x, f)
<1>1. CASE f \in Copies
  <2>1. CopyParsed(e, f, u, x)
    BY <1>1, CopyParsedOn DEF Kept, Parsed
  <2> QED
    BY <1>1, <2>1 DEF Parsed
<1>2. CASE f \notin Copies
  <2>1. SourceParsed(e, f, x)
    BY <1>2, SourceParsedOn DEF Kept, Parsed
  <2> QED
    BY <1>2, <2>1 DEF Parsed
<1> QED
  BY <1>1, <1>2

LEMMA ReparseParses ==
    ASSUME IsFiniteSet(Copies), NEW w, IsW(w), NEW e, NEW f \in Files, NEW v, v = Reparse(w, e, f)
    PROVE  IsW(v) /\ Grows(w, v) /\ Others(f, w, v) /\ Parsed(e, w, v, f)
<1>1. CASE f \in Copies
  <2>1. v = document_parse_copy(w, e, f)
    BY <1>1 DEF Reparse
  <2>2. IsW(v) /\ Grows(w, v) /\ Others(f, w, v) /\ CopyParsed(e, f, w, v)
    BY <1>1, <2>1, CopyIsParsed
  <2> QED
    BY <1>1, <2>2 DEF Parsed
<1>2. CASE f \notin Copies
  <2>1. v = ParseSource(w, e, f) /\ f \in Sources
    BY <1>2 DEF Reparse, Files
  <2>2. IsW(v) /\ Grows(w, v) /\ Others(f, w, v) /\ SourceParsed(e, f, v)
    BY <2>1, SourceIsParsed
  <2> QED
    BY <1>2, <2>2 DEF Parsed
<1> QED
  BY <1>1, <1>2

\* One after the other: what all the documents in between make of f is Parsed or Kept.
LEMMA EachDoes ==
    ASSUME IsFiniteSet(Copies), NEW e, Stored(e), NEW w0, IsW(w0), NEW sources, NEW parents,
           sources \subseteq Sources, NEW v, v = ReparseEach(w0, e, sources, parents)
    PROVE  /\ IsW(v) /\ Grows(w0, v)
           /\ \A f \in Files : IF e.content[f] # None /\ Asked(w0, f, sources, parents)
                               THEN Parsed(e, w0, v, f) ELSE Kept(f, w0, v)
<1>1. PICK d, N : d = e.documents /\ N = Len(d)
  OBVIOUS
<1>2. /\ d \in Seq(Files) /\ N \in Nat /\ DOMAIN d = 1 .. N
      /\ \A i, j \in 1 .. N : d[i] = d[j] => i = j
      /\ \A f \in Files : e.content[f] # None <=> \E i \in 1 .. N : d[i] = f
  BY <1>1 DEF Stored
<1>3. PICK h : Parses(h, w0, e, sources, parents, N) /\ v = h[N]
  BY <1>1, <1>2, EachParses
<1>4. h[0] = w0 /\ \A n \in 1 .. N : h[n] = After(h[n - 1], e, d[n], sources, parents)
  BY <1>1, <1>2, <1>3, ParsesSteps
<1> DEFINE Before(n, f) == \E i \in 1 .. n : d[i] = f
           Q(n) == /\ IsW(h[n]) /\ Grows(w0, h[n])
                   /\ \A f \in Files : IF Before(n, f) /\ Asked(w0, f, sources, parents)
                                       THEN Parsed(e, w0, h[n], f) ELSE Kept(f, w0, h[n])
           T == {n \in Nat : n <= N => Q(n)}
<1>5. 0 \in T
  <2>1. \A f \in Files : ~ Before(0, f)
    OBVIOUS
  <2>2. Grows(w0, w0) /\ \A f \in Files : Kept(f, w0, w0)
    BY DEF Grows, Kept
  <2>3. Q(0)
    BY <1>4, <2>1, <2>2
  <2> QED
    BY <2>3
<1>6. ASSUME NEW n \in Nat, n \in T PROVE n + 1 \in T
  <2> SUFFICES ASSUME n + 1 <= N PROVE Q(n + 1)
    OBVIOUS
  <2>1. n + 1 \in 1 .. N /\ (n + 1) - 1 = n /\ n <= N
    BY <1>2
  <2>2. Q(n)
    BY <1>6, <2>1
  <2>3. PICK w, x, g : w = h[n] /\ x = h[n + 1] /\ g = d[n + 1]
    OBVIOUS
  <2>4. g \in Files /\ x = After(w, e, g, sources, parents)
    BY <1>2, <1>4, <2>1, <2>3
  <2>5. ~ Before(n, g)
    <3> SUFFICES ASSUME NEW i \in 1 .. n, d[i] = g PROVE FALSE
      OBVIOUS
    <3>1. i \in 1 .. N /\ i # n + 1
      BY <1>2, <2>1
    <3> QED
      BY <1>2, <2>1, <2>3, <3>1
  <2>6. Kept(g, w0, w) /\ IsW(w) /\ Grows(w0, w)
    BY <2>2, <2>3, <2>4, <2>5
  <2>7. g \in sources \/ (g \in Copies /\ w.parent[g] \in parents) <=> Asked(w0, g, sources, parents)
    BY <2>6 DEF Kept, Asked
  <2>8. \A f \in Files : Before(n + 1, f) <=> Before(n, f) \/ f = g
    <3> SUFFICES ASSUME NEW f \in Files PROVE Before(n + 1, f) <=> Before(n, f) \/ f = g
      OBVIOUS
    <3>1. ASSUME NEW i \in 1 .. n + 1, d[i] = f PROVE Before(n, f) \/ f = g
      <4>1. i \in 1 .. n \/ i = n + 1
        BY <3>1
      <4> QED
        BY <2>3, <3>1, <4>1
    <3>2. ASSUME NEW i \in 1 .. n, d[i] = f PROVE Before(n + 1, f)
      <4>1. i \in 1 .. n + 1
        OBVIOUS
      <4> QED
        BY <3>2, <4>1
    <3>3. g = f => Before(n + 1, f)
      <4>1. n + 1 \in 1 .. n + 1
        OBVIOUS
      <4> QED
        BY <2>3, <4>1
    <3> QED
      BY <3>1, <3>2, <3>3
  <2> HIDE DEF Before
  <2>9. \A f \in Files : IF Before(n, f) /\ Asked(w0, f, sources, parents)
                         THEN Parsed(e, w0, w, f) ELSE Kept(f, w0, w)
    BY <2>2, <2>3
  <2>10. CASE Asked(w0, g, sources, parents)
    <3>1. x = Reparse(w, e, g)
      BY <2>4, <2>7, <2>10 DEF After
    <3>2. IsW(x) /\ Grows(w, x) /\ Others(g, w, x) /\ Parsed(e, w, x, g)
      BY <2>4, <2>6, <3>1, ReparseParses
    <3>3. Grows(w0, x) /\ Grows(x, x)
      BY <2>6, <3>2, GrowsOn DEF Grows
    <3>4. Parsed(e, w0, x, g)
      <4>1. Kept(g, x, x)
        BY DEF Kept
      <4> QED
        BY <2>4, <2>6, <3>2, <3>3, <4>1, ParsedOn
    <3>5. ASSUME NEW f \in Files, f # g
          PROVE  IF Before(n, f) /\ Asked(w0, f, sources, parents)
                 THEN Parsed(e, w0, x, f) ELSE Kept(f, w0, x)
      <4>1. Kept(f, w, x)
        BY <3>2, <3>5 DEF Others, Kept
      <4>2. CASE Before(n, f) /\ Asked(w0, f, sources, parents)
        <5>1. Parsed(e, w0, w, f) /\ Kept(f, w0, w0) /\ Grows(w0, w0)
          BY <2>9, <4>2 DEF Kept, Grows
        <5> QED
          BY <2>6, <3>2, <4>1, <4>2, <5>1, ParsedOn
      <4>3. CASE ~ (Before(n, f) /\ Asked(w0, f, sources, parents))
        <5>1. Kept(f, w0, w)
          BY <2>9, <4>3
        <5> QED
          BY <4>1, <4>3, <5>1 DEF Kept
      <4> QED
        BY <4>2, <4>3
    <3>6. ASSUME NEW f \in Files
          PROVE  IF Before(n + 1, f) /\ Asked(w0, f, sources, parents)
                 THEN Parsed(e, w0, x, f) ELSE Kept(f, w0, x)
      BY <2>8, <2>10, <3>4, <3>5
    <3> QED
      BY <2>3, <3>2, <3>3, <3>6
  <2>11. CASE ~ Asked(w0, g, sources, parents)
    <3>1. x = w
      BY <2>4, <2>7, <2>11 DEF After
    <3>2. ASSUME NEW f \in Files
          PROVE  IF Before(n + 1, f) /\ Asked(w0, f, sources, parents)
                 THEN Parsed(e, w0, x, f) ELSE Kept(f, w0, x)
      BY <2>8, <2>9, <2>11, <3>1
    <3> QED
      BY <2>3, <2>6, <3>1, <3>2
  <2> QED
    BY <2>10, <2>11
<1>7. Q(N)
  <2>1. N \in T
    <3> HIDE DEF T
    <3> QED
      BY <1>2, <1>5, <1>6, Induction
  <2> HIDE DEF Q
  <2> QED
    BY <1>2, <2>1
<1>8. ASSUME NEW f \in Files
      PROVE  IF e.content[f] # None /\ Asked(w0, f, sources, parents)
             THEN Parsed(e, w0, v, f) ELSE Kept(f, w0, v)
  <2>1. e.content[f] # None <=> Before(N, f)
    BY <1>2
  <2> HIDE DEF Before
  <2> QED
    BY <1>3, <1>7, <2>1
<1> QED
  BY <1>3, <1>7, <1>8

(***************************************************************************)
(* What the messages make of the store, and so of the parses.              *)
(***************************************************************************)
LEMMA Removed ==
    ASSUME NEW q \in Seq(Files), NEW k \in DOMAIN q
    PROVE  \E r : /\ r = RemoveAt(q, k) /\ r \in Seq(Files) /\ Len(r) = Len(q) - 1
                  /\ \A j \in 1 .. Len(r) : r[j] = IF j < k THEN q[j] ELSE q[j + 1]
<1>1. PICK N \in Nat : N = Len(q) /\ k \in 1 .. N /\ DOMAIN q = 1 .. N
  OBVIOUS
<1>2. PICK a, b, r : /\ a = SubSeq(q, 1, k - 1) /\ b = SubSeq(q, k + 1, N)
                     /\ r = RemoveAt(q, k)
  OBVIOUS
<1>3. a \in Seq(Files) /\ Len(a) = k - 1 /\ \A j \in 1 .. k - 1 : a[j] = q[j]
  BY <1>1, <1>2
<1>4. b \in Seq(Files) /\ Len(b) = N - k /\ \A j \in 1 .. N - k : b[j] = q[k + j]
  BY <1>1, <1>2
<1>5. /\ r \in Seq(Files) /\ Len(r) = Len(a) + Len(b)
      /\ \A j \in 1 .. Len(a) + Len(b) : r[j] = IF j <= Len(a) THEN a[j] ELSE b[j - Len(a)]
  <2>1. r = a \o b
    BY <1>1, <1>2 DEF RemoveAt
  <2>2. a \in Seq(Files) /\ b \in Seq(Files)
    BY <1>3, <1>4
  <2> QED
    BY <2>1, <2>2, ConcatProperties
<1>6. Len(r) = N - 1
  <2>1. Len(r) = (k - 1) + (N - k)
    BY <1>3, <1>4, <1>5
  <2>2. N \in Int /\ k \in Int
    BY <1>1
  <2> QED
    BY <2>1, <2>2
<1>7. ASSUME NEW j \in 1 .. N - 1 PROVE r[j] = IF j < k THEN q[j] ELSE q[j + 1]
  <2>1. r[j] = IF j <= Len(a) THEN a[j] ELSE b[j - Len(a)]
    BY <1>1, <1>3, <1>4, <1>5
  <2>2. CASE j < k
    BY <1>1, <1>3, <2>1, <2>2
  <2>3. CASE ~ (j < k)
    <3>1. PICK i : i = j - Len(a)
      OBVIOUS
    <3>2. i \in 1 .. N - k /\ k + i = j + 1 /\ ~ (j <= Len(a))
      BY <1>1, <1>3, <2>3, <3>1
    <3>3. r[j] = b[i]
      BY <2>1, <3>1, <3>2
    <3> QED
      BY <1>4, <2>3, <3>2, <3>3
  <2> QED
    BY <2>2, <2>3
<1> QED
  BY <1>1, <1>2, <1>5, <1>6, <1>7

LEMMA OpenStored ==
    ASSUME NEW e, Stored(e), NEW f \in Files, e.content[f] = None, NEW t \in Texts[f],
           NEW g, g.documents = Append(e.documents, f), g.content = [e.content EXCEPT ![f] = t],
           g.disk = e.disk
    PROVE  Stored(g)
<1>1. PICK d, N : d = e.documents /\ N = Len(d)
  OBVIOUS
<1>2. d \in Seq(Files) /\ N \in Nat /\ DOMAIN d = 1 .. N
  BY <1>1 DEF Stored
<1>3. PICK b : b = Append(d, f)
  OBVIOUS
<1>4. /\ b \in Seq(Files) /\ Len(b) = N + 1 /\ DOMAIN b = 1 .. N + 1
      /\ b[N + 1] = f /\ \A i \in 1 .. N : b[i] = d[i]
  BY <1>1, <1>2, <1>3
<1>5. (\A i \in 1 .. N : d[i] # f) /\ \A i, j \in 1 .. N : d[i] = d[j] => i = j
  BY <1>1, <1>2 DEF Stored
<1>6. ASSUME NEW i \in 1 .. N + 1, NEW j \in 1 .. N + 1, b[i] = b[j] PROVE i = j
  <2>1. (i \in 1 .. N \/ i = N + 1) /\ (j \in 1 .. N \/ j = N + 1)
    BY <1>2
  <2> QED
    BY <1>4, <1>5, <1>6, <2>1
<1>7. t \in AllTexts /\ t # None
  BY LspAssumption DEF AllTexts
<1>8. ASSUME NEW x \in Files PROVE (x = f \/ \E i \in 1 .. N : d[i] = x) <=> \E i \in 1 .. N + 1 : b[i] = x
  <2>1. \A i \in 1 .. N : i \in 1 .. N + 1
    BY <1>2
  <2>2. N + 1 \in 1 .. N + 1 /\ \A i \in 1 .. N + 1 : i \in 1 .. N \/ i = N + 1
    BY <1>2
  <2> QED
    BY <1>4, <2>1, <2>2
<1>9. \A x \in Files : e.content[x] # None <=> \E i \in 1 .. N : d[i] = x
  BY <1>1, <1>2 DEF Stored
<1>10. g.content \in [Files -> AllTexts \cup {None}] /\ g.content[f] = t
       /\ \A x \in Files : x # f => g.content[x] = e.content[x]
  BY <1>7 DEF Stored
<1>11. ASSUME NEW x \in Files
       PROVE  /\ g.disk[x] \in Texts[x]
              /\ g.content[x] # None => g.content[x] \in Texts[x]
              /\ g.content[x] # None <=> \E i \in DOMAIN g.documents : g.documents[i] = x
  BY <1>1, <1>3, <1>4, <1>7, <1>8, <1>9, <1>10 DEF Stored
<1>12. g.documents = b /\ g.disk \in [Files -> AllTexts]
  BY <1>1, <1>3 DEF Stored
<1> QED
  BY <1>4, <1>6, <1>10, <1>11, <1>12 DEF Stored

LEMMA UpdateStored ==
    ASSUME NEW e, Stored(e), NEW f \in Files, e.content[f] # None, NEW t \in Texts[f],
           NEW g, g.documents = e.documents, g.content = [e.content EXCEPT ![f] = t],
           g.disk = e.disk
    PROVE  Stored(g)
<1>1. t \in AllTexts /\ t # None
  BY LspAssumption DEF AllTexts
<1>2. g.content \in [Files -> AllTexts \cup {None}] /\ g.content[f] = t
      /\ \A x \in Files : x # f => g.content[x] = e.content[x]
  BY <1>1 DEF Stored
<1> QED
  BY <1>1, <1>2 DEF Stored

LEMMA SaveStored ==
    ASSUME NEW e, Stored(e), NEW f \in Files, e.content[f] # None,
           NEW g, g.documents = e.documents, g.content = e.content,
           g.disk = [e.disk EXCEPT ![f] = e.content[f]]
    PROVE  Stored(g)
<1>1. e.content[f] \in Texts[f] /\ e.content[f] \in AllTexts
  BY DEF Stored, AllTexts
<1>2. g.disk \in [Files -> AllTexts] /\ g.disk[f] = e.content[f]
      /\ \A x \in Files : x # f => g.disk[x] = e.disk[x]
  BY <1>1 DEF Stored
<1> QED
  BY <1>1, <1>2 DEF Stored

LEMMA CloseStored ==
    ASSUME NEW e, Stored(e), NEW k \in DOMAIN e.documents, NEW f, f = e.documents[k],
           NEW g, g.documents = RemoveAt(e.documents, k), g.content = [e.content EXCEPT ![f] = None],
           g.disk = e.disk
    PROVE  Stored(g)
<1>1. PICK d, N : d = e.documents /\ N = Len(d)
  OBVIOUS
<1>2. d \in Seq(Files) /\ N \in Nat /\ DOMAIN d = 1 .. N /\ k \in 1 .. N /\ d[k] = f /\ f \in Files
  BY <1>1 DEF Stored
<1>3. PICK b : /\ b = RemoveAt(d, k) /\ b \in Seq(Files) /\ Len(b) = N - 1
               /\ \A j \in 1 .. N - 1 : b[j] = IF j < k THEN d[j] ELSE d[j + 1]
  <2>1. k \in DOMAIN d
    BY <1>1
  <2>2. PICK b : /\ b = RemoveAt(d, k) /\ b \in Seq(Files) /\ Len(b) = Len(d) - 1
                 /\ \A j \in 1 .. Len(b) : b[j] = IF j < k THEN d[j] ELSE d[j + 1]
    BY <1>2, <2>1, Removed
  <2> QED
    BY <1>1, <2>2
<1>4. \A i, j \in 1 .. N : d[i] = d[j] => i = j
  BY <1>1, <1>2 DEF Stored
<1>5. ASSUME NEW i \in 1 .. N - 1, NEW j \in 1 .. N - 1, b[i] = b[j] PROVE i = j
  <2>1. PICK m \in 1 .. N : m = IF i < k THEN i ELSE i + 1
    BY <1>2
  <2>2. PICK n \in 1 .. N : n = IF j < k THEN j ELSE j + 1
    BY <1>2
  <2>3. b[i] = d[m] /\ b[j] = d[n]
    BY <1>3, <2>1, <2>2
  <2>4. m = n
    BY <1>4, <1>5, <2>3
  <2> QED
    BY <1>2, <2>1, <2>2, <2>4
<1>6. ASSUME NEW x \in Files
      PROVE  (x # f /\ \E i \in 1 .. N : d[i] = x) <=> \E i \in 1 .. N - 1 : b[i] = x
  <2>1. ASSUME x # f, NEW i \in 1 .. N, d[i] = x PROVE \E j \in 1 .. N - 1 : b[j] = x
    <3>1. i # k
      BY <1>2, <2>1
    <3>2. PICK j \in 1 .. N - 1 : j = IF i < k THEN i ELSE i - 1
      BY <1>2, <3>1
    <3>3. (IF j < k THEN j ELSE j + 1) = i
      BY <1>2, <3>1, <3>2
    <3>4. b[j] = d[i]
      BY <1>3, <3>3
    <3> QED
      BY <2>1, <3>4
  <2>2. ASSUME NEW j \in 1 .. N - 1, b[j] = x PROVE x # f /\ \E i \in 1 .. N : d[i] = x
    <3>1. PICK i \in 1 .. N : i = IF j < k THEN j ELSE j + 1
      BY <1>2
    <3>2. b[j] = d[i] /\ i # k
      BY <1>2, <1>3, <3>1
    <3> QED
      BY <1>2, <1>4, <2>2, <3>2
  <2> QED
    BY <2>1, <2>2
<1>7. \A x \in Files : e.content[x] # None <=> \E i \in 1 .. N : d[i] = x
  BY <1>1, <1>2 DEF Stored
<1>8. /\ g.content \in [Files -> AllTexts \cup {None}] /\ g.content[f] = None
      /\ \A x \in Files : x # f => g.content[x] = e.content[x]
  BY <1>2 DEF Stored
<1>9. DOMAIN b = 1 .. N - 1 /\ g.documents = b /\ g.disk \in [Files -> AllTexts]
  BY <1>1, <1>2, <1>3 DEF Stored
<1>10. ASSUME NEW x \in Files
       PROVE  /\ g.disk[x] \in Texts[x]
              /\ g.content[x] # None => g.content[x] \in Texts[x]
              /\ g.content[x] # None <=> \E i \in DOMAIN g.documents : g.documents[i] = x
  BY <1>6, <1>7, <1>8, <1>9 DEF Stored
<1> QED
  BY <1>3, <1>5, <1>8, <1>9, <1>10 DEF Stored

\* While nothing changes in the editor's eyes, no parse does.
LEMMA SameTexts ==
    ASSUME Room, NEW e, NEW f, Stored(e), Stored(f), Found(e) = Found(f),
           \A x \in Files : Buffer(e, x) = Buffer(f, x), NEW s \in Files
    PROVE  Reached(e, s) = Reached(f, s) /\ Parse(e, s) = Parse(f, s)
<1>1. \A c \in Copies : Seen(e, c) = Seen(f, c)
  BY SeenIsBuffer DEF Files
<1>2. Reached(e, s) \subseteq Copies
  BY ReachedIsFound DEF Room
<1> QED
  BY <1>1, <1>2, SameParse DEF Room

\* Nor does that of a source that has not changed and does not read what has.
LEMMA OtherTexts ==
    ASSUME Room, Steady, NEW e, NEW f, Stored(e), Stored(f), Found(e) = Found(f),
           NEW s \in Files, Buffer(e, s) = Buffer(f, s)
    PROVE  /\ Reached(e, s) = Reached(f, s) /\ Reached(e, s) \subseteq Copies
           /\ (\A c \in Reached(e, s) : Buffer(e, c) = Buffer(f, c)) => Parse(e, s) = Parse(f, s)
<1>1. \A c \in Copies : Seen(e, c).copies = Seen(f, c).copies
  BY SteadySeen
<1>2. \A c \in Copies : Seen(e, c) = Buffer(e, c) /\ Seen(f, c) = Buffer(f, c)
  BY SeenIsBuffer
<1>3. Reached(e, s) = Reached(f, s) /\ Reached(e, s) \subseteq Copies
  BY <1>1, SameReached, ReachedIsFound DEF Room
<1>4. ASSUME \A c \in Reached(e, s) : Buffer(e, c) = Buffer(f, c) PROVE Parse(e, s) = Parse(f, s)
  <2>1. \A c \in Reached(e, s) : Seen(e, c) = Seen(f, c)
    BY <1>2, <1>3, <1>4
  <2> QED
    BY <1>1, <2>1, SameParse DEF Room
<1> QED
  BY <1>3, <1>4

(***************************************************************************)
(* What the invariant says of the parses w in the environment e.           *)
(***************************************************************************)
\* What an open source shows is what it would show now, and the index knows
\* whatever it copies.
SourcesOK(w, e) == \A s \in Sources : e.content[s] # None => SourceParsed(e, s, w)

\* So is what an open COPY file shows of itself; if its parent copies it the
\* index knows, and if the index knows none its parent is one the disk lists.
CopyOK(w, e, c) ==
    /\ e.content[c] = None => w.shown[c] = None /\ w.parent[c] = None
    /\ w.shown[c] # None =>
          /\ w.parent[c] \in Sources
          /\ c \in DOMAIN w.shown[c].parse.copies <=> c \in Reached(e, w.parent[c])
          /\ c \in Reached(e, w.parent[c]) =>
                /\ w.shown[c].parse.source = w.parent[c]
                /\ w.shown[c].parse.text = Buffer(e, w.parent[c])
                /\ w.shown[c].parse.copies[c] = e.content[c]
    /\ w.parent[c] \in Sources =>
          /\ c \in Reached(e, w.parent[c]) => Contains(w.index[c], w.parent[c])
          /\ w.index[c] # << >> \/ w.parent[c] \in Listed
CopiesOK(w, e) == \A c \in Copies : CopyOK(w, e, c)

LEMMA CopyOKOn ==
    ASSUME NEW e, NEW g, NEW w, NEW v, IsW(w), IsW(v), Grows(w, v), NEW c \in Copies,
           v.shown[c] = w.shown[c], v.parent[c] = w.parent[c], CopyOK(w, e, c), g.content[c] = e.content[c],
           w.parent[c] \in Sources =>
               /\ c \in Reached(e, w.parent[c]) <=> c \in Reached(g, w.parent[c])
               /\ Buffer(e, w.parent[c]) = Buffer(g, w.parent[c])
    PROVE  CopyOK(v, g, c)
<1>1. PICK s, p : s = w.parent[c] /\ p = w.shown[c]
  OBVIOUS
<1>2. /\ e.content[c] = None => p = None /\ s = None
      /\ p # None =>
            /\ s \in Sources
            /\ c \in DOMAIN p.parse.copies <=> c \in Reached(e, s)
            /\ c \in Reached(e, s) =>
                  p.parse.source = s /\ p.parse.text = Buffer(e, s) /\ p.parse.copies[c] = e.content[c]
      /\ s \in Sources =>
            /\ c \in Reached(e, s) => Contains(w.index[c], s)
            /\ w.index[c] # << >> \/ s \in Listed
  BY <1>1, Zenon DEF CopyOK
<1>3. Contains(w.index[c], s) => Contains(v.index[c], s)
  BY DEF Grows
<1>4. w.index[c] # << >> => v.index[c] # << >>
  BY GrowsKeeps
<1>5. v.shown[c] = p /\ v.parent[c] = s
  BY <1>1
<1>6. s \in Sources => (c \in Reached(e, s) <=> c \in Reached(g, s)) /\ Buffer(e, s) = Buffer(g, s)
  BY <1>1
<1>7. g.content[c] = None => p = None /\ s = None
  BY <1>2
<1>8. p # None =>
            /\ s \in Sources
            /\ c \in DOMAIN p.parse.copies <=> c \in Reached(g, s)
            /\ c \in Reached(g, s) =>
                  p.parse.source = s /\ p.parse.text = Buffer(g, s) /\ p.parse.copies[c] = g.content[c]
  BY <1>2, <1>6
<1>9. s \in Sources =>
            /\ c \in Reached(g, s) => Contains(v.index[c], s)
            /\ v.index[c] # << >> \/ s \in Listed
  BY <1>2, <1>3, <1>4, <1>6
<1> QED
  BY <1>5, <1>7, <1>8, <1>9, Zenon DEF CopyOK

LEMMA CopyParsedOK ==
    ASSUME Room, NEW e, NEW g, Stored(g), NEW w, NEW v, IsW(w), IsW(v), Grows(w, v), NEW c \in Copies,
           CopyOK(w, e, c), g.content[c] # None, CopyParsed(g, c, w, v),
           w.index[c] = << >> /\ ~ Named(g, c) /\ w.parent[c] \in Sources =>
               c \notin Reached(g, w.parent[c])
    PROVE  CopyOK(v, g, c)
<1>1. CASE /\ w.index[c] = << >> /\ ~ Named(g, c)
           /\ v.shown[c] = w.shown[c] /\ v.parent[c] = w.parent[c]
  <2>1. PICK s, p : s = w.parent[c] /\ p = w.shown[c]
    OBVIOUS
  <2>2. ~ Contains(w.index[c], s)
    BY <1>1 DEF Contains
  <2>3. s \in Sources => c \notin Reached(e, s) /\ c \notin Reached(g, s) /\ s \in Listed
    BY <1>1, <2>1, <2>2 DEF CopyOK
  <2>4. p # None => s \in Sources /\ (c \in DOMAIN p.parse.copies <=> c \in Reached(e, s))
    BY <2>1 DEF CopyOK
  <2>5. v.shown[c] = p /\ v.parent[c] = s
    BY <1>1, <2>1
  <2> QED
    BY <2>3, <2>4, <2>5, Zenon DEF CopyOK
<1>2. CASE /\ v.parent[c] \in Sources
           /\ v.shown[c] = [parse |-> Parse(g, v.parent[c])]
           /\ c \in Reached(g, v.parent[c]) => Contains(v.index[c], v.parent[c])
           /\ v.index[c] # << >> \/ v.parent[c] \in Listed
  <2>1. PICK s, p : s = v.parent[c] /\ p = v.shown[c].parse
    OBVIOUS
  <2>2. p = Parse(g, s)
    BY <1>2, <2>1
  <2>3. /\ p.source = s /\ p.text = Buffer(g, s)
        /\ p.copies = [d \in Reached(g, s) |-> Seen(g, d)]
    BY <2>2 DEF Parse
  <2>4. Seen(g, c) = g.content[c]
    BY SeenIsBuffer DEF Buffer
  <2>5. DOMAIN p.copies = Reached(g, s) /\ (c \in Reached(g, s) => p.copies[c] = g.content[c])
    BY <2>3, <2>4
  <2> QED
    BY <1>2, <2>1, <2>3, <2>5, Zenon DEF CopyOK
<1> QED
  BY <1>1, <1>2 DEF CopyParsed

LEMMA SourceOn ==
    ASSUME IsFiniteSet(Copies), NEW e, NEW g, NEW w, NEW v, NEW s, SourceParsed(e, s, w),
           Parse(e, s) = Parse(g, s), Reached(e, s) = Reached(g, s), e.style = g.style,
           Grows(w, v), v.shown[s] = w.shown[s]
    PROVE  SourceParsed(g, s, v)
<1>1. SourceParsed(g, s, w)
  BY DEF SourceParsed
<1> QED
  BY <1>1, SourceParsedOn

-----------------------------------------------------------------------------
(* The messages.  To open a file as the disk has it, or to save it, changes *)
(* no text; the file itself is parsed.                                      *)
LEMMA QuietKeeps ==
    ASSUME Room, NEW e, NEW g, NEW w, NEW v, NEW f \in Files, Stored(e), Stored(g), IsW(w),
           Found(e) = Found(g), e.style = g.style, \A x \in Files : Buffer(e, x) = Buffer(g, x),
           \A x \in Files : x # f => g.content[x] = e.content[x], g.content[f] # None,
           v = Reparse(w, g, f), SourcesOK(w, e)
    PROVE  /\ IsW(v) /\ SourcesOK(v, g)
           /\ CopiesOK(w, e) /\ (e.content[f] = None \/ e.content[f] = g.content[f]) => CopiesOK(v, g)
<1>1. IsFiniteSet(Copies) /\ Sources \subseteq Files /\ Copies \subseteq Files
  BY DEF Room, Files
<1>2. IsW(v) /\ Grows(w, v) /\ Others(f, w, v) /\ Parsed(g, w, v, f)
  BY <1>1, ReparseParses
<1>3. \A s \in Files : Reached(e, s) = Reached(g, s) /\ Parse(e, s) = Parse(g, s)
  BY SameTexts
<1>4. ASSUME NEW s \in Sources, g.content[s] # None PROVE SourceParsed(g, s, v)
  <2>1. s \notin Copies /\ s \in Files
    BY <1>1, LspAssumption
  <2>2. CASE s = f
    BY <1>2, <2>1, <2>2 DEF Parsed
  <2>3. CASE s # f
    <3>1. SourceParsed(e, s, w) /\ v.shown[s] = w.shown[s]
      BY <1>2, <1>4, <2>1, <2>3 DEF SourcesOK, Others
    <3> QED
      BY <1>1, <1>2, <1>3, <2>1, <3>1, SourceOn
  <2> QED
    BY <2>2, <2>3
<1>5. ASSUME CopiesOK(w, e), e.content[f] = None \/ e.content[f] = g.content[f], NEW c \in Copies
      PROVE  CopyOK(v, g, c)
  <2>1. CopyOK(w, e, c) /\ c \in Files
    BY <1>1, <1>5 DEF CopiesOK
  <2>2. \A s \in Sources : Reached(e, s) = Reached(g, s) /\ Buffer(e, s) = Buffer(g, s)
    BY <1>1, <1>3
  <2>3. CASE c = f
    <3>1. CopyParsed(g, c, w, v)
      BY <1>2, <2>3 DEF Parsed
    <3>2. ASSUME w.index[c] = << >>, w.parent[c] \in Sources PROVE c \notin Reached(g, w.parent[c])
      <4>1. ~ Contains(w.index[c], w.parent[c])
        BY <3>2 DEF Contains
      <4>2. c \notin Reached(e, w.parent[c])
        BY <2>1, <3>2, <4>1 DEF CopyOK
      <4> QED
        BY <2>2, <3>2, <4>2
    <3> QED
      BY <1>2, <2>1, <2>3, <3>1, <3>2, CopyParsedOK
  <2>4. CASE c # f
    <3>1. v.shown[c] = w.shown[c] /\ v.parent[c] = w.parent[c] /\ g.content[c] = e.content[c]
      BY <1>2, <2>1, <2>4 DEF Others
    <3> QED
      BY <1>2, <2>1, <2>2, <3>1, CopyOKOn
  <2> QED
    BY <2>3, <2>4
<1> QED
  BY <1>2, <1>4, <1>5 DEF SourcesOK, CopiesOK

\* To type in a source changes its own text.
LEMMA SourceChangeKeeps ==
    ASSUME Room, Steady, NEW e, NEW g, NEW w, NEW u, NEW v, NEW f \in Sources, Stored(e), Stored(g), IsW(w),
           Found(e) = Found(g), e.style = g.style, \A x \in Files : x # f => Buffer(e, x) = Buffer(g, x),
           \A x \in Files : x # f => g.content[x] = e.content[x], g.content[f] # None,
           u = ParseSource(w, g, f), v = ReparseEach(u, g, {}, {f}), SourcesOK(w, e)
    PROVE  IsW(v) /\ SourcesOK(v, g) /\ (CopiesOK(w, e) => CopiesOK(v, g))
<1>1. IsFiniteSet(Copies) /\ Sources \subseteq Files /\ Copies \subseteq Files /\ f \notin Copies
  BY LspAssumption DEF Room, Files
<1>2. IsW(u) /\ Grows(w, u) /\ Others(f, w, u) /\ SourceParsed(g, f, u) /\ u.parent = w.parent
  BY <1>1, SourceIsParsed
<1>3. /\ IsW(v) /\ Grows(u, v)
      /\ \A x \in Files : IF g.content[x] # None /\ Asked(u, x, {}, {f})
                          THEN Parsed(g, u, v, x) ELSE Kept(x, u, v)
  BY <1>1, <1>2, EachDoes
<1>4. Grows(w, v)
  BY <1>2, <1>3, GrowsOn
<1>5. \A s \in Sources : s # f => /\ Reached(e, s) = Reached(g, s) /\ Reached(e, s) \subseteq Copies
                                  /\ Buffer(e, s) = Buffer(g, s) /\ Parse(e, s) = Parse(g, s)
  <2> SUFFICES ASSUME NEW s \in Sources, s # f
               PROVE  /\ Reached(e, s) = Reached(g, s) /\ Reached(e, s) \subseteq Copies
                      /\ Buffer(e, s) = Buffer(g, s) /\ Parse(e, s) = Parse(g, s)
    OBVIOUS
  <2>1. s \in Files /\ Buffer(e, s) = Buffer(g, s)
    BY <1>1
  <2>2. /\ Reached(e, s) = Reached(g, s) /\ Reached(e, s) \subseteq Copies
        /\ (\A c \in Reached(e, s) : Buffer(e, c) = Buffer(g, c)) => Parse(e, s) = Parse(g, s)
    BY <2>1, OtherTexts
  <2>3. \A c \in Reached(e, s) : Buffer(e, c) = Buffer(g, c)
    BY <1>1, <2>2
  <2> QED
    BY <2>1, <2>2, <2>3
<1>6. ASSUME NEW s \in Sources, g.content[s] # None PROVE SourceParsed(g, s, v)
  <2>1. s \notin Copies /\ s \in Files
    BY <1>1, LspAssumption
  <2>2. v.shown[s] = u.shown[s]
    BY <1>3, <2>1 DEF Asked, Kept
  <2>3. CASE s = f
    BY <1>1, <1>2, <1>3, <2>2, <2>3, SourceParsedOn
  <2>4. CASE s # f
    <3>1. SourceParsed(e, s, w) /\ v.shown[s] = w.shown[s]
      BY <1>2, <1>6, <2>1, <2>2, <2>4 DEF SourcesOK, Others
    <3> QED
      BY <1>1, <1>4, <1>5, <2>4, <3>1, SourceOn
  <2> QED
    BY <2>3, <2>4
<1>7. ASSUME CopiesOK(w, e), NEW c \in Copies PROVE CopyOK(v, g, c)
  <2>1. CopyOK(w, e, c) /\ c \in Files /\ c # f /\ g.content[c] = e.content[c]
    BY <1>1, <1>7 DEF CopiesOK
  <2>2. u.shown[c] = w.shown[c] /\ u.parent[c] = w.parent[c]
    BY <1>2, <2>1 DEF Others
  <2>3. CASE w.parent[c] = f /\ g.content[c] # None
    <3>1. CopyParsed(g, c, u, v)
      BY <1>3, <2>1, <2>2, <2>3 DEF Asked, Parsed
    <3>2. CopyOK(u, e, c)
      BY <1>2, <2>1, <2>2, CopyOKOn
    <3>3. u.index[c] = << >> => c \notin Reached(g, f)
      BY <1>2 DEF SourceParsed, Contains
    <3> QED
      BY <1>2, <1>3, <2>1, <2>2, <2>3, <3>1, <3>2, <3>3, CopyParsedOK
  <2>4. CASE ~ (w.parent[c] = f /\ g.content[c] # None)
    <3>1. v.shown[c] = w.shown[c] /\ v.parent[c] = w.parent[c]
      BY <1>1, <1>3, <2>1, <2>2, <2>4 DEF Asked, Kept
    <3>2. w.parent[c] \in Sources => w.parent[c] # f
      <4>1. g.content[c] = None => w.parent[c] = None
        BY <2>1 DEF CopyOK
      <4> QED
        BY <2>4, <4>1, LspAssumption DEF Files
    <3> QED
      BY <1>3, <1>4, <1>5, <2>1, <3>1, <3>2, CopyOKOn
  <2> QED
    BY <2>3, <2>4
<1> QED
  BY <1>3, <1>6, <1>7 DEF SourcesOK, CopiesOK

\* To type in a COPY file changes what its sources are given, not what they copy.
LEMMA CopyChangeKeeps ==
    ASSUME Room, Steady, NEW e, NEW g, NEW w, NEW u, NEW v, NEW f \in Copies, Stored(e), Stored(g), IsW(w),
           Found(e) = Found(g), e.style = g.style, \A x \in Files : x # f => Buffer(e, x) = Buffer(g, x),
           \A x \in Files : x # f => g.content[x] = e.content[x], g.content[f] # None,
           u = document_parse_copy(w, g, f), v = ParseDependents(u, g, f), SourcesOK(w, e)
    PROVE  IsW(v) /\ SourcesOK(v, g) /\ (CopiesOK(w, e) => CopiesOK(v, g))
<1>1. IsFiniteSet(Copies) /\ Sources \subseteq Files /\ Copies \subseteq Files /\ Sources \cap Copies = {}
  BY LspAssumption DEF Room, Files
<1>2. IsW(u) /\ Grows(w, u) /\ Others(f, w, u) /\ CopyParsed(g, f, w, u)
  BY <1>1, CopyIsParsed
<1>3. PICK new : new = [x \in Files |-> IF Contains(u.index[f], x) /\ g.content[x] # None
                                        THEN [parse |-> Parse(g, x), style |-> g.style] ELSE u.shown[x]]
  OBVIOUS
<1>4. v = [u EXCEPT !.shown = new]
  BY <1>3 DEF ParseDependents
<1>5. v = [index |-> u.index, parent |-> u.parent, shown |-> new]
  BY <1>2, <1>4 DEF IsW
<1>6. v.index = u.index /\ v.parent = u.parent /\ v.shown = new
  BY <1>5
<1>7. IsW(v)
  <2>1. new = [x \in Files |-> new[x]]
    BY <1>3
  <2> QED
    BY <1>2, <1>5, <2>1 DEF IsW
<1>8. Grows(u, v) /\ Grows(w, v)
  BY <1>2, <1>6 DEF Grows
<1>9. \A s \in Sources : /\ Reached(e, s) = Reached(g, s) /\ Reached(e, s) \subseteq Copies
                         /\ Buffer(e, s) = Buffer(g, s)
                         /\ f \notin Reached(e, s) => Parse(e, s) = Parse(g, s)
  <2> SUFFICES ASSUME NEW s \in Sources
               PROVE  /\ Reached(e, s) = Reached(g, s) /\ Reached(e, s) \subseteq Copies
                      /\ Buffer(e, s) = Buffer(g, s)
                      /\ f \notin Reached(e, s) => Parse(e, s) = Parse(g, s)
    OBVIOUS
  <2>1. s \in Files /\ s # f /\ Buffer(e, s) = Buffer(g, s)
    BY <1>1
  <2>2. /\ Reached(e, s) = Reached(g, s) /\ Reached(e, s) \subseteq Copies
        /\ (\A c \in Reached(e, s) : Buffer(e, c) = Buffer(g, c)) => Parse(e, s) = Parse(g, s)
    BY <2>1, OtherTexts
  <2>3. f \notin Reached(e, s) => \A c \in Reached(e, s) : Buffer(e, c) = Buffer(g, c)
    BY <1>1, <2>2
  <2> QED
    BY <2>1, <2>2, <2>3
<1>10. ASSUME NEW s \in Sources, g.content[s] # None PROVE SourceParsed(g, s, v)
  <2>1. s \in Files /\ s # f
    BY <1>1
  <2>2. SourceParsed(e, s, w)
    BY <1>10, <2>1 DEF SourcesOK
  <2>3. \A c \in Reached(g, s) : Contains(w.index[c], s) /\ Contains(v.index[c], s)
    BY <1>8, <1>9, <2>2 DEF SourceParsed, Grows
  <2>4. CASE Contains(u.index[f], s)
    <3>1. v.shown[s] = [parse |-> Parse(g, s), style |-> g.style]
      BY <1>3, <1>6, <1>10, <2>1, <2>4
    <3> QED
      BY <2>3, <3>1 DEF SourceParsed
  <2>5. CASE ~ Contains(u.index[f], s)
    <3>1. v.shown[s] = w.shown[s]
      BY <1>2, <1>3, <1>6, <2>1, <2>5 DEF Others
    <3>2. f \notin Reached(e, s)
      BY <1>2, <1>9, <2>3, <2>5 DEF Grows
    <3> QED
      BY <1>1, <1>8, <1>9, <2>2, <3>1, <3>2, SourceOn
  <2> QED
    BY <2>4, <2>5
<1>11. ASSUME CopiesOK(w, e), NEW c \in Copies PROVE CopyOK(v, g, c)
  <2>1. CopyOK(w, e, c) /\ c \in Files
    BY <1>1, <1>11 DEF CopiesOK
  <2>2. ~ Contains(u.index[f], c)
    <3>1. u.index[f] \in Seq(Sources) /\ c \notin Sources
      BY <1>1, <1>2 DEF IsW
    <3> QED
      BY <3>1 DEF Contains
  <2>3. v.shown[c] = u.shown[c] /\ v.parent[c] = u.parent[c]
    BY <1>3, <1>6, <2>1, <2>2
  <2>4. CASE c = f
    <3>1. ASSUME w.index[c] = << >>, w.parent[c] \in Sources PROVE c \notin Reached(g, w.parent[c])
      <4>1. ~ Contains(w.index[c], w.parent[c])
        BY <3>1 DEF Contains
      <4>2. c \notin Reached(e, w.parent[c])
        BY <2>1, <3>1, <4>1 DEF CopyOK
      <4> QED
        BY <1>9, <3>1, <4>2
    <3>2. CopyOK(u, g, c)
      BY <1>2, <2>1, <2>4, <3>1, CopyParsedOK
    <3> QED
      BY <1>2, <1>7, <1>8, <2>3, <3>2, CopyOKOn
  <2>5. CASE c # f
    <3>1. v.shown[c] = w.shown[c] /\ v.parent[c] = w.parent[c] /\ g.content[c] = e.content[c]
      BY <1>2, <2>1, <2>3, <2>5 DEF Others
    <3> QED
      BY <1>7, <1>8, <1>9, <2>1, <3>1, CopyOKOn
  <2> QED
    BY <2>4, <2>5
<1> QED
  BY <1>7, <1>10, <1>11 DEF SourcesOK, CopiesOK

\* To close a file as the disk has it changes no text either.
LEMMA CloseKeeps ==
    ASSUME Room, NEW e, NEW g, NEW w, NEW v, NEW f \in Files, Stored(e), Stored(g), IsW(w),
           Found(e) = Found(g), e.style = g.style, \A x \in Files : Buffer(e, x) = Buffer(g, x),
           \A x \in Files : x # f => g.content[x] = e.content[x], g.content[f] = None,
           v = [index |-> w.index, parent |-> [c \in Copies |-> IF c = f THEN None ELSE w.parent[c]],
                shown |-> [w.shown EXCEPT ![f] = None]],
           SourcesOK(w, e)
    PROVE  IsW(v) /\ SourcesOK(v, g) /\ (CopiesOK(w, e) => CopiesOK(v, g))
<1>1. IsFiniteSet(Copies) /\ Sources \subseteq Files /\ Copies \subseteq Files
  BY DEF Room, Files
<1>2. \A s \in Files : Reached(e, s) = Reached(g, s) /\ Parse(e, s) = Parse(g, s)
  BY SameTexts
<1>3. v.index = w.index /\ Grows(w, v)
  BY DEF Grows
<1>4. /\ \A c \in Copies : v.parent[c] = IF c = f THEN None ELSE w.parent[c]
      /\ \A x \in Files : v.shown[x] = IF x = f THEN None ELSE w.shown[x]
  BY DEF IsW
<1>5. IsW(v)
  <2>1. v.index \in [Copies -> Seq(Sources)]
    BY <1>3 DEF IsW
  <2>2. v.parent \in [Copies -> Sources \cup {None}]
    BY DEF IsW
  <2>3. v.shown = [x \in Files |-> v.shown[x]]
    BY DEF IsW
  <2>4. v = [index |-> v.index, parent |-> v.parent, shown |-> v.shown]
    OBVIOUS
  <2> QED
    BY <2>1, <2>2, <2>3, <2>4 DEF IsW
<1>6. ASSUME NEW s \in Sources, g.content[s] # None PROVE SourceParsed(g, s, v)
  <2>1. s \in Files /\ s # f
    BY <1>1, <1>6
  <2>2. SourceParsed(e, s, w) /\ v.shown[s] = w.shown[s]
    BY <1>4, <1>6, <2>1 DEF SourcesOK
  <2> QED
    BY <1>1, <1>2, <1>3, <2>1, <2>2, SourceOn
<1>7. ASSUME CopiesOK(w, e), NEW c \in Copies PROVE CopyOK(v, g, c)
  <2>1. CopyOK(w, e, c) /\ c \in Files
    BY <1>1, <1>7 DEF CopiesOK
  <2>2. CASE c = f
    <3>1. v.shown[c] = None /\ v.parent[c] = None /\ None \notin Sources
      BY <1>4, <2>1, <2>2, LspAssumption DEF Files
    <3> QED
      BY <3>1, Zenon DEF CopyOK
  <2>3. CASE c # f
    <3>1. v.shown[c] = w.shown[c] /\ v.parent[c] = w.parent[c] /\ g.content[c] = e.content[c]
      BY <1>4, <2>1, <2>3
    <3>2. \A s \in Sources : Reached(e, s) = Reached(g, s) /\ Buffer(e, s) = Buffer(g, s)
      BY <1>1, <1>2
    <3> QED
      BY <1>3, <1>5, <2>1, <3>1, <3>2, CopyOKOn
  <2> QED
    BY <2>2, <2>3
<1> QED
  BY <1>5, <1>6, <1>7 DEF SourcesOK, CopiesOK

\* With include paths more is found; everything that is open is parsed again.
LEMMA ConfigureKeeps ==
    ASSUME Room, NEW e, NEW g, NEW w, NEW u, NEW v, Stored(e), Stored(g), IsW(w),
           g.content = e.content,
           u = ReparseEach(w, g, Sources, {}), v = ReparseEach(u, g, {}, Sources \cup {None}),
           SourcesOK(w, e)
    PROVE  /\ IsW(v) /\ SourcesOK(v, g)
           /\ CopiesOK(w, e) /\ (\A c \in Copies : Seen(g, c).copies = {}) => CopiesOK(v, g)
<1>1. /\ IsFiniteSet(Copies) /\ Sources \subseteq Files /\ Copies \subseteq Files
      /\ Sources \cap Copies = {} /\ None \notin Sources
  BY LspAssumption DEF Room, Files
<1>2. /\ IsW(u) /\ Grows(w, u)
      /\ \A x \in Files : IF g.content[x] # None /\ Asked(w, x, Sources, {})
                          THEN Parsed(g, w, u, x) ELSE Kept(x, w, u)
  BY <1>1, EachDoes
<1>3. /\ IsW(v) /\ Grows(u, v)
      /\ \A x \in Files : IF g.content[x] # None /\ Asked(u, x, {}, Sources \cup {None})
                          THEN Parsed(g, u, v, x) ELSE Kept(x, u, v)
  BY <1>1, <1>2, EachDoes
<1>4. Grows(w, v)
  BY <1>2, <1>3, GrowsOn
<1>5. ASSUME NEW s \in Sources, g.content[s] # None PROVE SourceParsed(g, s, u) /\ SourceParsed(g, s, v)
  <2>1. SourceParsed(g, s, u)
    BY <1>1, <1>2, <1>5 DEF Asked, Parsed
  <2>2. v.shown[s] = u.shown[s]
    BY <1>1, <1>3 DEF Asked, Kept
  <2> QED
    BY <1>1, <1>3, <2>1, <2>2, SourceParsedOn
<1>6. ASSUME CopiesOK(w, e), \A c \in Copies : Seen(g, c).copies = {}, NEW c \in Copies
      PROVE  CopyOK(v, g, c)
  <2>1. CopyOK(w, e, c) /\ c \in Files
    BY <1>1, <1>6 DEF CopiesOK
  <2>2. u.shown[c] = w.shown[c] /\ u.parent[c] = w.parent[c]
    BY <1>1, <1>2, <2>1 DEF Asked, Kept
  <2>3. CopyOK(u, e, c)
    BY <1>2, <2>1, <2>2, CopyOKOn
  <2>4. CASE g.content[c] # None
    <3>1. CopyParsed(g, c, u, v)
      <4>1. u.parent[c] \in Sources \cup {None}
        BY <1>2 DEF IsW
      <4> QED
        BY <1>3, <2>1, <2>4, <4>1 DEF Asked, Parsed
    <3>2. ASSUME u.index[c] = << >>, ~ Named(g, c), NEW s, s = u.parent[c], s \in Sources
          PROVE  c \notin Reached(g, s)
      <4>1. CASE g.content[s] # None
        <5>1. SourceParsed(g, s, u)
          BY <1>5, <3>2, <4>1
        <5>2. ~ Contains(u.index[c], s)
          BY <3>2 DEF Contains
        <5> QED
          BY <5>1, <5>2 DEF SourceParsed
      <4>2. CASE g.content[s] = None
        <5>1. s \in Listed
          BY <2>3, <3>2 DEF CopyOK
        <5>2. c \notin g.disk[s].copies
          BY <3>2, <5>1 DEF Named
        <5>3. Reached(g, s) = Buffer(g, s).copies \cap Found(g)
          BY <1>1, <1>6, FlatReached
        <5> QED
          BY <4>2, <5>2, <5>3 DEF Buffer
      <4> QED
        BY <4>1, <4>2
    <3> QED
      BY <1>2, <1>3, <2>3, <2>4, <3>1, <3>2, CopyParsedOK
  <2>5. CASE g.content[c] = None
    <3>1. v.shown[c] = u.shown[c] /\ v.parent[c] = u.parent[c]
      BY <1>3, <2>1, <2>5 DEF Kept
    <3>2. u.shown[c] = None /\ u.parent[c] = None
      BY <2>3, <2>5 DEF CopyOK
    <3>3. v.shown[c] = None /\ v.parent[c] = None
      BY <3>1, <3>2
    <3> QED
      BY <1>1, <3>3, Zenon DEF CopyOK
  <2> QED
    BY <2>4, <2>5
<1> QED
  BY <1>3, <1>5, <1>6 DEF SourcesOK, CopiesOK

-----------------------------------------------------------------------------
(***************************************************************************)
(* The specification.                                                      *)
(***************************************************************************)
Configured == pending => paths = FALSE /\ style = DefaultStyle
DocInv == Stored(E) /\ IsW(W) /\ Configured /\ SourcesOK(W, E)
Current == CopiesOK(W, E)

\* How a step looks from the environments and the parses before and after it.
LEMMA DidOpenKeeps ==
    ASSUME Room, DocInv, NEW f \in Files, NEW t \in Texts[f], DidOpen(f, t)
    PROVE  DocInv' /\ (Current => Current')
<1>1. PICK e, g, w, v : e = E /\ g = E' /\ w = W /\ v = Reparse(w, g, f)
  OBVIOUS
<1>2. /\ g.documents = Append(e.documents, f) /\ g.content = [e.content EXCEPT ![f] = t]
      /\ g.disk = e.disk /\ g.paths = e.paths /\ g.style = e.style
      /\ e.content[f] = None /\ t = e.disk[f]
      /\ UNCHANGED << paths, style, pending >>
  BY <1>1 DEF DidOpen, docstore_open, E, Room
<1>3. Stored(e) /\ IsW(w) /\ SourcesOK(w, e) /\ Configured
  BY <1>1 DEF DocInv
<1>4. Stored(g)
  BY <1>2, <1>3, OpenStored
<1>5. t # None
  BY LspAssumption
<1>6. /\ \A x \in Files : x # f => g.content[x] = e.content[x]
      /\ g.content[f] = t
  BY <1>2, <1>3 DEF Stored
<1>7. \A x \in Files : Buffer(e, x) = Buffer(g, x)
  BY <1>2, <1>5, <1>6 DEF Buffer
<1>8. Found(e) = Found(g)
  BY <1>2 DEF Found
<1>9. IsW(v) /\ SourcesOK(v, g) /\ (CopiesOK(w, e) => CopiesOK(v, g))
  <2>1. /\ v = Reparse(w, g, f) /\ e.style = g.style
        /\ g.content[f] # None /\ e.content[f] = None
    BY <1>1, <1>2, <1>5, <1>6
  <2>2. /\ IsW(v) /\ SourcesOK(v, g)
        /\ CopiesOK(w, e) /\ (e.content[f] = None \/ e.content[f] = g.content[f]) => CopiesOK(v, g)
    BY <1>3, <1>4, <1>6, <1>7, <1>8, <2>1, QuietKeeps
  <2> QED
    BY <2>1, <2>2
<1>10. v = W'
  <2>1. index' = v.index /\ parent' = v.parent /\ shown' = v.shown
    BY <1>1 DEF DidOpen, Becomes
  <2> QED
    BY <1>9, <2>1 DEF IsW, W
<1>11. Configured'
  BY <1>2, <1>3 DEF Configured
<1> QED
  BY <1>1, <1>4, <1>9, <1>10, <1>11 DEF DocInv, Current

LEMMA DidSaveKeeps ==
    ASSUME Room, DocInv, NEW f \in Files, DidSave(f)
    PROVE  DocInv' /\ (Current => Current')
<1>1. PICK e, g, w, v : e = E /\ g = E' /\ w = W /\ v = Reparse(w, g, f)
  OBVIOUS
<1>2. /\ g.documents = e.documents /\ g.content = e.content
      /\ g.disk = [e.disk EXCEPT ![f] = e.content[f]]
      /\ g.paths = e.paths /\ g.style = e.style
      /\ e.content[f] # None
      /\ UNCHANGED << paths, style, pending >>
  BY <1>1 DEF DidSave, E
<1>3. Stored(e) /\ IsW(w) /\ SourcesOK(w, e) /\ Configured
  BY <1>1 DEF DocInv
<1>4. Stored(g)
  BY <1>2, <1>3, SaveStored
<1>5. g.disk[f] = e.content[f] /\ \A x \in Files : x # f => g.disk[x] = e.disk[x]
  BY <1>2, <1>3 DEF Stored
<1>6. \A x \in Files : Buffer(e, x) = Buffer(g, x)
  BY <1>2, <1>5 DEF Buffer
<1>7. Found(e) = Found(g)
  BY <1>2 DEF Found
<1>8. IsW(v) /\ SourcesOK(v, g) /\ (CopiesOK(w, e) => CopiesOK(v, g))
  <2>1. /\ v = Reparse(w, g, f) /\ e.style = g.style
        /\ g.content[f] # None /\ e.content[f] = g.content[f]
        /\ \A x \in Files : x # f => g.content[x] = e.content[x]
    BY <1>1, <1>2
  <2>2. /\ IsW(v) /\ SourcesOK(v, g)
        /\ CopiesOK(w, e) /\ (e.content[f] = None \/ e.content[f] = g.content[f]) => CopiesOK(v, g)
    BY <1>3, <1>4, <1>6, <1>7, <2>1, QuietKeeps
  <2> QED
    BY <2>1, <2>2
<1>9. v = W'
  <2>1. index' = v.index /\ parent' = v.parent /\ shown' = v.shown
    BY <1>1 DEF DidSave, Becomes
  <2> QED
    BY <1>8, <2>1 DEF IsW, W
<1>10. Configured'
  BY <1>2, <1>3 DEF Configured
<1> QED
  BY <1>1, <1>4, <1>8, <1>9, <1>10 DEF DocInv, Current

LEMMA DidChangeKeeps ==
    ASSUME Room, Steady, DocInv, NEW f \in Files, NEW t \in Texts[f], DidChange(f, t)
    PROVE  DocInv' /\ (Current => Current')
<1>1. PICK e, g, w, u, v : /\ e = E /\ g = E' /\ w = W /\ u = Reparse(w, g, f)
                           /\ v = IF f \in Copies THEN ParseDependents(u, g, f)
                                  ELSE ReparseEach(u, g, {}, {f})
  OBVIOUS
<1>2. /\ g.documents = e.documents /\ g.content = [e.content EXCEPT ![f] = t]
      /\ g.disk = e.disk /\ g.paths = e.paths /\ g.style = e.style
      /\ e.content[f] # None
      /\ UNCHANGED << paths, style, pending >>
  BY <1>1 DEF DidChange, docstore_update, E
<1>3. Stored(e) /\ IsW(w) /\ SourcesOK(w, e) /\ Configured
  BY <1>1 DEF DocInv
<1>4. Stored(g)
  BY <1>2, <1>3, UpdateStored
<1>5. t # None
  BY LspAssumption
<1>6. /\ \A x \in Files : x # f => g.content[x] = e.content[x]
      /\ g.content[f] # None /\ e.style = g.style
  BY <1>2, <1>3, <1>5 DEF Stored
<1>7. \A x \in Files : x # f => Buffer(e, x) = Buffer(g, x)
  BY <1>2, <1>6 DEF Buffer
<1>8. Found(e) = Found(g)
  BY <1>2 DEF Found
<1>9. IsW(v) /\ SourcesOK(v, g) /\ (CopiesOK(w, e) => CopiesOK(v, g))
  <2>1. CASE f \in Copies
    <3>1. u = document_parse_copy(w, g, f) /\ v = ParseDependents(u, g, f)
      BY <1>1, <2>1 DEF Reparse
    <3> QED
      BY <1>3, <1>4, <1>6, <1>7, <1>8, <2>1, <3>1, CopyChangeKeeps
  <2>2. CASE f \notin Copies
    <3>1. u = ParseSource(w, g, f) /\ v = ReparseEach(u, g, {}, {f}) /\ f \in Sources
      BY <1>1, <2>2 DEF Reparse, Files
    <3> QED
      BY <1>3, <1>4, <1>6, <1>7, <1>8, <3>1, SourceChangeKeeps
  <2> QED
    BY <2>1, <2>2
<1>10. v = W'
  <2>1. index' = v.index /\ parent' = v.parent /\ shown' = v.shown
    BY <1>1 DEF DidChange, Becomes
  <2> QED
    BY <1>9, <2>1 DEF IsW, W
<1>11. Configured'
  BY <1>2, <1>3 DEF Configured
<1> QED
  BY <1>1, <1>4, <1>9, <1>10, <1>11 DEF DocInv, Current

LEMMA DidCloseKeeps ==
    ASSUME Room, DocInv, NEW f \in Files, DidClose(f)
    PROVE  DocInv' /\ (Current => Current')
<1>1. PICK e, g, w, v : /\ e = E /\ g = E' /\ w = W
                        /\ v = [index |-> w.index,
                                parent |-> [c \in Copies |-> IF c = f THEN None ELSE w.parent[c]],
                                shown |-> [w.shown EXCEPT ![f] = None]]
  OBVIOUS
<1>2. PICK k \in DOMAIN e.documents : e.documents[k] = f /\ g.documents = RemoveAt(e.documents, k)
  BY <1>1 DEF DidClose, docstore_close, E
<1>3. /\ g.content = [e.content EXCEPT ![f] = None]
      /\ g.disk = e.disk /\ g.paths = e.paths /\ g.style = e.style
      /\ e.content[f] # None /\ e.content[f] = e.disk[f]
      /\ UNCHANGED << paths, style, pending >>
  BY <1>1 DEF DidClose, docstore_close, E, Room
<1>4. Stored(e) /\ IsW(w) /\ SourcesOK(w, e) /\ Configured
  BY <1>1 DEF DocInv
<1>5. Stored(g)
  BY <1>2, <1>3, <1>4, CloseStored
<1>6. /\ \A x \in Files : x # f => g.content[x] = e.content[x]
      /\ g.content[f] = None /\ e.style = g.style
  BY <1>3, <1>4 DEF Stored
<1>7. \A x \in Files : Buffer(e, x) = Buffer(g, x)
  BY <1>3, <1>6 DEF Buffer
<1>8. Found(e) = Found(g)
  BY <1>3 DEF Found
<1>9. IsW(v) /\ SourcesOK(v, g) /\ (CopiesOK(w, e) => CopiesOK(v, g))
  <2>1. v = [index |-> w.index, parent |-> [c \in Copies |-> IF c = f THEN None ELSE w.parent[c]],
             shown |-> [w.shown EXCEPT ![f] = None]]
    BY <1>1
  <2> QED
    BY <1>4, <1>5, <1>6, <1>7, <1>8, <2>1, CloseKeeps
<1>10. v = W'
  <2>1. index' = v.index /\ parent' = v.parent /\ shown' = v.shown
    BY <1>1 DEF DidClose, docstore_close, W
  <2> QED
    BY <1>9, <2>1 DEF IsW, W
<1>11. Configured'
  BY <1>3, <1>4 DEF Configured
<1> QED
  BY <1>1, <1>5, <1>9, <1>10, <1>11 DEF DocInv, Current

LEMMA ConfigurationKeeps ==
    ASSUME Room, DocInv, NEW c \in Configurations, ConfigurationResponse(c)
    PROVE  DocInv' /\ (Flat /\ Current => Current')
<1>1. PICK e, g, w : e = E /\ g = E' /\ w = W
  OBVIOUS
<1>2. /\ g.documents = e.documents /\ g.content = e.content /\ g.disk = e.disk
      /\ paths = FALSE /\ style = DefaultStyle /\ ~ pending'
      /\ paths' = c.paths /\ style' = c.style
  BY <1>1 DEF ConfigurationResponse, E, DocInv, Configured
<1>3. Stored(e) /\ IsW(w) /\ SourcesOK(w, e)
  BY <1>1 DEF DocInv
<1>4. Stored(g) /\ Configured'
  BY <1>2, <1>3 DEF Stored, Configured
<1>5. CASE c.paths
  <2>1. PICK u, v : u = ReparseEach(w, g, Sources, {}) /\ v = ReparseEach(u, g, {}, Sources \cup {None})
    OBVIOUS
  <2>2. /\ IsW(v) /\ SourcesOK(v, g)
        /\ CopiesOK(w, e) /\ (\A d \in Copies : Seen(g, d).copies = {}) => CopiesOK(v, g)
    BY <1>2, <1>3, <1>4, <2>1, ConfigureKeeps
  <2>3. v = W'
    <3>1. index' = v.index /\ parent' = v.parent /\ shown' = v.shown
      BY <1>1, <1>5, <2>1 DEF ConfigurationResponse, Becomes
    <3> QED
      BY <2>2, <3>1 DEF IsW, W
  <2>4. ASSUME Flat, NEW d \in Copies PROVE Seen(g, d).copies = {}
    <3>1. Buffer(g, d) \in Texts[d]
      BY <1>4 DEF Stored, Buffer, Files
    <3> QED
      BY <1>4, <2>4, <3>1, SeenIsBuffer DEF Flat
  <2> QED
    BY <1>1, <1>4, <2>2, <2>3, <2>4 DEF DocInv, Current
<1>6. CASE ~ c.paths
  <2>1. c.paths = FALSE /\ c.style = DefaultStyle
    BY <1>6, LspAssumption DEF Room
  <2>2. UNCHANGED << disk, documents, content, paths, style >>
    BY <1>2, <2>1 DEF ConfigurationResponse
  <2>3. UNCHANGED << index, parent, shown >>
    BY <1>6 DEF ConfigurationResponse, Becomes, W
  <2>4. E' = E /\ W' = W
    BY <2>2, <2>3 DEF E, W
  <2> QED
    BY <1>4, <2>4 DEF DocInv, Current
<1> QED
  BY <1>5, <1>6

LEMMA DocInit ==
    ASSUME Init
    PROVE  DocInv /\ Current
<1>1. PICK e, w : e = E /\ w = W
  OBVIOUS
<1>2. /\ e.documents = << >> /\ e.content = [f \in Files |-> None]
      /\ e.disk \in [Files -> UNION {Texts[f] : f \in Files}] /\ \A f \in Files : e.disk[f] \in Texts[f]
  BY <1>1 DEF Init, DocsInit, E
<1>3. Stored(e)
  BY <1>2 DEF Stored, AllTexts
<1>4. /\ w = [index |-> w.index, parent |-> w.parent, shown |-> w.shown]
      /\ w.index = [c \in Copies |-> << >>] /\ w.parent = [c \in Copies |-> None]
      /\ w.shown = [f \in Files |-> None]
  BY <1>1 DEF Init, DocsInit, W
<1>5. IsW(w)
  <2>1. << >> \in Seq(Sources)
    OBVIOUS
  <2> QED
    BY <1>4, <2>1 DEF IsW
<1>6. SourcesOK(w, e)
  BY <1>2 DEF SourcesOK, Files
<1>7. ASSUME NEW c \in Copies PROVE CopyOK(w, e, c)
  <2>1. w.shown[c] = None /\ w.parent[c] = None /\ None \notin Sources
    BY <1>4, LspAssumption DEF Files
  <2> QED
    BY <2>1, Zenon DEF CopyOK
<1>8. Configured
  BY DEF Init, DocsInit, Configured
<1> QED
  BY <1>1, <1>3, <1>5, <1>6, <1>7, <1>8 DEF DocInv, Current, CopiesOK

LEMMA DocStep ==
    ASSUME Room, Steady, DocInv, [Next]_vars
    PROVE  DocInv' /\ (Flat /\ Current => Current')
<1>1. ASSUME NEW f \in Files, NEW t \in Texts[f], DidOpen(f, t) PROVE DocInv' /\ (Current => Current')
  BY <1>1, DidOpenKeeps
<1>2. ASSUME NEW f \in Files, NEW t \in Texts[f], DidChange(f, t) PROVE DocInv' /\ (Current => Current')
  BY <1>2, DidChangeKeeps
<1>3. ASSUME NEW f \in Files, DidSave(f) PROVE DocInv' /\ (Current => Current')
  BY <1>3, DidSaveKeeps
<1>4. ASSUME NEW f \in Files, DidClose(f) PROVE DocInv' /\ (Current => Current')
  BY <1>4, DidCloseKeeps
<1>5. ASSUME NEW c \in Configurations, ConfigurationResponse(c)
      PROVE  DocInv' /\ (Flat /\ Current => Current')
  BY <1>5, ConfigurationKeeps
<1>6. CASE UNCHANGED vars
  <2>1. E' = E /\ W' = W /\ UNCHANGED << paths, style, pending >>
    BY <1>6 DEF vars, E, W
  <2> QED
    BY <2>1 DEF DocInv, Current, Configured
<1> QED
  BY <1>1, <1>2, <1>3, <1>4, <1>5, <1>6 DEF Next

\* COPY files that copy nothing copy the same whatever they say.
LEMMA FlatIsSteady == Flat => Steady
  BY DEF Flat, Steady

LEMMA CurrentIsFresh ==
    ASSUME DocInv, Current
    PROVE  CopiesFresh
<1> SUFFICES ASSUME NEW c \in Copies, shown[c] # None
             PROVE  LET p == shown[c].parse
                        now == Parse(E, parent[c])
                    IN  /\ c \in DOMAIN p.copies <=> c \in DOMAIN now.copies
                        /\ c \in DOMAIN p.copies =>
                              p.source = parent[c] /\ p.text = now.text /\ p.copies[c] = content[c]
  BY DEF CopiesFresh
<1>1. PICK e, w : e = E /\ w = W
  OBVIOUS
<1>2. PICK s, p, now : s = w.parent[c] /\ p = w.shown[c].parse /\ now = Parse(e, s)
  OBVIOUS
<1>3. CopyOK(w, e, c) /\ w.shown[c] # None
  BY <1>1 DEF Current, CopiesOK, W
<1>4. /\ c \in DOMAIN p.copies <=> c \in Reached(e, s)
      /\ c \in Reached(e, s) =>
            p.source = s /\ p.text = Buffer(e, s) /\ p.copies[c] = e.content[c]
  BY <1>2, <1>3 DEF CopyOK
<1>5. now.text = Buffer(e, s) /\ DOMAIN now.copies = Reached(e, s)
  BY <1>2 DEF Parse
<1>6. s = parent[c] /\ p = shown[c].parse /\ now = Parse(E, parent[c]) /\ e.content[c] = content[c]
  BY <1>1, <1>2 DEF W, E
<1> QED
  BY <1>4, <1>5, <1>6

\* What is shown of an open source is what a parse would give now, of its own
\* text and of that of every file it copies: for any files and texts, when the
\* client opens and closes documents as they are on the disk, no more COPY
\* files exist than texts can be handed over, an answer with a style of its own
\* has include paths, and what a COPY file copies does not change.
\* (handle_did_open, handle_did_change, handle_did_save, handle_did_close,
\* handle_configuration_response)
THEOREM SourcesStayFresh ==
    ASSUME Room, Steady
    PROVE  Spec => []SourcesFresh
<1>1. Init => DocInv
  BY DocInit
<1>2. DocInv /\ [Next]_vars => DocInv'
  BY DocStep
<1>3. DocInv => SourcesFresh
  BY DEF DocInv, SourcesOK, SourceParsed, SourcesFresh, E, W
<1> QED
  BY <1>1, <1>2, <1>3, PTL DEF Spec

\* And what an open COPY file shows is the present state of its own lines, in
\* the present text of the source it is parsed through, when the COPY files
\* copy nothing themselves.
\* (document_parse_copy and the cascade of handle_did_change)
THEOREM CopiesStayFresh ==
    ASSUME Room, Flat
    PROVE  Spec => []CopiesFresh
<1>1. Init => DocInv /\ Current
  BY DocInit
<1>2. DocInv /\ Current /\ [Next]_vars => (DocInv /\ Current)'
  BY DocStep, FlatIsSteady
<1>3. DocInv /\ Current => CopiesFresh
  BY CurrentIsFresh
<1> QED
  BY <1>1, <1>2, <1>3, PTL DEF Spec

-----------------------------------------------------------------------------
(***************************************************************************)
(* References and rename.  Documents may now be opened and closed unsaved, *)
(* include paths may come and go with each answer of the client, and any   *)
(* number of COPY files may be open: what is shown need not be fresh.  Of  *)
(* the store it is enough that an open source shows a parse of its present *)
(* text, and that the index knows whatever it copies now.                  *)
(***************************************************************************)
NoneApart == \A p, t : None # [parse |-> p, style |-> t]

SourceShown(w, e, s) ==
    /\ e.content[s] = None => w.shown[s] = None
    /\ e.content[s] # None =>
          /\ w.shown[s] # None
          /\ w.shown[s].parse.source = s /\ w.shown[s].parse.text = e.content[s]
          /\ DOMAIN w.shown[s].parse.copies \subseteq Copies
Known(w, e, s) == e.content[s] # None => \A c \in Reached(e, s) : Contains(w.index[c], s)

\* The parse shown of a COPY file is one of a source; unless documents are
\* closed unsaved, and if the COPY file is in it, it is that of its parent, with
\* the parent's present text.
CopyShown(w, e, c) ==
    /\ e.content[c] = None => w.shown[c] = None
    /\ w.shown[c] # None =>
          w.shown[c].parse.source \in Sources /\ DOMAIN w.shown[c].parse.copies \subseteq Copies
    /\ ~ Unsaved /\ w.shown[c] # None /\ c \in DOMAIN w.shown[c].parse.copies =>
          /\ w.parent[c] \in Sources /\ w.shown[c].parse.source = w.parent[c]
          /\ w.shown[c].parse.text = Buffer(e, w.parent[c])
          /\ Contains(w.index[c], w.parent[c])

\* What a message may do to a source and to a COPY file.
SourceEffect(e, g, w, v, s) ==
    \/ g.content[s] # None /\ SourceParsed(g, s, v)
    \/ g.content[s] = None /\ v.shown[s] = None
    \/ /\ g.content[s] = e.content[s] /\ Found(g) \subseteq Found(e)
       /\ \/ v.shown[s] = w.shown[s]
          \/ g.content[s] # None /\ v.shown[s] = [parse |-> Parse(g, s), style |-> g.style]
CopyEffect(e, g, w, v, c) ==
    \/ g.content[c] # None /\ CopyParsed(g, c, w, v)
    \/ g.content[c] = None /\ v.shown[c] = None
    \/ /\ g.content[c] = e.content[c] /\ v.shown[c] = w.shown[c] /\ v.parent[c] = w.parent[c]
       /\ Unsaved \/ w.parent[c] \notin Sources \/ Buffer(e, w.parent[c]) = Buffer(g, w.parent[c])
Effect(e, g, w, v) ==
    /\ Stored(g) /\ IsW(v) /\ Grows(w, v)
    /\ \A s \in Sources : SourceEffect(e, g, w, v, s)
    /\ \A c \in Copies : CopyEffect(e, g, w, v, c)

\* The text the parser is given of a COPY file is one it may have, and if it
\* copies the same whatever it says, fewer paths find fewer of them.
LEMMA SeenIsText ==
    ASSUME NEW e, Stored(e), NEW c \in Copies
    PROVE  Seen(e, c) \in Texts[c]
<1>1. ASSUME c \in Overridden(e) PROVE e.content[c] # None
  <2>1. \E i \in DOMAIN e.documents : e.documents[i] = c
    BY <1>1 DEF Overridden
  <2> QED
    BY <2>1 DEF Stored, Files
<1> QED
  BY <1>1 DEF Seen, Stored, Files

LEMMA FewerReached ==
    ASSUME IsFiniteSet(Copies), Steady, NEW e, NEW f, NEW s, Stored(e), Stored(f),
           Found(f) \subseteq Found(e), Buffer(e, s) = Buffer(f, s)
    PROVE  Reached(f, s) \subseteq Reached(e, s)
<1>1. PICK x, y, N : /\ x = Buffer(e, s).copies \cap Found(e)
                     /\ y = Buffer(f, s).copies \cap Found(f) /\ N = Cardinality(Copies)
  OBVIOUS
<1>2. N \in Nat /\ Found(f) \subseteq Copies /\ y \subseteq x /\ y \subseteq Copies
  BY <1>1, FS_CardinalityType, LspAssumption DEF Found
<1>3. PICK g : Follows(g, e, x, N) /\ Reached(e, s) = g[N]
  BY <1>1, ReachedSteps
<1>4. PICK h : Follows(h, f, y, N) /\ Reached(f, s) = h[N]
  BY <1>1, ReachedSteps
<1>5. g[0] = x /\ \A n \in 1 .. N : g[n] = g[n - 1] \cup More(e, g[n - 1])
  BY <1>2, <1>3, FollowsSteps
<1>6. h[0] = y /\ \A n \in 1 .. N : h[n] = h[n - 1] \cup More(f, h[n - 1])
  BY <1>2, <1>4, FollowsSteps
<1>7. ASSUME NEW c \in Copies PROVE Seen(e, c).copies = Seen(f, c).copies
  <2>1. Seen(e, c) \in Texts[c] /\ Seen(f, c) \in Texts[c]
    BY SeenIsText
  <2> QED
    BY <2>1 DEF Steady
<1> DEFINE T == {n \in Nat : n <= N => h[n] \subseteq g[n] /\ h[n] \subseteq Copies}
<1>8. 0 \in T
  BY <1>2, <1>5, <1>6
<1>9. ASSUME NEW n \in Nat, n \in T PROVE n + 1 \in T
  <2> SUFFICES ASSUME n + 1 <= N PROVE h[n + 1] \subseteq g[n + 1] /\ h[n + 1] \subseteq Copies
    OBVIOUS
  <2>1. h[n] \subseteq g[n] /\ h[n] \subseteq Copies
    BY <1>2, <1>9
  <2>2. h[n + 1] = h[n] \cup More(f, h[n]) /\ g[n + 1] = g[n] \cup More(e, g[n])
    BY <1>2, <1>5, <1>6
  <2>3. More(f, h[n]) \subseteq More(e, g[n])
    <3> SUFFICES ASSUME NEW d \in More(f, h[n]) PROVE d \in More(e, g[n])
      OBVIOUS
    <3>1. PICK c \in h[n] : d \in Seen(f, c).copies /\ d \in Found(f)
      BY DEF More
    <3>2. c \in g[n] /\ d \in Seen(e, c).copies /\ d \in Found(e)
      BY <1>7, <2>1, <3>1
    <3> QED
      BY <3>2 DEF More
  <2>4. More(f, h[n]) \subseteq Copies
    BY <1>2 DEF More
  <2> QED
    BY <2>1, <2>2, <2>3, <2>4
<1>10. N \in T
  <2> HIDE DEF T
  <2> QED
    BY <1>2, <1>8, <1>9, Induction
<1> QED
  BY <1>2, <1>3, <1>4, <1>10

\* Each effect keeps what is said of the source or COPY file it is about.
LEMMA SourceShownKept ==
    ASSUME IsFiniteSet(Copies), NoneApart, NEW e, NEW g, NEW w, NEW v, NEW s \in Sources,
           SourceShown(w, e, s), SourceEffect(e, g, w, v, s)
    PROVE  SourceShown(v, g, s)
<1>1. ASSUME g.content[s] # None, v.shown[s] = [parse |-> Parse(g, s), style |-> g.style]
      PROVE  SourceShown(v, g, s)
  <2>1. PICK p, y : p = Parse(g, s) /\ y = g.style
    OBVIOUS
  <2>2. v.shown[s] # None /\ v.shown[s].parse = p
    <3>1. None # [parse |-> p, style |-> y]
      BY Zenon DEF NoneApart
    <3> QED
      BY <1>1, <2>1, <3>1
  <2>3. p.source = s /\ p.text = g.content[s] /\ DOMAIN p.copies = Reached(g, s)
    BY <1>1, <2>1 DEF Parse, Buffer
  <2>4. Reached(g, s) \subseteq Copies
    BY ReachedIsFound
  <2> QED
    BY <1>1, <2>2, <2>3, <2>4 DEF SourceShown
<1>2. CASE g.content[s] # None /\ SourceParsed(g, s, v)
  BY <1>1, <1>2 DEF SourceParsed
<1>3. CASE g.content[s] = None /\ v.shown[s] = None
  BY <1>3 DEF SourceShown
<1>4. CASE g.content[s] = e.content[s] /\ v.shown[s] = w.shown[s]
  BY <1>4 DEF SourceShown
<1> QED
  BY <1>1, <1>2, <1>3, <1>4 DEF SourceEffect

LEMMA KnownKept ==
    ASSUME IsFiniteSet(Copies), Steady, NEW e, NEW g, NEW w, NEW v, NEW s \in Sources,
           Stored(e), Stored(g), Grows(w, v), Known(w, e, s), SourceEffect(e, g, w, v, s)
    PROVE  Known(v, g, s)
<1> SUFFICES ASSUME g.content[s] # None, NEW c \in Reached(g, s) PROVE Contains(v.index[c], s)
  BY DEF Known
<1>1. CASE SourceParsed(g, s, v)
  BY <1>1 DEF SourceParsed
<1>2. CASE g.content[s] = e.content[s] /\ Found(g) \subseteq Found(e)
  <2>1. Buffer(e, s) = Buffer(g, s)
    BY <1>2 DEF Buffer
  <2>2. c \in Reached(e, s) /\ c \in Copies
    BY <1>2, <2>1, FewerReached, ReachedIsFound
  <2> QED
    BY <1>2, <2>2 DEF Known, Grows
<1> QED
  BY <1>1, <1>2 DEF SourceEffect

LEMMA CopyShownKept ==
    ASSUME IsFiniteSet(Copies), NEW e, NEW g, NEW w, NEW v, NEW c \in Copies, Grows(w, v),
           CopyShown(w, e, c), CopyEffect(e, g, w, v, c)
    PROVE  CopyShown(v, g, c)
<1>1. PICK s, p : s = v.parent[c] /\ p = v.shown[c]
  OBVIOUS
<1>2. CASE g.content[c] = None /\ v.shown[c] = None
  BY <1>2 DEF CopyShown
<1>3. CASE /\ g.content[c] # None /\ w.index[c] = << >>
           /\ v.shown[c] = w.shown[c] /\ v.parent[c] = w.parent[c]
  <2>1. ~ Contains(w.index[c], w.parent[c])
    BY <1>3 DEF Contains
  <2>2. /\ ~ (~ Unsaved /\ w.shown[c] # None /\ c \in DOMAIN w.shown[c].parse.copies)
        /\ w.shown[c] # None =>
              w.shown[c].parse.source \in Sources /\ DOMAIN w.shown[c].parse.copies \subseteq Copies
    BY <2>1, Zenon DEF CopyShown
  <2> QED
    BY <1>3, <2>2, Zenon DEF CopyShown
<1>4. CASE /\ g.content[c] # None /\ s \in Sources /\ p = [parse |-> Parse(g, s)]
           /\ c \in Reached(g, s) => Contains(v.index[c], s)
  <2>1. PICK q : q = Parse(g, s)
    OBVIOUS
  <2>2. p.parse = q /\ q.source = s /\ q.text = Buffer(g, s) /\ DOMAIN q.copies = Reached(g, s)
    BY <1>4, <2>1 DEF Parse
  <2>3. Reached(g, s) \subseteq Copies
    BY ReachedIsFound
  <2> QED
    BY <1>1, <1>4, <2>2, <2>3, Zenon DEF CopyShown
<1>5. CASE /\ g.content[c] = e.content[c] /\ v.shown[c] = w.shown[c] /\ v.parent[c] = w.parent[c]
           /\ Unsaved \/ w.parent[c] \notin Sources \/ Buffer(e, w.parent[c]) = Buffer(g, w.parent[c])
  <2>1. w.shown[c] = p /\ w.parent[c] = s
    BY <1>1, <1>5
  <2>2. /\ e.content[c] = None => p = None
        /\ p # None => p.parse.source \in Sources /\ DOMAIN p.parse.copies \subseteq Copies
        /\ ~ Unsaved /\ p # None /\ c \in DOMAIN p.parse.copies =>
              /\ s \in Sources /\ p.parse.source = s /\ p.parse.text = Buffer(e, s)
              /\ Contains(w.index[c], s)
    BY <2>1, Zenon DEF CopyShown
  <2>3. ~ Unsaved /\ s \in Sources => Buffer(e, s) = Buffer(g, s)
    BY <1>5, <2>1
  <2>4. Contains(w.index[c], s) => Contains(v.index[c], s)
    BY DEF Grows
  <2>5. /\ g.content[c] = None => p = None
        /\ p # None => p.parse.source \in Sources /\ DOMAIN p.parse.copies \subseteq Copies
        /\ ~ Unsaved /\ p # None /\ c \in DOMAIN p.parse.copies =>
              /\ s \in Sources /\ p.parse.source = s /\ p.parse.text = Buffer(g, s)
              /\ Contains(v.index[c], s)
    BY <1>5, <2>2, <2>3, <2>4
  <2> QED
    BY <1>1, <2>5, Zenon DEF CopyShown
<1> QED
  BY <1>1, <1>2, <1>3, <1>4, <1>5 DEF CopyEffect, CopyParsed

(***************************************************************************)
(* Each message has such effects.                                          *)
(***************************************************************************)
\* One file is parsed, and no other document changes.
LEMMA OneParsed ==
    ASSUME IsFiniteSet(Copies), NEW e, NEW g, NEW w, NEW v, NEW f \in Files,
           Stored(g), IsW(w), Found(e) = Found(g), g.content[f] # None,
           \A x \in Files : x # f => g.content[x] = e.content[x],
           Unsaved \/ \A x \in Files : Buffer(e, x) = Buffer(g, x),
           v = Reparse(w, g, f)
    PROVE  Effect(e, g, w, v)
<1>1. /\ Sources \subseteq Files /\ Copies \subseteq Files /\ Sources \cap Copies = {}
  BY LspAssumption DEF Files
<1>2. IsW(v) /\ Grows(w, v) /\ Others(f, w, v) /\ Parsed(g, w, v, f)
  BY ReparseParses
<1>3. ASSUME NEW s \in Sources PROVE SourceEffect(e, g, w, v, s)
  <2>1. s \in Files /\ s \notin Copies
    BY <1>1
  <2>2. CASE s = f
    BY <1>2, <2>1, <2>2 DEF Parsed, SourceEffect
  <2>3. CASE s # f
    BY <1>2, <2>1, <2>3 DEF Others, SourceEffect
  <2> QED
    BY <2>2, <2>3
<1>4. ASSUME NEW c \in Copies PROVE CopyEffect(e, g, w, v, c)
  <2>1. c \in Files
    BY <1>1
  <2>2. CASE c = f
    BY <1>2, <2>2 DEF Parsed, CopyEffect
  <2>3. CASE c # f
    BY <1>1, <1>2, <2>1, <2>3 DEF Others, CopyEffect
  <2> QED
    BY <2>2, <2>3
<1> QED
  BY <1>2, <1>3, <1>4 DEF Effect

\* A source is changed, and then the COPY files parsed through it are parsed.
LEMMA SourceChanged ==
    ASSUME IsFiniteSet(Copies), NEW e, NEW g, NEW w, NEW u, NEW v, NEW f \in Sources,
           Stored(g), IsW(w), Found(e) = Found(g), g.content[f] # None,
           \A x \in Files : x # f => g.content[x] = e.content[x] /\ Buffer(e, x) = Buffer(g, x),
           \A c \in Copies : e.content[c] = None => w.shown[c] = None,
           u = ParseSource(w, g, f), v = ReparseEach(u, g, {}, {f})
    PROVE  Effect(e, g, w, v)
<1>1. /\ Sources \subseteq Files /\ Copies \subseteq Files /\ Sources \cap Copies = {}
  BY LspAssumption DEF Files
<1>2. IsW(u) /\ Grows(w, u) /\ Others(f, w, u) /\ SourceParsed(g, f, u) /\ u.parent = w.parent
  BY SourceIsParsed
<1>3. /\ IsW(v) /\ Grows(u, v)
      /\ \A x \in Files : IF g.content[x] # None /\ Asked(u, x, {}, {f})
                          THEN Parsed(g, u, v, x) ELSE Kept(x, u, v)
  BY <1>2, EachDoes
<1>4. Grows(w, v)
  BY <1>2, <1>3, GrowsOn
<1>5. ASSUME NEW s \in Sources PROVE SourceEffect(e, g, w, v, s)
  <2>1. s \in Files /\ s \notin Copies
    BY <1>1
  <2>2. v.shown[s] = u.shown[s]
    BY <1>3, <2>1 DEF Asked, Kept
  <2>3. CASE s = f
    <3>1. SourceParsed(g, s, v)
      BY <1>2, <1>3, <2>2, <2>3, SourceParsedOn
    <3> QED
      BY <2>3, <3>1 DEF SourceEffect
  <2>4. CASE s # f
    BY <1>2, <2>1, <2>2, <2>4 DEF Others, SourceEffect
  <2> QED
    BY <2>3, <2>4
<1>6. ASSUME NEW c \in Copies PROVE CopyEffect(e, g, w, v, c)
  <2>1. c \in Files /\ c # f /\ c \notin Sources
    BY <1>1
  <2>2. g.content[c] = e.content[c] /\ u.shown[c] = w.shown[c] /\ u.parent[c] = w.parent[c]
    BY <1>2, <2>1 DEF Others
  <2>3. CASE g.content[c] # None /\ w.parent[c] = f
    <3>1. CopyParsed(g, c, u, v)
      BY <1>3, <2>1, <2>2, <2>3 DEF Asked, Parsed
    <3>2. Grows(v, v)
      BY DEF Grows
    <3>3. CopyParsed(g, c, w, v)
      BY <1>2, <1>3, <2>2, <3>1, <3>2, CopyParsedOn
    <3> QED
      BY <2>3, <3>3 DEF CopyEffect
  <2>4. CASE g.content[c] = None
    <3>1. v.shown[c] = u.shown[c]
      BY <1>3, <2>1, <2>4 DEF Kept
    <3> QED
      BY <2>2, <2>4, <3>1 DEF CopyEffect
  <2>5. CASE g.content[c] # None /\ w.parent[c] # f
    <3>1. v.shown[c] = u.shown[c] /\ v.parent[c] = u.parent[c]
      BY <1>3, <2>1, <2>2, <2>5 DEF Asked, Kept
    <3>2. w.parent[c] \in Sources => Buffer(e, w.parent[c]) = Buffer(g, w.parent[c])
      BY <1>1, <2>5
    <3> QED
      BY <2>2, <3>1, <3>2 DEF CopyEffect
  <2> QED
    BY <2>3, <2>4, <2>5
<1> QED
  BY <1>3, <1>4, <1>5, <1>6 DEF Effect

\* A COPY file is changed, and then the open sources known to copy it are parsed.
LEMMA CopyChanged ==
    ASSUME IsFiniteSet(Copies), NEW e, NEW g, NEW w, NEW u, NEW v, NEW f \in Copies,
           Stored(g), IsW(w), Found(e) = Found(g), g.content[f] # None,
           \A x \in Files : x # f => g.content[x] = e.content[x] /\ Buffer(e, x) = Buffer(g, x),
           u = document_parse_copy(w, g, f), v = ParseDependents(u, g, f)
    PROVE  Effect(e, g, w, v)
<1>1. /\ Sources \subseteq Files /\ Copies \subseteq Files /\ Sources \cap Copies = {}
  BY LspAssumption DEF Files
<1>2. IsW(u) /\ Grows(w, u) /\ Others(f, w, u) /\ CopyParsed(g, f, w, u)
  BY CopyIsParsed
<1>3. PICK new : new = [x \in Files |-> IF Contains(u.index[f], x) /\ g.content[x] # None
                                        THEN [parse |-> Parse(g, x), style |-> g.style] ELSE u.shown[x]]
  OBVIOUS
<1>4. v = [u EXCEPT !.shown = new]
  BY <1>3 DEF ParseDependents
<1>5. v = [index |-> u.index, parent |-> u.parent, shown |-> new]
  BY <1>2, <1>4 DEF IsW
<1>6. v.index = u.index /\ v.parent = u.parent /\ v.shown = new
  BY <1>5
<1>7. IsW(v)
  <2>1. new = [x \in Files |-> new[x]]
    BY <1>3
  <2> QED
    BY <1>2, <1>5, <2>1 DEF IsW
<1>8. Grows(u, v) /\ Grows(w, v)
  BY <1>2, <1>6 DEF Grows
<1>9. ASSUME NEW s \in Sources PROVE SourceEffect(e, g, w, v, s)
  <2>1. s \in Files /\ s # f /\ g.content[s] = e.content[s]
    BY <1>1
  <2>2. CASE Contains(u.index[f], s) /\ g.content[s] # None
    <3>1. v.shown[s] = [parse |-> Parse(g, s), style |-> g.style]
      BY <1>3, <1>6, <2>1, <2>2
    <3> QED
      BY <2>1, <2>2, <3>1 DEF SourceEffect
  <2>3. CASE ~ (Contains(u.index[f], s) /\ g.content[s] # None)
    <3>1. v.shown[s] = w.shown[s]
      BY <1>2, <1>3, <1>6, <2>1, <2>3 DEF Others
    <3> QED
      BY <2>1, <3>1 DEF SourceEffect
  <2> QED
    BY <2>2, <2>3
<1>10. ASSUME NEW c \in Copies PROVE CopyEffect(e, g, w, v, c)
  <2>1. c \in Files
    BY <1>1
  <2>2. ~ Contains(u.index[f], c)
    <3>1. u.index[f] \in Seq(Sources) /\ c \notin Sources
      BY <1>1, <1>2 DEF IsW
    <3> QED
      BY <3>1 DEF Contains
  <2>3. v.shown[c] = u.shown[c] /\ v.parent[c] = u.parent[c]
    BY <1>3, <1>6, <2>1, <2>2
  <2>4. CASE c = f
    <3>1. Grows(w, w)
      BY DEF Grows
    <3>2. CopyParsed(g, c, w, v)
      BY <1>2, <1>7, <1>8, <2>3, <2>4, <3>1, CopyParsedOn
    <3> QED
      BY <2>4, <3>2 DEF CopyEffect
  <2>5. CASE c # f
    <3>1. v.shown[c] = w.shown[c] /\ v.parent[c] = w.parent[c] /\ g.content[c] = e.content[c]
      BY <1>2, <2>1, <2>3, <2>5 DEF Others
    <3>2. \A s \in Sources : Buffer(e, s) = Buffer(g, s)
      BY <1>1
    <3> QED
      BY <3>1, <3>2 DEF CopyEffect
  <2> QED
    BY <2>4, <2>5
<1> QED
  BY <1>7, <1>8, <1>9, <1>10 DEF Effect

LEMMA Closed ==
    ASSUME NEW e, NEW g, NEW w, NEW v, NEW f \in Files, Stored(g), IsW(w), Found(e) = Found(g),
           \A x \in Files : x # f => g.content[x] = e.content[x], g.content[f] = None,
           Unsaved \/ \A x \in Files : Buffer(e, x) = Buffer(g, x),
           v = [index |-> w.index, parent |-> [c \in Copies |-> IF c = f THEN None ELSE w.parent[c]],
                shown |-> [w.shown EXCEPT ![f] = None]]
    PROVE  Effect(e, g, w, v)
<1>1. Sources \subseteq Files /\ Copies \subseteq Files
  BY DEF Files
<1>2. v.index = w.index /\ Grows(w, v)
  BY DEF Grows
<1>3. /\ \A c \in Copies : v.parent[c] = IF c = f THEN None ELSE w.parent[c]
      /\ \A x \in Files : v.shown[x] = IF x = f THEN None ELSE w.shown[x]
  BY DEF IsW
<1>4. IsW(v)
  <2>1. v.index \in [Copies -> Seq(Sources)]
    BY <1>2 DEF IsW
  <2>2. v.parent \in [Copies -> Sources \cup {None}]
    BY DEF IsW
  <2>3. v.shown = [x \in Files |-> v.shown[x]]
    BY DEF IsW
  <2>4. v = [index |-> v.index, parent |-> v.parent, shown |-> v.shown]
    OBVIOUS
  <2> QED
    BY <2>1, <2>2, <2>3, <2>4 DEF IsW
<1>5. ASSUME NEW s \in Sources PROVE SourceEffect(e, g, w, v, s)
  BY <1>1, <1>3 DEF SourceEffect
<1>6. ASSUME NEW c \in Copies PROVE CopyEffect(e, g, w, v, c)
  BY <1>1, <1>3 DEF CopyEffect
<1> QED
  BY <1>2, <1>4, <1>5, <1>6 DEF Effect

\* With include paths everything that is open is parsed again.
LEMMA AllParsed ==
    ASSUME IsFiniteSet(Copies), NEW e, NEW g, NEW w, NEW u, NEW v, Stored(g), IsW(w),
           g.content = e.content, \A f \in Files : e.content[f] = None => w.shown[f] = None,
           u = ReparseEach(w, g, Sources, {}), v = ReparseEach(u, g, {}, Sources \cup {None})
    PROVE  Effect(e, g, w, v)
<1>1. /\ Sources \subseteq Files /\ Copies \subseteq Files /\ Sources \cap Copies = {}
      /\ None \notin Sources
  BY LspAssumption DEF Files
<1>2. /\ IsW(u) /\ Grows(w, u)
      /\ \A x \in Files : IF g.content[x] # None /\ Asked(w, x, Sources, {})
                          THEN Parsed(g, w, u, x) ELSE Kept(x, w, u)
  BY EachDoes
<1>3. /\ IsW(v) /\ Grows(u, v)
      /\ \A x \in Files : IF g.content[x] # None /\ Asked(u, x, {}, Sources \cup {None})
                          THEN Parsed(g, u, v, x) ELSE Kept(x, u, v)
  BY <1>2, EachDoes
<1>4. Grows(w, v)
  BY <1>2, <1>3, GrowsOn
<1>5. ASSUME NEW f \in Files, g.content[f] = None PROVE v.shown[f] = None
  BY <1>2, <1>3, <1>5 DEF Kept
<1>6. ASSUME NEW s \in Sources, g.content[s] # None PROVE SourceParsed(g, s, v)
  <2>1. SourceParsed(g, s, u)
    BY <1>1, <1>2, <1>6 DEF Asked, Parsed
  <2>2. v.shown[s] = u.shown[s]
    BY <1>1, <1>3 DEF Asked, Kept
  <2> QED
    BY <1>3, <2>1, <2>2, SourceParsedOn
<1>7. ASSUME NEW c \in Copies, g.content[c] # None PROVE CopyParsed(g, c, w, v)
  <2>1. c \in Files /\ u.shown[c] = w.shown[c] /\ u.parent[c] = w.parent[c]
    BY <1>1, <1>2 DEF Asked, Kept
  <2>2. CopyParsed(g, c, u, v)
    <3>1. u.parent[c] \in Sources \cup {None}
      BY <1>2 DEF IsW
    <3> QED
      BY <1>3, <1>7, <2>1, <3>1 DEF Asked, Parsed
  <2>3. Grows(v, v)
    BY DEF Grows
  <2> QED
    BY <1>2, <1>3, <2>1, <2>2, <2>3, CopyParsedOn
<1>8. \A s \in Sources : SourceEffect(e, g, w, v, s)
  BY <1>1, <1>5, <1>6 DEF SourceEffect
<1>9. \A c \in Copies : CopyEffect(e, g, w, v, c)
  BY <1>1, <1>5, <1>7 DEF CopyEffect
<1> QED
  BY <1>3, <1>4, <1>8, <1>9 DEF Effect

\* Nothing but the index is changed, which only learns.
LEMMA Learnt ==
    ASSUME NEW e, Stored(e), NEW w, NEW v, IsW(w), IsW(v), Grows(w, v),
           v.shown = w.shown, v.parent = w.parent
    PROVE  Effect(e, e, w, v)
<1>1. \A s \in Sources : SourceEffect(e, e, w, v, s)
  BY DEF SourceEffect
<1>2. \A c \in Copies : CopyEffect(e, e, w, v, c)
  BY DEF CopyEffect
<1> QED
  BY <1>1, <1>2 DEF Effect

-----------------------------------------------------------------------------
ServedInv ==
    /\ Stored(E) /\ IsW(W)
    /\ \A s \in Sources : SourceShown(W, E, s)
    /\ \A c \in Copies : CopyShown(W, E, c)
KnownInv == \A s \in Sources : Known(W, E, s)

LEMMA EffectServes ==
    ASSUME IsFiniteSet(Copies), NoneApart, ServedInv, Effect(E, E', W, W')
    PROVE  ServedInv' /\ (Steady /\ KnownInv => KnownInv')
<1>1. PICK e, g, w, v : e = E /\ g = E' /\ w = W /\ v = W'
  OBVIOUS
<1>2. /\ Stored(e) /\ Stored(g) /\ IsW(v) /\ Grows(w, v)
      /\ \A s \in Sources : SourceShown(w, e, s) /\ SourceEffect(e, g, w, v, s)
      /\ \A c \in Copies : CopyShown(w, e, c) /\ CopyEffect(e, g, w, v, c)
  BY <1>1, Zenon DEF ServedInv, Effect
<1>3. \A s \in Sources : SourceShown(v, g, s)
  BY <1>2, SourceShownKept
<1>4. \A c \in Copies : CopyShown(v, g, c)
  BY <1>2, CopyShownKept
<1>5. ASSUME Steady, \A s \in Sources : Known(w, e, s), NEW s \in Sources PROVE Known(v, g, s)
  BY <1>2, <1>5, KnownKept
<1>6. ServedInv'
  BY <1>1, <1>2, <1>3, <1>4 DEF ServedInv
<1>7. Steady /\ KnownInv => KnownInv'
  BY <1>1, <1>5 DEF KnownInv
<1> QED
  BY <1>6, <1>7

LEMMA DidOpenServes ==
    ASSUME IsFiniteSet(Copies), ServedInv, NEW f \in Files, NEW t \in Texts[f], DidOpen(f, t)
    PROVE  Effect(E, E', W, W')
<1>1. PICK e, g, w, v : e = E /\ g = E' /\ w = W /\ v = Reparse(w, g, f)
  OBVIOUS
<1>2. /\ g.documents = Append(e.documents, f) /\ g.content = [e.content EXCEPT ![f] = t]
      /\ g.disk = e.disk /\ g.paths = e.paths
      /\ e.content[f] = None /\ (Unsaved \/ t = e.disk[f])
  BY <1>1 DEF DidOpen, docstore_open, E
<1>3. Stored(e) /\ IsW(w) /\ t # None
  BY <1>1, LspAssumption DEF ServedInv
<1>4. Stored(g)
  BY <1>2, <1>3, OpenStored
<1>5. (\A x \in Files : x # f => g.content[x] = e.content[x]) /\ g.content[f] = t
  BY <1>2, <1>3 DEF Stored
<1>6. Unsaved \/ \A x \in Files : Buffer(e, x) = Buffer(g, x)
  BY <1>2, <1>3, <1>5 DEF Buffer
<1>7. Found(e) = Found(g)
  BY <1>2 DEF Found
<1>8. Effect(e, g, w, v) /\ IsW(v)
  <2>1. g.content[f] # None
    BY <1>3, <1>5
  <2>2. Effect(e, g, w, v)
    BY <1>1, <1>3, <1>4, <1>5, <1>6, <1>7, <2>1, OneParsed
  <2> QED
    BY <2>2 DEF Effect
<1>9. v = W'
  <2>1. index' = v.index /\ parent' = v.parent /\ shown' = v.shown
    BY <1>1 DEF DidOpen, Becomes
  <2> QED
    BY <1>8, <2>1 DEF IsW, W
<1> QED
  BY <1>1, <1>8, <1>9

LEMMA DidSaveServes ==
    ASSUME IsFiniteSet(Copies), ServedInv, NEW f \in Files, DidSave(f)
    PROVE  Effect(E, E', W, W')
<1>1. PICK e, g, w, v : e = E /\ g = E' /\ w = W /\ v = Reparse(w, g, f)
  OBVIOUS
<1>2. /\ g.documents = e.documents /\ g.content = e.content
      /\ g.disk = [e.disk EXCEPT ![f] = e.content[f]] /\ g.paths = e.paths
      /\ e.content[f] # None
  BY <1>1 DEF DidSave, E
<1>3. Stored(e) /\ IsW(w)
  BY <1>1 DEF ServedInv
<1>4. Stored(g)
  BY <1>2, <1>3, SaveStored
<1>5. g.disk[f] = e.content[f] /\ \A x \in Files : x # f => g.disk[x] = e.disk[x]
  BY <1>2, <1>3 DEF Stored
<1>6. \A x \in Files : Buffer(e, x) = Buffer(g, x)
  BY <1>2, <1>5 DEF Buffer
<1>7. Found(e) = Found(g)
  BY <1>2 DEF Found
<1>8. Effect(e, g, w, v) /\ IsW(v)
  <2>1. g.content[f] # None /\ \A x \in Files : x # f => g.content[x] = e.content[x]
    BY <1>2
  <2>2. Effect(e, g, w, v)
    BY <1>1, <1>3, <1>4, <1>6, <1>7, <2>1, OneParsed
  <2> QED
    BY <2>2 DEF Effect
<1>9. v = W'
  <2>1. index' = v.index /\ parent' = v.parent /\ shown' = v.shown
    BY <1>1 DEF DidSave, Becomes
  <2> QED
    BY <1>8, <2>1 DEF IsW, W
<1> QED
  BY <1>1, <1>8, <1>9

LEMMA DidChangeServes ==
    ASSUME IsFiniteSet(Copies), ServedInv, NEW f \in Files, NEW t \in Texts[f], DidChange(f, t)
    PROVE  Effect(E, E', W, W')
<1>1. PICK e, g, w, u, v : /\ e = E /\ g = E' /\ w = W /\ u = Reparse(w, g, f)
                           /\ v = IF f \in Copies THEN ParseDependents(u, g, f)
                                  ELSE ReparseEach(u, g, {}, {f})
  OBVIOUS
<1>2. /\ g.documents = e.documents /\ g.content = [e.content EXCEPT ![f] = t]
      /\ g.disk = e.disk /\ g.paths = e.paths /\ e.content[f] # None
  BY <1>1 DEF DidChange, docstore_update, E
<1>3. /\ Stored(e) /\ IsW(w) /\ t # None
      /\ \A c \in Copies : e.content[c] = None => w.shown[c] = None
  <2>1. \A c \in Copies : CopyShown(w, e, c)
    BY <1>1 DEF ServedInv
  <2> QED
    BY <1>1, <2>1, LspAssumption DEF ServedInv, CopyShown
<1>4. Stored(g)
  BY <1>2, <1>3, UpdateStored
<1>5. (\A x \in Files : x # f => g.content[x] = e.content[x]) /\ g.content[f] # None
  BY <1>2, <1>3 DEF Stored
<1>6. \A x \in Files : x # f => Buffer(e, x) = Buffer(g, x)
  BY <1>2, <1>5 DEF Buffer
<1>7. Found(e) = Found(g)
  BY <1>2 DEF Found
<1>8. Effect(e, g, w, v)
  <2>1. CASE f \in Copies
    <3>1. u = document_parse_copy(w, g, f) /\ v = ParseDependents(u, g, f)
      BY <1>1, <2>1 DEF Reparse
    <3> QED
      BY <1>3, <1>4, <1>5, <1>6, <1>7, <2>1, <3>1, CopyChanged
  <2>2. CASE f \notin Copies
    <3>1. u = ParseSource(w, g, f) /\ v = ReparseEach(u, g, {}, {f}) /\ f \in Sources
      BY <1>1, <2>2 DEF Reparse, Files
    <3> QED
      BY <1>3, <1>4, <1>5, <1>6, <1>7, <3>1, SourceChanged
  <2> QED
    BY <2>1, <2>2
<1>9. v = W'
  <2>1. index' = v.index /\ parent' = v.parent /\ shown' = v.shown
    BY <1>1 DEF DidChange, Becomes
  <2>2. IsW(v)
    BY <1>8 DEF Effect
  <2> QED
    BY <2>1, <2>2 DEF IsW, W
<1> QED
  BY <1>1, <1>8, <1>9

LEMMA DidCloseServes ==
    ASSUME ServedInv, NEW f \in Files, DidClose(f)
    PROVE  Effect(E, E', W, W')
<1>1. PICK e, g, w, v : /\ e = E /\ g = E' /\ w = W
                        /\ v = [index |-> w.index,
                                parent |-> [c \in Copies |-> IF c = f THEN None ELSE w.parent[c]],
                                shown |-> [w.shown EXCEPT ![f] = None]]
  OBVIOUS
<1>2. PICK k \in DOMAIN e.documents : e.documents[k] = f /\ g.documents = RemoveAt(e.documents, k)
  BY <1>1 DEF DidClose, docstore_close, E
<1>3. /\ g.content = [e.content EXCEPT ![f] = None]
      /\ g.disk = e.disk /\ g.paths = e.paths
      /\ e.content[f] # None /\ (Unsaved \/ e.content[f] = e.disk[f])
  BY <1>1 DEF DidClose, docstore_close, E
<1>4. Stored(e) /\ IsW(w)
  BY <1>1 DEF ServedInv
<1>5. Stored(g)
  BY <1>2, <1>3, <1>4, CloseStored
<1>6. (\A x \in Files : x # f => g.content[x] = e.content[x]) /\ g.content[f] = None
  BY <1>3, <1>4 DEF Stored
<1>7. Unsaved \/ \A x \in Files : Buffer(e, x) = Buffer(g, x)
  BY <1>3, <1>6 DEF Buffer
<1>8. Found(e) = Found(g)
  BY <1>3 DEF Found
<1>9. Effect(e, g, w, v)
  <2>1. v = [index |-> w.index, parent |-> [c \in Copies |-> IF c = f THEN None ELSE w.parent[c]],
             shown |-> [w.shown EXCEPT ![f] = None]]
    BY <1>1
  <2> QED
    BY <1>4, <1>5, <1>6, <1>7, <1>8, <2>1, Closed
<1>10. v = W'
  <2>1. index' = v.index /\ parent' = v.parent /\ shown' = v.shown
    BY <1>1 DEF DidClose, docstore_close, W
  <2>2. IsW(v)
    BY <1>9 DEF Effect
  <2> QED
    BY <2>1, <2>2 DEF IsW, W
<1> QED
  BY <1>1, <1>9, <1>10

LEMMA ConfigurationServes ==
    ASSUME IsFiniteSet(Copies), ServedInv, NEW c \in Configurations, ConfigurationResponse(c)
    PROVE  Effect(E, E', W, W')
<1>1. PICK e, g, w : e = E /\ g = E' /\ w = W
  OBVIOUS
<1>2. /\ g.documents = e.documents /\ g.content = e.content /\ g.disk = e.disk
      /\ g.paths = c.paths
  BY <1>1 DEF ConfigurationResponse, E
<1>3. /\ Stored(e) /\ IsW(w) /\ \A s \in Sources : SourceShown(w, e, s)
      /\ \A d \in Copies : CopyShown(w, e, d)
  BY <1>1 DEF ServedInv
<1>4. \A f \in Files : e.content[f] = None => w.shown[f] = None
  BY <1>3 DEF SourceShown, CopyShown, Files
<1>5. Stored(g)
  BY <1>2, <1>3 DEF Stored
<1>6. CASE c.paths
  <2>1. PICK u, v : u = ReparseEach(w, g, Sources, {}) /\ v = ReparseEach(u, g, {}, Sources \cup {None})
    OBVIOUS
  <2>2. Effect(e, g, w, v)
    BY <1>2, <1>3, <1>4, <1>5, <2>1, AllParsed
  <2>3. v = W'
    <3>1. index' = v.index /\ parent' = v.parent /\ shown' = v.shown
      BY <1>1, <1>6, <2>1 DEF ConfigurationResponse, Becomes
    <3>2. IsW(v)
      BY <2>2 DEF Effect
    <3> QED
      BY <3>1, <3>2 DEF IsW, W
  <2> QED
    BY <1>1, <2>2, <2>3
<1>7. CASE ~ c.paths
  <2>1. W' = w
    BY <1>1, <1>7 DEF ConfigurationResponse, Becomes, W
  <2>2. Found(g) \subseteq Found(e)
    BY <1>2, <1>7, LspAssumption DEF Found
  <2>3. \A s \in Sources : SourceEffect(e, g, w, w, s)
    BY <1>2, <2>2 DEF SourceEffect
  <2>4. \A d \in Copies : Buffer(e, w.parent[d]) = Buffer(g, w.parent[d])
    BY <1>2 DEF Buffer
  <2>5. \A d \in Copies : CopyEffect(e, g, w, w, d)
    BY <1>2, <2>4 DEF CopyEffect
  <2>6. Effect(e, g, w, w)
    BY <1>3, <1>5, <2>3, <2>5 DEF Effect, Grows
  <2> QED
    BY <1>1, <2>1, <2>6
<1> QED
  BY <1>6, <1>7

\* The sources that are looked for on the disk make a sequence.
LEMMA RenameServes ==
    ASSUME IsFiniteSet(Sources), ServedInv, NEW f \in Files, NEW n \in Names, Rename(f, n)
    PROVE  Effect(E, E', W, W')
<1>1. PICK e, w, v : e = E /\ w = W /\ v = W'
  OBVIOUS
<1>2. E' = e /\ parent' = parent /\ shown' = shown
  BY <1>1 DEF Rename, E
<1>3. Stored(e) /\ IsW(w) /\ w.index = index
  BY <1>1 DEF ServedInv, W
<1>4. \/ index' = index
      \/ \E c : /\ index[c] = << >>
                /\ \E order \in SetToSeqs(OnDisk(c)) : index' = [index EXCEPT ![c] = order]
  BY DEF Rename
<1>5. index' \in [Copies -> Seq(Sources)]
      /\ \A c \in Copies : \A s : Contains(index[c], s) => Contains(index'[c], s)
  <2>1. CASE index' = index
    BY <1>3, <2>1 DEF IsW
  <2>2. ASSUME NEW c, index[c] = << >>, NEW order \in SetToSeqs(OnDisk(c)),
               index' = [index EXCEPT ![c] = order]
        PROVE  index' \in [Copies -> Seq(Sources)]
               /\ \A d \in Copies : \A s : Contains(index[d], s) => Contains(index'[d], s)
    <3>1. PICK N : N = Cardinality(OnDisk(c))
      OBVIOUS
    <3>2. OnDisk(c) \subseteq Sources
      BY DEF OnDisk
    <3>3. N \in Nat
      BY <3>1, <3>2, FS_Subset, FS_CardinalityType
    <3>4. order \in [1 .. N -> OnDisk(c)]
      BY <2>2, <3>1 DEF SetToSeqs
    <3>5. order \in [1 .. N -> Sources]
      BY <3>2, <3>4
    <3>6. order \in Seq(Sources)
      BY <3>3, <3>5, SeqDef
    <3>7. index \in [Copies -> Seq(Sources)]
      BY <1>3 DEF IsW
    <3>8. index' \in [Copies -> Seq(Sources)]
      BY <2>2, <3>6, <3>7
    <3>9. ASSUME NEW d \in Copies, NEW s, Contains(index[d], s) PROVE Contains(index'[d], s)
      <4>1. d # c
        BY <2>2, <3>9 DEF Contains
      <4>2. index'[d] = index[d]
        BY <2>2, <3>7, <4>1
      <4> QED
        BY <3>9, <4>2
    <3> QED
      BY <3>8, <3>9
  <2> QED
    BY <1>4, <2>1, <2>2
<1>6. v.index = index' /\ v.parent = w.parent /\ v.shown = w.shown
      /\ v = [index |-> v.index, parent |-> v.parent, shown |-> v.shown]
  BY <1>1, <1>2 DEF W
<1>7. IsW(v) /\ Grows(w, v)
  BY <1>3, <1>5, <1>6 DEF IsW, Grows
<1>8. Effect(e, e, w, v)
  BY <1>3, <1>6, <1>7, Learnt
<1> QED
  BY <1>1, <1>2, <1>8

LEMMA QuietServes ==
    ASSUME ServedInv, UNCHANGED vars
    PROVE  Effect(E, E', W, W')
<1>1. PICK e, w : e = E /\ w = W
  OBVIOUS
<1>2. E' = e /\ W' = w
  BY <1>1 DEF vars, E, W
<1>3. Stored(e) /\ IsW(w) /\ Grows(w, w)
  BY <1>1 DEF ServedInv, Grows
<1>4. Effect(e, e, w, w)
  BY <1>3, Learnt
<1> QED
  BY <1>1, <1>2, <1>4

LEMMA MessageServes ==
    ASSUME IsFiniteSet(Copies), ServedInv, Message
    PROVE  Effect(E, E', W, W')
<1>1. CASE UNCHANGED vars
  BY <1>1, QuietServes
<1>2. CASE UNCHANGED << disk, documents, content, index, parent, shown, paths, style >>
  <2>1. PICK e, w : e = E /\ w = W
    OBVIOUS
  <2>2. E' = e /\ W' = w
    BY <1>2, <2>1 DEF E, W
  <2>3. Stored(e) /\ IsW(w) /\ Grows(w, w)
    BY <2>1 DEF ServedInv, Grows
  <2>4. Effect(e, e, w, w)
    BY <2>3, Learnt
  <2> QED
    BY <2>1, <2>2, <2>4
<1>3. ASSUME NEW id \in unanswered, NEW c \in Configurations, Response(id, c)
      PROVE  Effect(E, E', W, W')
  BY <1>1, <1>3, ConfigurationServes DEF Response
<1>4. CASE DocumentMessage
  BY <1>4, DidOpenServes, DidChangeServes, DidSaveServes, DidCloseServes DEF DocumentMessage
<1>5. ASSUME NEW b \in BOOLEAN, Initialize(b) PROVE Effect(E, E', W, W')
  BY <1>1, <1>5 DEF Initialize
<1>6. CASE Initialized
  BY <1>2, <1>6 DEF Initialized
<1>7. CASE Shutdown \/ Exit \/ EndOfInput
  BY <1>1, <1>7 DEF Shutdown, Exit, EndOfInput
<1>8. ASSUME NEW id \in unanswered, ResponseEmpty(id) PROVE Effect(E, E', W, W')
  BY <1>2, <1>8 DEF ResponseEmpty
<1> QED
  BY <1>3, <1>4, <1>5, <1>6, <1>7, <1>8 DEF Message

LEMMA SessionServes ==
    ASSUME IsFiniteSet(Copies), IsFiniteSet(Sources), NoneApart, ServedInv, [SNext]_server_vars
    PROVE  ServedInv' /\ (Steady /\ KnownInv => KnownInv')
<1>1. CASE UNCHANGED server_vars
  BY <1>1, QuietServes, EffectServes DEF server_vars
<1>2. CASE Message
  BY <1>2, MessageServes, EffectServes
<1>3. ASSUME NEW f \in Files, NEW n \in Names, Rename(f, n)
      PROVE  ServedInv' /\ (Steady /\ KnownInv => KnownInv')
  BY <1>3, RenameServes, EffectServes
<1>4. ASSUME NEW f \in Files, NEW n \in Names, References(f, n)
      PROVE  ServedInv' /\ (Steady /\ KnownInv => KnownInv')
  BY <1>4, QuietServes, EffectServes DEF References
<1> QED
  BY <1>1, <1>2, <1>3, <1>4 DEF SNext

LEMMA SessionInit ==
    ASSUME SInit
    PROVE  ServedInv /\ KnownInv
<1>1. PICK e, w : e = E /\ w = W
  OBVIOUS
<1>2. /\ e.documents = << >> /\ e.content = [f \in Files |-> None]
      /\ e.disk \in [Files -> UNION {Texts[f] : f \in Files}] /\ \A f \in Files : e.disk[f] \in Texts[f]
  BY <1>1 DEF SInit, DocsInit, E
<1>3. Stored(e)
  BY <1>2 DEF Stored, AllTexts
<1>4. /\ w = [index |-> w.index, parent |-> w.parent, shown |-> w.shown]
      /\ w.index = [c \in Copies |-> << >>] /\ w.parent = [c \in Copies |-> None]
      /\ w.shown = [f \in Files |-> None]
  BY <1>1 DEF SInit, DocsInit, W
<1>5. IsW(w)
  <2>1. << >> \in Seq(Sources)
    OBVIOUS
  <2> QED
    BY <1>4, <2>1 DEF IsW
<1>6. \A f \in Files : e.content[f] = None /\ w.shown[f] = None
  BY <1>2, <1>4
<1>7. \A s \in Sources : SourceShown(w, e, s) /\ Known(w, e, s)
  BY <1>6 DEF SourceShown, Known, Files
<1>8. \A c \in Copies : CopyShown(w, e, c)
  BY <1>6 DEF CopyShown, Files
<1> QED
  BY <1>1, <1>3, <1>5, <1>7, <1>8 DEF ServedInv, KnownInv

LEMMA SessionInvariant ==
    ASSUME IsFiniteSet(Copies), IsFiniteSet(Sources), NoneApart
    PROVE  SSpec => [](ServedInv /\ (Steady => KnownInv))
<1>1. SInit => ServedInv /\ (Steady => KnownInv)
  BY SessionInit
<1>2. ServedInv /\ (Steady => KnownInv) /\ [SNext]_server_vars => (ServedInv /\ (Steady => KnownInv))'
  <2> SUFFICES ASSUME ServedInv, Steady => KnownInv, [SNext]_server_vars
               PROVE  ServedInv' /\ (Steady => KnownInv')
    BY DEF Steady
  <2> QED
    BY SessionServes
<1> QED
  BY <1>1, <1>2, PTL DEF SSpec

-----------------------------------------------------------------------------
(* The answers.                                                            *)

\* A file a text defines n in is the source that was parsed, one of the COPY
\* files, or there is none.
LEMMA DefinedWhere ==
    ASSUME NEW p, NEW n, NEW d \in DefinedIn(p, n)
    PROVE  d = None \/ d = p.source \/ d \in DOMAIN p.copies
  BY DEF DefinedIn

LEMMA RenameAnswers ==
    ASSUME ServedInv, KnownInv, NEW f \in Files, NEW n \in Names, Rename(f, n),
           NEW c, c = answer'.of, c # None
    PROVE  LET concerned == {s \in Sources : IF content[s] # None THEN c \in Reached(E, s)
                                             ELSE index[c] = << >> /\ s \in OnDisk(c)}
           IN  Mentioning({c} \cup concerned, answer'.name) \subseteq answer'.files
<1>1. PICK d \in DefinedIn(shown[f].parse, n) :
         LET x == IF f \in Copies THEN f ELSE IF d # f THEN d ELSE None
         IN  IF x = None
             THEN answer' = [to |-> "rename", name |-> n, of |-> None, files |-> {f}]
             ELSE answer' = [to |-> "rename", name |-> n, of |-> x, files |-> {f} \cup Cascade(x, n)]
  BY Zenon DEF Rename
<1>2. PICK x : x = IF f \in Copies THEN f ELSE IF d # f THEN d ELSE None
  OBVIOUS
<1>3. x # None
  BY <1>1, <1>2
<1>4. answer' = [to |-> "rename", name |-> n, of |-> x, files |-> {f} \cup Cascade(x, n)]
  BY <1>1, <1>2, <1>3
<1>5. x = c /\ answer'.name = n /\ Cascade(c, n) \subseteq answer'.files
  BY <1>4
<1>6. c \in Copies
  <2>1. CASE f \in Copies
    BY <1>2, <1>5, <2>1
  <2>2. CASE f \notin Copies
    <3>1. f \in Sources /\ c = d /\ d # f
      BY <1>2, <1>3, <1>5, <2>2 DEF Files
    <3>2. shown[f] # None
      BY DEF Rename
    <3>3. /\ shown[f].parse.source = f /\ DOMAIN shown[f].parse.copies \subseteq Copies
      BY <3>1, <3>2 DEF ServedInv, SourceShown, W, E
    <3>4. d = None \/ d = shown[f].parse.source \/ d \in DOMAIN shown[f].parse.copies
      BY DefinedWhere
    <3> QED
      BY <3>1, <3>3, <3>4
  <2> QED
    BY <2>1, <2>2
<1>7. ASSUME NEW s \in Sources,
             IF content[s] # None THEN c \in Reached(E, s) ELSE index[c] = << >> /\ s \in OnDisk(c)
      PROVE  s \in IF index[c] # << >> THEN ToSet(index[c]) ELSE OnDisk(c)
  <2>1. CASE content[s] # None
    <3>1. Contains(index[c], s)
      BY <1>7, <2>1 DEF KnownInv, Known, E, W
    <3>2. index[c] \in Seq(Sources)
      BY <1>6 DEF ServedInv, IsW, W
    <3>3. PICK i \in 1 .. Len(index[c]) : index[c][i] = s
      BY <3>1 DEF Contains
    <3>4. index[c] # << >> /\ s \in ToSet(index[c])
      BY <3>2, <3>3 DEF ToSet
    <3> QED
      BY <3>4
  <2>2. CASE content[s] = None
    BY <1>7, <2>2
  <2> QED
    BY <2>1, <2>2
<1> DEFINE concerned == {s \in Sources : IF content[s] # None THEN c \in Reached(E, s)
                                         ELSE index[c] = << >> /\ s \in OnDisk(c)}
<1>8. concerned \subseteq IF index[c] # << >> THEN ToSet(index[c]) ELSE OnDisk(c)
  BY <1>7
<1>9. Mentioning({c} \cup concerned, n) \subseteq Cascade(c, n)
  <2> HIDE DEF concerned
  <2> QED
    BY <1>8 DEF Mentioning, Cascade
<1> QED
  BY <1>5, <1>9

\* What a search answers, of a that is its answer and p the parse it began with.
LEMMA ReferencesAnswers ==
    ASSUME ServedInv, NEW f \in Files, NEW n \in Names, References(f, n), NEW a, a = answer',
           a.of # None, NEW p, p = shown[f].parse, NEW behind,
           \A s : s \in behind <=> s = p.source /\ p.text # Buffer(E, s)
    PROVE  /\ a.at = f /\ a.name = n
           /\ (a.files \cap Sources) \ behind
                = Mentioning(OnDisk(a.of) \cup {p.source}, n) \ behind
           /\ Unsaved \/ behind = {}
<1> DEFINE P == shown[f].parse
           Within == {P.source : x \in {y \in {0} : n \in P.text.names}}
                        \cup {d \in DOMAIN P.copies : n \in P.copies[d].names}
           Own == IF f \in Copies THEN Within \cap {f, P.source} ELSE Within
           Answer(x) == [to |-> "references", name |-> n, at |-> f, of |-> x,
                         files |-> Own \cup {s \in Sources : /\ x # None /\ s \in OnDisk(x)
                                                             /\ s # P.source /\ Searched(s, n)}]
<1>0. shown[f] # None /\ f \in Within /\ \E x : answer' = Answer(x)
  <2>1. shown[f] # None /\ f \in Within
    BY Zenon DEF References
  <2>2. \E d \in DefinedIn(P, n) : answer' = Answer(IF f \in Copies THEN f ELSE IF d # f THEN d ELSE None)
    BY Zenon DEF References
  <2> HIDE DEF Answer
  <2> QED
    BY <2>1, <2>2
<1>2. PICK within : /\ within = Within
                    /\ within = {p.source : x \in {y \in {0} : n \in p.text.names}}
                                   \cup {d \in DOMAIN p.copies : n \in p.copies[d].names}
  OBVIOUS
<1>3. PICK own : own = Own /\ own = IF f \in Copies THEN within \cap {f, p.source} ELSE within
  BY <1>2
<1>4. /\ shown[f] # None /\ f \in within
      /\ \E x : a = [to |-> "references", name |-> n, at |-> f, of |-> x,
                     files |-> own \cup {s \in Sources : /\ x # None /\ s \in OnDisk(x)
                                                         /\ s # p.source /\ Searched(s, n)}]
  <2>1. PICK x : answer' = Answer(x)
    BY <1>0
  <2> HIDE DEF Within, Own
  <2> QED
    BY <1>0, <1>2, <1>3, <2>1
<1> HIDE DEF P, Within, Own, Answer
<1>5. PICK c : c = a.of
  OBVIOUS
<1>6. /\ a.at = f /\ a.name = n
      /\ a.files = own \cup {s \in Sources : s \in OnDisk(c) /\ s # p.source /\ Searched(s, n)}
  BY <1>4, <1>5
<1>7. p.source \in Sources /\ (Unsaved \/ p.text = Buffer(E, p.source))
      /\ DOMAIN p.copies \subseteq Copies
  <2>1. CASE f \in Copies
    <3>1. CopyShown(W, E, f)
      BY <2>1 DEF ServedInv
    <3>2. p.source \in Sources /\ DOMAIN p.copies \subseteq Copies
      BY <1>4, <3>1 DEF CopyShown, W
    <3>3. f # p.source
      BY <2>1, <3>2, LspAssumption
    <3>4. f \in DOMAIN p.copies
      BY <1>2, <1>4, <3>3
    <3>5. Unsaved \/ p.text = Buffer(E, p.source)
      BY <1>4, <3>1, <3>4 DEF CopyShown, W
    <3> QED
      BY <2>1, <3>2, <3>5
  <2>2. CASE f \notin Copies
    <3>1. f \in Sources
      BY <2>2 DEF Files
    <3>2. SourceShown(W, E, f)
      BY <3>1 DEF ServedInv
    <3>3. /\ content[f] # None /\ p.source = f /\ p.text = content[f]
          /\ DOMAIN p.copies \subseteq Copies
      BY <1>4, <3>2 DEF SourceShown, W, E
    <3> QED
      BY <3>1, <3>3 DEF Buffer, E
  <2> QED
    BY <2>1, <2>2
<1>8. ASSUME NEW s \in Sources PROVE s \in own <=> s = p.source /\ n \in p.text.names
  <2>1. s \notin DOMAIN p.copies
    BY <1>7, LspAssumption
  <2>2. s \in within <=> s = p.source /\ n \in p.text.names
    BY <1>2, <2>1
  <2>3. s \in own => s \in within
    BY <1>3
  <2>4. s \in within => s \in own
    BY <1>3, <2>2
  <2> QED
    BY <2>2, <2>3, <2>4
<1>9. ASSUME NEW s \in Sources PROVE Searched(s, n) <=> n \in Buffer(E, s).names
  <2>1. SourceShown(W, E, s)
    BY DEF ServedInv
  <2> QED
    BY <2>1 DEF SourceShown, Searched, Buffer, E, W
<1>10. ASSUME NEW s, s \notin behind
       PROVE  s \in a.files \cap Sources <=> s \in Mentioning(OnDisk(c) \cup {p.source}, n)
  <2>1. OnDisk(c) \subseteq Sources
    BY DEF OnDisk
  <2>2. s \in Mentioning(OnDisk(c) \cup {p.source}, n)
          <=> (s \in OnDisk(c) \/ s = p.source) /\ n \in Buffer(E, s).names
    BY DEF Mentioning
  <2>3. CASE s \notin Sources
    BY <1>7, <2>1, <2>2, <2>3
  <2>4. CASE s \in Sources /\ s # p.source
    <3>1. s \in a.files <=> s \in OnDisk(c) /\ Searched(s, n)
      BY <1>6, <1>8, <2>4
    <3> QED
      BY <1>9, <2>2, <2>4, <3>1
  <2>5. CASE s = p.source
    <3>1. s \in Sources /\ p.text = Buffer(E, s)
      BY <1>7, <1>10, <2>5
    <3>2. s \in a.files <=> n \in p.text.names
      BY <1>6, <1>8, <2>5, <3>1
    <3> QED
      BY <2>2, <2>5, <3>1, <3>2
  <2> QED
    BY <2>3, <2>4, <2>5
<1>11. Unsaved \/ behind = {}
  BY <1>7
<1>12. (a.files \cap Sources) \ behind = Mentioning(OnDisk(c) \cup {p.source}, n) \ behind
  BY <1>10
<1> QED
  BY <1>5, <1>6, <1>11, <1>12

\* A rename of what a COPY file defines reaches every open source that copies
\* the file now, and the workspace when no source was known: for any files and
\* texts, saved or not, whatever the order of the messages and however the
\* include paths come and go, when what a COPY file copies does not change.
\* (rename_cascade_copy and the COPY index)
THEOREM RenameIsComplete ==
    ASSUME IsFiniteSet(Copies), IsFiniteSet(Sources), NoneApart, Steady
    PROVE  SSpec => RenameReachesOpen
<1>1. ServedInv /\ (Steady => KnownInv) /\ [SNext]_server_vars =>
          [answer' # None /\ answer'.to = "rename" /\ answer'.of # None =>
             LET c == answer'.of
                 concerned == {s \in Sources : IF content[s] # None THEN c \in Reached(E, s)
                                               ELSE index[c] = << >> /\ s \in OnDisk(c)}
             IN  Mentioning({c} \cup concerned, answer'.name) \subseteq answer'.files]_server_vars
  <2> SUFFICES ASSUME ServedInv, KnownInv, SNext,
                      answer' # None, answer'.to = "rename", answer'.of # None
               PROVE  LET c == answer'.of
                          concerned == {s \in Sources : IF content[s] # None THEN c \in Reached(E, s)
                                                        ELSE index[c] = << >> /\ s \in OnDisk(c)}
                      IN  Mentioning({c} \cup concerned, answer'.name) \subseteq answer'.files
    BY Zenon
  <2>1. PICK f \in Files, n \in Names : Rename(f, n) \/ References(f, n)
    BY DEF SNext
  <2>2. ~ References(f, n)
    BY DEF References
  <2>3. PICK c : c = answer'.of
    OBVIOUS
  <2>4. LET concerned == {s \in Sources : IF content[s] # None THEN c \in Reached(E, s)
                                          ELSE index[c] = << >> /\ s \in OnDisk(c)}
        IN  Mentioning({c} \cup concerned, answer'.name) \subseteq answer'.files
    BY <2>1, <2>2, <2>3, RenameAnswers
  <2> QED
    BY <2>3, <2>4
<1> QED
  BY SessionInvariant, <1>1, PTL DEF SSpec, RenameReachesOpen

\* A search leaves what it has looked at as it is.
LEMMA SearchLooks ==
    ASSUME UNCHANGED vars
    PROVE  /\ \A f : shown[f]' = shown[f]
           /\ \A s : Buffer(E, s)' = Buffer(E, s)
           /\ \A c : OnDisk(c)' = OnDisk(c)
           /\ \A files, n : Mentioning(files, n)' = Mentioning(files, n)
  BY DEF vars, E, Buffer, OnDisk, Mentioning

LEMMA SearchAnswers ==
    ASSUME ServedInv, [SNext]_server_vars, ReferencesFound, ~ Unsaved => ReferencesCurrent
    PROVE  ReferencesFound' /\ (~ Unsaved => ReferencesCurrent')
<1>1. CASE UNCHANGED server_vars
  <2>1. UNCHANGED vars /\ answer' = answer
    BY <1>1 DEF server_vars
  <2> QED
    BY <2>1, SearchLooks DEF ReferencesFound, ReferencesCurrent, Searching, Concerned, Behind, Began
<1>2. CASE answer' = None
  BY <1>2 DEF ReferencesFound, ReferencesCurrent, Searching
<1>3. ASSUME NEW f \in Files, NEW n \in Names, Rename(f, n)
      PROVE  ReferencesFound' /\ (~ Unsaved => ReferencesCurrent')
  <2>1. answer'.to = "rename"
    BY <1>3 DEF Rename
  <2> QED
    BY <2>1 DEF ReferencesFound, ReferencesCurrent, Searching
<1>4. ASSUME NEW f \in Files, NEW n \in Names, References(f, n)
      PROVE  ReferencesFound' /\ (~ Unsaved => ReferencesCurrent')
  <2> SUFFICES ASSUME answer'.of # None PROVE ReferencesFound' /\ (~ Unsaved => ReferencesCurrent')
    BY DEF ReferencesFound, ReferencesCurrent, Searching
  <2>1. UNCHANGED vars
    BY <1>4 DEF References
  <2>2. PICK a, p : a = answer' /\ p = shown[f].parse
    OBVIOUS
  <2>3. PICK behind : behind = {s \in {p.source} : p.text # Buffer(E, s)}
    OBVIOUS
  <2>4. /\ a.at = f /\ a.name = n
        /\ (a.files \cap Sources) \ behind
             = Mentioning(OnDisk(a.of) \cup {p.source}, n) \ behind
        /\ Unsaved \/ behind = {}
    <3>1. a = answer' /\ a.of # None /\ p = shown[f].parse
      BY <2>2
    <3>2. \A s : s \in behind <=> s = p.source /\ p.text # Buffer(E, s)
      BY <2>3
    <3> QED
      BY <1>4, <3>1, <3>2, ReferencesAnswers
  <2>5. Began' = p
    BY <2>1, <2>2, <2>4, SearchLooks DEF Began
  <2>6. Behind' = behind
    <3>1. Behind' = {s \in {Began'.source} : Began'.text # Buffer(E, s)'}
      BY DEF Behind
    <3> QED
      BY <2>1, <2>3, <2>5, <3>1, SearchLooks
  <2>7. Concerned' = OnDisk(a.of) \cup {p.source}
    BY <2>1, <2>2, <2>5, SearchLooks DEF Concerned
  <2>8. Mentioning(Concerned, answer.name)' = Mentioning(OnDisk(a.of) \cup {p.source}, n)
    BY <2>1, <2>2, <2>4, <2>7 DEF Mentioning, vars, E, Buffer
  <2> QED
    BY <2>2, <2>4, <2>6, <2>8 DEF ReferencesFound, ReferencesCurrent
<1> QED
  BY <1>1, <1>2, <1>3, <1>4 DEF SNext

LEMMA SearchInvariant ==
    ASSUME IsFiniteSet(Copies), IsFiniteSet(Sources), NoneApart
    PROVE  SSpec => [](ReferencesFound /\ (~ Unsaved => ReferencesCurrent))
<1>1. SInit => ReferencesFound /\ (~ Unsaved => ReferencesCurrent)
  BY DEF SInit, ReferencesFound, ReferencesCurrent, Searching
<1>2. /\ ReferencesFound /\ (~ Unsaved => ReferencesCurrent)
      /\ ServedInv /\ (Steady => KnownInv) /\ [SNext]_server_vars
      => (ReferencesFound /\ (~ Unsaved => ReferencesCurrent))'
  BY SearchAnswers
<1> QED
  BY SessionInvariant, <1>1, <1>2, PTL DEF SSpec

\* A search for what a COPY file defines finds just the sources that copy it
\* and have the name, in the editor's text if they are open: for any files and
\* texts, documents opened and closed unsaved, whatever the order of the
\* messages and however the include paths come and go; but for the source the
\* COPY file was parsed through when that was opened or closed unsaved since.
\* (handle_references, search_src_for_references)
THEOREM ReferencesAreFound ==
    ASSUME IsFiniteSet(Copies), IsFiniteSet(Sources), NoneApart
    PROVE  SSpec => []ReferencesFound
  BY SearchInvariant, PTL

\* And that one too when documents are opened and closed as the disk has them.
\* (handle_references, document_parse_copy, handle_did_change)
THEOREM ReferencesAreCurrent ==
    ASSUME IsFiniteSet(Copies), IsFiniteSet(Sources), NoneApart, ~ Unsaved
    PROVE  SSpec => []ReferencesCurrent
<1>1. ReferencesFound /\ (~ Unsaved => ReferencesCurrent) => ReferencesCurrent
  OBVIOUS
<1> QED
  BY SearchInvariant, <1>1, PTL
=============================================================================
