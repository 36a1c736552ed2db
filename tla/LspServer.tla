------------------------------ MODULE LspServer ------------------------------
(***************************************************************************)
(* The language server as a client sees it: dispatch and the lifecycle     *)
(* (lsp/server.c, main.c), the request for the configuration, and the two  *)
(* requests that leave the document they are about, references and rename  *)
(* (handlers.c), on the documents of LspDocs.  The client may send any     *)
(* message at any time, also out of order.                                 *)
(*                                                                         *)
(* For these requests a text also has the identifiers outside its comments *)
(* and strings (names) and those it defines (defs).                        *)
(***************************************************************************)
EXTENDS LspDocs

CONSTANTS
    Names,              \* the identifiers
    MaxRequests         \* bound: requests of the server

ASSUME ServerAssumption == MaxRequests \in Nat /\ None \notin {0, 1}

VARIABLES
    state,              \* "uninitialized", "initializing", "running", "shutdown"
    supports,           \* client_supports_configuration
    next_request_id,    \* of the request for the configuration, when pending
    unanswered,         \* requests the client has not answered yet
    applied,            \* history: the request whose answer was applied last
    stopped,            \* history: was shutdown requested, did the input end
    exit,               \* exit code of the process, None while it runs
    answer              \* to references or rename, of this very step

session == << state, supports, next_request_id, unanswered, applied, stopped, exit >>
server_vars == << vars, session, answer >>

SInit ==
    /\ DocsInit /\ pending = FALSE
    /\ state = "uninitialized" /\ supports = FALSE
    /\ next_request_id = 0 /\ unanswered = {} /\ applied = 0
    /\ stopped = "no" /\ exit = None /\ answer = None

-----------------------------------------------------------------------------
(* The lifecycle: only initialize looks at the state.                      *)

Initialize(configuration) ==
    /\ state = "uninitialized"
    /\ state' = "initializing" /\ supports' = configuration
    /\ UNCHANGED << vars, next_request_id, unanswered, applied, stopped, exit >>

\* Sent again, it asks again, and the answer to the first request is not
\* waited for any more.
Initialized ==
    /\ state' = "running"
    /\ supports => next_request_id < MaxRequests
    /\ next_request_id' = next_request_id + (IF supports THEN 1 ELSE 0)
    /\ unanswered' = IF supports THEN unanswered \cup {next_request_id'} ELSE unanswered
    /\ pending' = (pending \/ supports)
    /\ UNCHANGED << disk, documents, content, index, parent, shown, paths, style,
                    supports, applied, stopped, exit >>

Shutdown ==
    /\ state' = "shutdown" /\ stopped' = "shutdown"
    /\ UNCHANGED << vars, supports, next_request_id, unanswered, applied, exit >>

Exit ==
    /\ exit' = IF state = "shutdown" THEN 0 ELSE 1
    /\ UNCHANGED << vars, state, supports, next_request_id, unanswered, applied, stopped >>

\* message_read fails: the end of the input, or a message without a length.
EndOfInput ==
    /\ exit' = 0 /\ stopped' = "end"
    /\ UNCHANGED << vars, state, supports, next_request_id, unanswered, applied >>

\* With a fault: any answer is taken.
ResponseAny(id, c) ==
    /\ id \in unanswered /\ unanswered' = unanswered \ {id}
    /\ IF pending
       THEN ConfigurationResponse(c) /\ applied' = id
       ELSE UNCHANGED << vars, applied >>
    /\ UNCHANGED << state, supports, next_request_id, stopped, exit >>

\* An answer to a request that is not waited for is ignored, in any state.
Response(id, c) ==
    /\ id \in unanswered /\ unanswered' = unanswered \ {id}
    /\ IF pending /\ id = next_request_id
       THEN ConfigurationResponse(c) /\ applied' = id
       ELSE UNCHANGED << vars, applied >>
    /\ UNCHANGED << state, supports, next_request_id, stopped, exit >>

\* An error, or a result without a configuration in it.
ResponseEmpty(id) ==
    /\ id \in unanswered /\ unanswered' = unanswered \ {id}
    /\ pending' = (pending /\ id # next_request_id)
    /\ UNCHANGED << disk, documents, content, index, parent, shown, paths, style,
                    state, supports, next_request_id, applied, stopped, exit >>

Running == state = "running"
\* With a fault: initialize is enough.
DocumentMessageEarly ==
    /\ state \in {"initializing", "running"}
    /\ \E f \in Files : \/ \E t \in Texts[f] : DidOpen(f, t) \/ DidChange(f, t)
                        \/ DidSave(f) \/ DidClose(f)
    /\ UNCHANGED session

\* Before initialized and after shutdown the rest is refused.
DocumentMessage ==
    /\ Running
    /\ \E f \in Files : \/ \E t \in Texts[f] : DidOpen(f, t) \/ DidChange(f, t)
                        \/ DidSave(f) \/ DidClose(f)
    /\ UNCHANGED session

-----------------------------------------------------------------------------
(* References and rename.                                                  *)

\* The sources of the workspace that name c, as the disk has them.
OnDisk(c) == {s \in Sources : c \in disk[s].copies}

\* The file of a parse in which n is defined, or None.
DefinedIn(p, n) ==
    LET files == (IF n \in p.text.defs THEN {p.source} ELSE {})
                   \cup {c \in DOMAIN p.copies : n \in p.copies[c].defs}
    IN  IF files = {} THEN {None} ELSE files

Mentioning(files, n) == {f \in files : n \in Buffer(E, f).names}

\* With a fault: the disk is asked although the index knows.
CascadeDisk(c, n) == Mentioning({c} \cup OnDisk(c), n)
\* rename_cascade_copy: the sources the index knows, the workspace only when
\* it knows none.
Cascade(c, n) ==
    Mentioning({c} \cup (IF index[c] # << >> THEN ToSet(index[c]) ELSE OnDisk(c)), n)

\* The names of f are replaced in its text; those of a COPY file, and of one
\* that has the definition, also in the texts of those that copy it.
Rename(f, n) ==
    /\ Running /\ shown[f] # None /\ n \in content[f].names
    /\ \E d \in DefinedIn(shown[f].parse, n) :
         LET c == IF f \in Copies THEN f ELSE IF d # f THEN d ELSE None
         IN  IF c = None
             THEN answer' = [to |-> "rename", name |-> n, of |-> None, files |-> {f}] /\ index' = index
             ELSE /\ answer' = [to |-> "rename", name |-> n, of |-> c, files |-> {f} \cup Cascade(c, n)]
                  /\ \E order \in SetToSeqs(OnDisk(c)) :
                       index' = IF index[c] = << >> THEN [index EXCEPT ![c] = order] ELSE index
    /\ UNCHANGED << disk, documents, content, parent, shown, paths, style, pending, session >>

\* With a fault: an open source is searched as the disk has it.
SearchedDisk(s, n) == n \in disk[s].names

\* search_src_for_references: the result shown of an open source, or one of
\* the disk.
Searched(s, n) ==
    n \in (IF shown[s] # None THEN shown[s].parse.text ELSE disk[s]).names

\* What the parse of f has of n, and the sources on the disk that copy the
\* file n is defined in; of a COPY file itself and its source.
References(f, n) ==
    /\ Running /\ shown[f] # None
    /\ LET p == shown[f].parse
           within == {p.source : x \in {y \in {0} : n \in p.text.names}}
                       \cup {c \in DOMAIN p.copies : n \in p.copies[c].names}
       IN  /\ f \in within
           /\ \E d \in DefinedIn(p, n) :
             LET c == IF f \in Copies THEN f ELSE IF d # f THEN d ELSE None
                 own == IF f \in Copies THEN within \cap {f, p.source} ELSE within
             IN  answer' = [to |-> "references", name |-> n, at |-> f, of |-> c,
                            files |-> own \cup {s \in Sources : /\ c # None /\ s \in OnDisk(c)
                                                               /\ s # p.source /\ Searched(s, n)}]
    /\ UNCHANGED << vars, session >>

-----------------------------------------------------------------------------
Message ==
    \/ \E b \in BOOLEAN : Initialize(b)
    \/ Initialized \/ Shutdown \/ Exit \/ EndOfInput
    \/ \E id \in unanswered : ResponseEmpty(id) \/ \E c \in Configurations : Response(id, c)
    \/ DocumentMessage

SNext ==
    /\ exit = None
    /\ \/ Message /\ answer' = None
       \/ \E f \in Files, n \in Names : Rename(f, n) \/ References(f, n)

SSpec == SInit /\ [][SNext]_server_vars

-----------------------------------------------------------------------------
\* A configuration is that of the newest request, and no request's answer is
\* applied twice or after that of a later one, whenever the client answers.
\* (dispatch, pending_config_request_id)
NewestConfiguration ==
    [][<< paths, style >>' # << paths, style >> => applied < applied' /\ applied' = next_request_id]_server_vars

\* Nothing the client sends before initialized or after shutdown reaches the
\* documents, and the exit code says whether shutdown was called, unless the
\* client says initialized once more after it.  (dispatch, handle_exit)
OnlyWhenRunning ==
    [][/\ << documents, content, index, parent >>' # << documents, content, index, parent >>
            => state = "running" \/ unanswered' # unanswered
       /\ exit' # exit /\ stopped' # "end" =>
            (exit' = 0 <=> stopped = "shutdown" /\ state # "running")]_server_vars

\* A rename of what a COPY file defines, wherever it is asked for, reaches
\* every open source that copies the file now, saved or not, and every source
\* of the workspace when no one was known to copy it.
\* (rename_cascade_copy, "renames propagate to the COPY file and all .src files")
RenameReachesOpen ==
    [][answer' # None /\ answer'.to = "rename" /\ answer'.of # None =>
         LET c == answer'.of
             concerned == {s \in Sources : IF content[s] # None THEN c \in Reached(E, s)
                                           ELSE index[c] = << >> /\ s \in OnDisk(c)}
         IN  Mentioning({c} \cup concerned, answer'.name) \subseteq answer'.files]_server_vars

\* The answer to a search for what a COPY file defines, the sources it is
\* about, and the parse it began with: that of the file it was asked in.
Searching == answer # None /\ answer.to = "references" /\ answer.of # None
Began == shown[answer.at].parse
Concerned == OnDisk(answer.of) \cup {Began.source}

\* The source that parse was made through, once it was opened or closed unsaved
\* and no longer has the text it had then.
Behind == {s \in {Began.source} : Began.text # Buffer(E, s)}

\* A search finds every source that copies the COPY file on the disk and names
\* what it defines, and no source that does not name it, by the text of the
\* editor where one is open and else by that of the disk, however the texts
\* have come and gone; but for the source the COPY file was parsed through,
\* when that was opened or closed unsaved since.
\* (handle_references, search_src_for_references: "If the file is open, uses
\* its existing AST. Otherwise, parses from disk.")
ReferencesFound ==
    Searching => (answer.files \cap Sources) \ Behind = Mentioning(Concerned, answer.name) \ Behind

\* That source is no exception: what the comment of search_src_for_references
\* says of a source of the workspace holds of all of them.
\* (handle_references, "Skip the parent we already searched via the COPY doc's AST")
ReferencesCurrent ==
    Searching => answer.files \cap Sources = Mentioning(Concerned, answer.name)
=============================================================================
