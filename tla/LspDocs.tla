------------------------------- MODULE LspDocs -------------------------------
(***************************************************************************)
(* The documents of the language server: which results of which parses it  *)
(* shows, as the handlers of lsp/handlers.c and the parses and the COPY    *)
(* index of lsp/document.c keep them.  A file is a source (.src) or a COPY *)
(* file (no extension).  A source is parsed with the files it copies; of   *)
(* an open COPY file the parser is given the editor's text in place of     *)
(* that of the disk.  A COPY file is parsed through a source that copies   *)
(* it.  A change of one document therefore asks for new parses of others.  *)
(*                                                                         *)
(* The server handles one message at a time.  A text is a record of which  *)
(* only the COPY files it names (copies) matter here; the result of a      *)
(* parse is what the parser was given.  The server has been initialized,   *)
(* and its request for the configuration may be answered at any time.      *)
(***************************************************************************)
EXTENDS Integers, SequencesExt

CONSTANTS
    Sources, Copies,            \* the files
    ReadDir,                    \* the sources as the directory lists them
    Texts,                      \* file -> texts it may have
    Nearby,                     \* COPY files found without an include path
    Configurations,             \* [paths, style]: answers of the client
    DefaultStyle,
    MAX_CONTENT_OVERRIDES,      \* 16
    Unsaved,                    \* may documents be opened and closed unsaved?
    None

Files == Sources \cup Copies

ASSUME LspAssumption ==
    /\ Sources \cap Copies = {} /\ Nearby \subseteq Copies
    /\ ReadDir \in Seq(Sources)
    /\ \A f \in Files : \A t \in Texts[f] : t.copies \subseteq Copies
    /\ MAX_CONTENT_OVERRIDES \in Nat /\ Unsaved \in BOOLEAN
    /\ \A c \in Configurations : c.paths \in BOOLEAN
    /\ None \notin Files /\ \A f \in Files : None \notin Texts[f]

VARIABLES
    disk,           \* file -> text
    documents,      \* the open files, in the order of the store
    content,        \* file -> text in the editor, None when it is closed
    index,          \* COPY file -> sources known to copy it, never forgotten
    parent,         \* open COPY file -> the source it was parsed through
    shown,          \* file -> the parse whose diagnostics the editor shows
    paths, style,   \* of the configuration
    pending         \* the configuration has not been answered

vars == << disk, documents, content, index, parent, shown, paths, style, pending >>

-----------------------------------------------------------------------------
(* A parse sees an environment: E before a message, E' after it.           *)
E == [disk |-> disk, documents |-> documents, content |-> content,
      paths |-> paths, style |-> style]

Buffer(e, f) == IF e.content[f] # None THEN e.content[f] ELSE e.disk[f]

\* The open COPY files whose text preproc_set_content_override has room for.
Overridden(e) ==
    {e.documents[i] : i \in {j \in DOMAIN e.documents :
        /\ e.documents[j] \in Copies
        /\ Cardinality({k \in 1 .. j : e.documents[k] \in Copies}) <= MAX_CONTENT_OVERRIDES}}
Seen(e, c) == IF c \in Overridden(e) THEN e.content[c] ELSE e.disk[c]

\* The COPY files that are found, and those a parse of s reads.
Found(e) == IF e.paths THEN Copies ELSE Nearby
Reached(e, s) ==
    LET Within[n \in 0 .. Cardinality(Copies)] ==
            IF n = 0 THEN Buffer(e, s).copies \cap Found(e)
            ELSE Within[n - 1] \cup ((UNION {Seen(e, c).copies : c \in Within[n - 1]}) \cap Found(e))
    IN  Within[Cardinality(Copies)]

\* What the parser is given: the text of s, and of each file it reads.
Parse(e, s) ==
    [source |-> s, text |-> Buffer(e, s), copies |-> [c \in Reached(e, s) |-> Seen(e, c)]]

-----------------------------------------------------------------------------
(* The parses change w: the index, the parents and what is shown.          *)
W == [index |-> index, parent |-> parent, shown |-> shown]

\* copy_index_add for each of cs, s at the end of those known.
Populate(w, s, cs) ==
    [w EXCEPT !.index = [c \in Copies |-> IF c \in cs /\ ~ Contains(w.index[c], s)
                                          THEN Append(w.index[c], s) ELSE w.index[c]]]

document_parse_with_overrides(w, e, s) ==
    [w EXCEPT !.shown[s] = [parse |-> Parse(e, s), style |-> e.style]]

\* And the index learns what the source copies.
ParseSource(w, e, s) ==
    Populate(document_parse_with_overrides(w, e, s), s, Reached(e, s))

\* The first of a sequence of sources that is in a set.
FirstOf(q, set) ==
    LET places == {i \in DOMAIN q : q[i] \in set}
    IN  IF places = {} THEN None ELSE q[CHOOSE i \in places : \A j \in places : i <= j]

\* One that is open, or else the first.
copy_index_find_parent(w, e, c) ==
    LET open == FirstOf(w.index[c], {s \in Sources : e.content[s] # None})
    IN  IF open # None THEN open ELSE FirstOf(w.index[c], Sources)

\* The first on the disk that names c.
find_first_src_that_copies(e, c) == FirstOf(ReadDir, {s \in Sources : c \in e.disk[s].copies})

document_parse_copy(w, e, c) ==
    LET known == copy_index_find_parent(w, e, c)
        p == IF known # None THEN known ELSE find_first_src_that_copies(e, c)
        learnt == Reached(e, p)
        indexed == Populate(w, p, IF learnt # {} /\ known = None THEN learnt \cup {c} ELSE learnt)
    IN  IF p = None THEN w
        ELSE [indexed EXCEPT !.parent[c] = p, !.shown[c] = [parse |-> Parse(e, p)]]

Reparse(w, e, f) == IF f \in Copies THEN document_parse_copy(w, e, f) ELSE ParseSource(w, e, f)

\* In the order of the documents, those of the sources and the COPY files with
\* one of the parents: each may change the index the next one is looked up in.
ReparseEach(w0, e, sources, parents) ==
    LET Parsed[n \in 0 .. Len(e.documents)] ==
            IF n = 0 THEN w0
            ELSE LET w == Parsed[n - 1]
                     f == e.documents[n]
                 IN  IF f \in sources \/ (f \in Copies /\ w.parent[f] \in parents)
                     THEN Reparse(w, e, f) ELSE w
    IN  Parsed[Len(e.documents)]

\* With a fault: the dependent that copy_index_find_parent would choose.
ParseDependentsOne(w, e, c) ==
    [w EXCEPT !.shown = [f \in Files |->
        IF f = copy_index_find_parent(w, e, c) /\ e.content[f] # None
        THEN [parse |-> Parse(e, f), style |-> e.style] ELSE w.shown[f]]]

\* The open sources the index knows to copy c.  The index does not learn from
\* these parses.
ParseDependents(w, e, c) ==
    [w EXCEPT !.shown = [f \in Files |->
        IF Contains(w.index[c], f) /\ e.content[f] # None
        THEN [parse |-> Parse(e, f), style |-> e.style] ELSE w.shown[f]]]

Becomes(w) == index' = w.index /\ parent' = w.parent /\ shown' = w.shown

-----------------------------------------------------------------------------
DocsInit ==
    /\ disk \in [Files -> UNION {Texts[f] : f \in Files}]
    /\ \A f \in Files : disk[f] \in Texts[f]
    /\ documents = << >>
    /\ content = [f \in Files |-> None]
    /\ index = [c \in Copies |-> << >>]
    /\ parent = [c \in Copies |-> None]
    /\ shown = [f \in Files |-> None]
    /\ paths = FALSE /\ style = DefaultStyle
Init == DocsInit /\ pending = TRUE

\* The store: the newest document at the end, the others move up.
docstore_open(f, t) ==
    documents' = Append(documents, f) /\ content' = [content EXCEPT ![f] = t]
docstore_update(f, t) ==
    documents' = documents /\ content' = [content EXCEPT ![f] = t]
docstore_close(f) ==
    /\ \E i \in DOMAIN documents : documents[i] = f /\ documents' = RemoveAt(documents, i)
    /\ content' = [content EXCEPT ![f] = None]
    /\ parent' = [c \in Copies |-> IF c = f THEN None ELSE parent[c]]

\* The editor opens a file with the text of the disk, or with one it has kept.
DidOpen(f, t) ==
    /\ content[f] = None
    /\ Unsaved \/ t = disk[f]
    /\ docstore_open(f, t)
    /\ UNCHANGED << disk, paths, style, pending >>
    /\ Becomes(Reparse(W, E', f))

\* With a fault: the COPY files of a source are not parsed again.
DidChangeAlone(f, t) ==
    /\ content[f] # None
    /\ docstore_update(f, t)
    /\ UNCHANGED << disk, paths, style, pending >>
    /\ LET w == Reparse(W, E', f)
       IN  Becomes(IF f \in Copies THEN ParseDependents(w, E', f) ELSE w)

\* The document first, then those that hang on it.
DidChange(f, t) ==
    /\ content[f] # None
    /\ docstore_update(f, t)
    /\ UNCHANGED << disk, paths, style, pending >>
    /\ LET w == Reparse(W, E', f)
       IN  Becomes(IF f \in Copies THEN ParseDependents(w, E', f)
                   ELSE ReparseEach(w, E', {}, {f}))

\* The editor has written the file.
DidSave(f) ==
    /\ content[f] # None
    /\ disk' = [disk EXCEPT ![f] = content[f]]
    /\ UNCHANGED << documents, content, paths, style, pending >>
    /\ Becomes(Reparse(W, E', f))

\* With a fault: what was shown is not cleared.
DidCloseKeep(f) ==
    /\ content[f] # None
    /\ Unsaved \/ content[f] = disk[f]
    /\ docstore_close(f)
    /\ UNCHANGED << disk, index, shown, paths, style, pending >>

\* Nothing is shown of it any more; the others are left as they are.
DidClose(f) ==
    /\ content[f] # None
    /\ Unsaved \/ content[f] = disk[f]
    /\ docstore_close(f)
    /\ shown' = [shown EXCEPT ![f] = None]
    /\ UNCHANGED << disk, index, paths, style, pending >>

\* handle_configuration_response: with include paths everything is parsed
\* again, the sources before the COPY files.  An answer that leaves something
\* out leaves it as it is.
ConfigurationResponse(c) ==
    /\ pending
    /\ pending' = FALSE
    /\ paths' = c.paths /\ style' = c.style
    /\ UNCHANGED << disk, documents, content >>
    /\ Becomes(IF c.paths
               THEN ReparseEach(ReparseEach(W, E', Sources, {}), E', {}, Sources \cup {None})
               ELSE W)

Next ==
    \/ \E f \in Files :
          \/ \E t \in Texts[f] : DidOpen(f, t) \/ DidChange(f, t)
          \/ DidSave(f) \/ DidClose(f)
    \/ \E c \in Configurations : ConfigurationResponse(c)

Spec == Init /\ [][Next]_vars

-----------------------------------------------------------------------------
\* What is shown of an open source is what a parse would give now, of its own
\* text and of that of every file it copies, whatever has been typed in any
\* of them, opened, saved or closed.
\* (handle_did_change, "re-parse any open .src files that include this COPY
\* file"; document_parse_with_overrides)
SourcesFresh ==
    \A s \in Sources : content[s] # None =>
        shown[s] = [parse |-> Parse(E, s), style |-> style]

\* The diagnostics an open COPY file shows, those of its own lines, come from
\* its present text, in the present text of the source it was parsed through;
\* and when that source copies it now, it did in that parse.
\* (document_parse_copy, the cascade of handle_did_change)
CopiesFresh ==
    \A c \in Copies : shown[c] # None =>
        LET p == shown[c].parse
            now == Parse(E, parent[c])
        IN  /\ c \in DOMAIN p.copies <=> c \in DOMAIN now.copies
            /\ c \in DOMAIN p.copies =>
                  p.source = parent[c] /\ p.text = now.text /\ p.copies[c] = content[c]
=============================================================================
