------------------------------ MODULE CopyText ------------------------------
(***************************************************************************)
(* What the scanner promises the parser: the words of a document, each     *)
(* COPY replaced by the words of its file, every word with the file and    *)
(* the line it stands in.  The texts being read lie in frames, one within  *)
(* the other, and that is all there is: no word is awaited beyond the end  *)
(* of its text, and nothing of one document is there when the next begins. *)
(* Preproc, with its stacks of buffers, files and includers and its start  *)
(* condition, all of which outlive a parse, implements it.                 *)
(***************************************************************************)
EXTENDS Integers, Sequences

CONSTANTS Disks, NULL, MAX_INCLUDE_DEPTH

VARIABLES
    disk,           \* the documents there are, and the COPY files
    frames,         \* the document, the file it copies, the file that copies ...
    tokens          \* what the parser has been given

\* A text from line l on.  It expects words to begin with; behind COPY or
\* DEFINE it expects a name, and then a semicolon.
Frame(f, text, l) ==
    [file |-> f, rest |-> text, line |-> l, expects |-> "INITIAL", name |-> NULL]

Depth == Len(frames)
Here == frames[Depth]
Word == Head(Here.rest)
\* The text being read, from r on; without the word just read.
Turn(r, l, e, n) ==
    [frames EXCEPT ![Depth] = [file |-> Here.file, rest |-> r, line |-> l, expects |-> e, name |-> n]]
Read(l, e, n) == Turn(Tail(Here.rest), l, e, n)
Meets(e) == frames # << >> /\ Here.rest # << >> /\ Here.expects = e
IsName == Word \notin {";", "NL"}
\* The files that copy the one being read.
Around == {frames[i].file : i \in 1 .. Depth - 1}
Taken(c) == Depth <= MAX_INCLUDE_DEPTH /\ c \in DOMAIN disk.content /\ c \notin Around

CInit == disk \in Disks /\ frames = << >> /\ tokens = << >>

Begin(d) ==
    /\ frames = << >>
    /\ frames' = << Frame(d.file, d.text, 1) >>
    /\ tokens' = << >>

NextLine ==
    /\ \E e \in {"INITIAL", "DEFINE_NAME", "COPY_STATE", "COPY_SEMI"} : Meets(e)
    /\ Word = "NL"
    /\ frames' = Read(Here.line + 1, Here.expects, Here.name)
    /\ UNCHANGED tokens

\* A document that begins with another token is given up.
Give(kind, e) ==
    /\ tokens' = Append(tokens, [kind |-> kind, word |-> Word, file |-> Here.file, line |-> Here.line])
    /\ frames' = IF tokens = << >> /\ kind # "PROGRAM" THEN << >> ELSE Read(Here.line, e, NULL)

GiveWord ==
    /\ Meets("INITIAL") /\ Word \notin {"NL", "COPY"}
    /\ Give(IF Word \in {"PROGRAM", "DEFINE", ";"} THEN Word ELSE "IDENT",
            IF Word = "DEFINE" THEN "DEFINE_NAME" ELSE "INITIAL")

GiveName == Meets("DEFINE_NAME") /\ IsName /\ Give("IDENT", "INITIAL")

MeetCopy ==
    /\ Meets("INITIAL") /\ Word = "COPY"
    /\ frames' = Read(Here.line, "COPY_STATE", NULL)
    /\ UNCHANGED tokens

MeetFile ==
    /\ Meets("COPY_STATE") /\ IsName
    /\ frames' = Read(Here.line, "COPY_SEMI", Word)
    /\ UNCHANGED tokens

\* What does not follow a COPY or DEFINE is read again as it is.
Revert ==
    /\ \/ Meets("DEFINE_NAME") /\ Word = ";"
       \/ Meets("COPY_STATE") /\ Word = ";"
       \/ Meets("COPY_SEMI") /\ IsName
    /\ frames' = Turn(Here.rest, Here.line, "INITIAL", NULL)
    /\ UNCHANGED tokens

\* The text goes on behind the semicolon, at the line it stands on, when the
\* file has been read; the lines of the file are counted on from there too.
Enter ==
    /\ Meets("COPY_SEMI") /\ Word = ";"
    /\ LET back == Read(Here.line, "INITIAL", NULL)
       IN  frames' = IF Taken(Here.name)
                     THEN Append(back, Frame(Here.name, disk.content[Here.name], Here.line))
                     ELSE back
    /\ UNCHANGED tokens

\* The end of a file, or of the document.
Leave ==
    /\ frames # << >> /\ Here.rest = << >>
    /\ frames' = SubSeq(frames, 1, Depth - 1)
    /\ UNCHANGED tokens

CNext ==
    /\ UNCHANGED disk
    /\ \/ \E d \in disk.documents : Begin(d)
       \/ NextLine \/ GiveWord \/ GiveName \/ MeetCopy \/ MeetFile \/ Revert \/ Enter \/ Leave

CSpec == CInit /\ [][CNext]_<< disk, frames, tokens >>
=============================================================================
