----------------------------- MODULE AtomicFile -----------------------------
(***************************************************************************)
(* atomic_write_json, temp_path and read_json of crates/qm-common/src/     *)
(* storage.rs, called by several threads or processes on one path.  The    *)
(* value is written to a temporary file, in several steps, whose name      *)
(* depends on the path only, and that file is then renamed.  A write may   *)
(* fail at any step, and its process may be killed.                        *)
(*                                                                         *)
(* The file system is modelled by its names and its files: who has a file  *)
(* open keeps writing to it, or reading from it, whatever its name becomes.*)
(***************************************************************************)
EXTENDS Integers, Sequences

CONSTANTS
    Writer, Reader,
    Value,     \* what may be written
    Pieces,    \* how many write calls it takes to write a value
    MaxFiles,  \* bound on the files ever created
    Concurrent \* may two writers be at work at a time?

VARIABLES
    path, tmp, \* the file that has the name, or None
    content,   \* content[f]: what is in file f, piece by piece
    files,     \* the files 1 .. files have been created
    call,      \* call[w]: the write that w is at
    read       \* read[r]: the read that r is at

vars == <<path, tmp, content, files, call, read>>

None == 0
File == 1 .. MaxFiles
Hole == <<"hole">>
Piece == {<<"piece", v, i>> : v \in Value, i \in 1 .. Pieces}
Whole(v) == [i \in 1 .. Pieces |-> <<"piece", v, i>>]
Wholes == {Whole(v) : v \in Value}

ASSUME ParameterAssumption ==
    /\ Pieces \in Nat \ {0} /\ MaxFiles \in Nat /\ Concurrent \in BOOLEAN

NoCall == [at |-> "idle"]
Opening(v) == [at |-> "open", value |-> v]
Writing(v, f, n) == [at |-> "write", value |-> v, file |-> f, written |-> n]
Renaming(v) == [at |-> "rename", value |-> v]

Idle(w) == call[w] = NoCall
MayStart == Concurrent \/ \A w \in Writer : Idle(w)

NoRead == [at |-> "idle"]
Reading(f, got) == [at |-> "read", file |-> f, got |-> got]
Finished(got) == [at |-> "done", got |-> got]

Init ==
    /\ path = None /\ tmp = None
    /\ content = [f \in File |-> <<>>]
    /\ files = 0
    /\ call = [w \in Writer |-> NoCall]
    /\ read = [r \in Reader |-> NoRead]

\* atomic_write_json is called; a value that cannot be serialised fails here.
Start(w, v) ==
    /\ Idle(w) /\ MayStart
    /\ call' = [call EXCEPT ![w] = Opening(v)]
    /\ UNCHANGED <<path, tmp, content, files, read>>

\* Mutated form of TempFile: the temporary name is the file's own name.
InPlaceFile ==
    IF path # None THEN path ELSE IF tmp = None THEN files + 1 ELSE tmp

\* The file that temp_path names, a new one if there is none.
TempFile == IF tmp = None THEN files + 1 ELSE tmp

\* std::fs::write creates that file, or empties it.
OpenTmp(w) ==
    LET f == TempFile IN
    /\ call[w].at = "open"
    /\ f \in File
    /\ tmp' = f
    /\ files' = IF f > files THEN f ELSE files
    /\ content' = [content EXCEPT ![f] = <<>>]
    /\ call' = [call EXCEPT ![w] = Writing(call[w].value, f, 0)]
    /\ UNCHANGED <<path, read>>

\* Write a piece at position n, over a hole if the file is shorter by now.
Put(contents, n, piece) ==
    [i \in 1 .. (IF Len(contents) < n THEN n ELSE Len(contents)) |->
        IF i = n THEN piece ELSE IF i <= Len(contents) THEN contents[i] ELSE Hole]

\* ... and writes the data.
WritePiece(w) ==
    LET c == call[w] IN
    /\ c.at = "write" /\ c.written < Pieces
    /\ content' = [content EXCEPT ![c.file] =
                      Put(content[c.file], c.written + 1, <<"piece", c.value, c.written + 1>>)]
    /\ call' = [call EXCEPT ![w] = Writing(c.value, c.file, c.written + 1)]
    /\ UNCHANGED <<path, tmp, files, read>>

\* Mutated form of Written: the last piece is not waited for.
AlmostWritten(c) == c.at = "write" /\ c.written >= Pieces - 1

Written(c) == c.at = "write" /\ c.written = Pieces

CloseTmp(w) ==
    /\ Written(call[w])
    /\ call' = [call EXCEPT ![w] = Renaming(call[w].value)]
    /\ UNCHANGED <<path, tmp, content, files, read>>

\* std::fs::rename replaces what has the name; the call returns Ok.
Rename(w) ==
    /\ call[w].at = "rename" /\ tmp # None
    /\ path' = tmp /\ tmp' = None
    /\ call' = [call EXCEPT ![w] = NoCall]
    /\ UNCHANGED <<content, files, read>>

\* A failed rename, for one because the file is gone: the temporary file is
\* removed, whosever it is, and the call returns an error.
RenameFails(w) ==
    /\ call[w].at = "rename"
    /\ tmp' = None
    /\ call' = [call EXCEPT ![w] = NoCall]
    /\ UNCHANGED <<path, content, files, read>>

\* Creating or writing the file fails: it stays as it is.  The same is seen
\* when the process is killed at any time.
FailOrDie(w) ==
    /\ ~Idle(w)
    /\ call' = [call EXCEPT ![w] = NoCall]
    /\ UNCHANGED <<path, tmp, content, files, read>>

\* read_json: open, read to the end piece by piece.
OpenPath(r) ==
    /\ read[r] = NoRead /\ path # None
    /\ read' = [read EXCEPT ![r] = Reading(path, <<>>)]
    /\ UNCHANGED <<path, tmp, content, files, call>>

ReadPiece(r) ==
    LET got == read[r].got
        all == content[read[r].file]
    IN
    /\ read[r].at = "read"
    /\ read' = [read EXCEPT ![r] =
          IF Len(got) < Len(all) THEN Reading(read[r].file, Append(got, all[Len(got) + 1]))
                                 ELSE Finished(got)]
    /\ UNCHANGED <<path, tmp, content, files, call>>

ReadAgain(r) ==
    /\ read[r].at = "done"
    /\ read' = [read EXCEPT ![r] = NoRead]
    /\ UNCHANGED <<path, tmp, content, files, call>>

Next ==
    \/ \E w \in Writer :
          \/ \E v \in Value : Start(w, v)
          \/ OpenTmp(w) \/ WritePiece(w) \/ CloseTmp(w)
          \/ Rename(w) \/ RenameFails(w) \/ FailOrDie(w)
    \/ \E r \in Reader : OpenPath(r) \/ ReadPiece(r) \/ ReadAgain(r)

Spec == Init /\ [][Next]_vars

------------------------------------------------------------------------------
(* Properties. *)

Call ==
    {NoCall} \cup {Opening(v) : v \in Value} \cup {Renaming(v) : v \in Value}
      \cup {Writing(v, f, n) : v \in Value, f \in File, n \in 0 .. Pieces}

ReadOK(r) ==
    \/ r = NoRead
    \/ /\ r.got \in Seq(Piece \cup {Hole})
       /\ r = Finished(r.got) \/ (r.file \in File /\ r = Reading(r.file, r.got))

\* The two names stand for different files, both of which exist.
TypeOK ==
    /\ path \in 0 .. files /\ tmp \in 0 .. files
    /\ path = tmp => path = None
    /\ content \in [File -> Seq(Piece \cup {Hole})]
    /\ files \in 0 .. MaxFiles
    /\ call \in [Writer -> Call]
    /\ DOMAIN read = Reader /\ \A r \in Reader : ReadOK(read[r])

\* Who reads the file gets one value, whole, whatever is written and fails, is
\* killed or renamed meanwhile.
ReadsWhole == \A r \in Reader : read[r].at = "done" => read[r].got \in Wholes

\* The file is a register: its value changes only as a whole, from one to
\* another, when a write completes.
Stored ==
    IF path = None THEN {}
    ELSE {IF content[path] \in Wholes THEN content[path][1][2] ELSE <<"broken">>}

TheFile == INSTANCE Register WITH stored <- Stored

FileIsRegister == TheFile!Spec
==============================================================================
