---------------------------- MODULE Storage_proofs ----------------------------
(***************************************************************************)
(* Proofs about AtomicFile for one write at a time (any number of writers, *)
(* readers and values, values of any length, failures or kills at any      *)
(* step), and about EventLog, for any number of processes and records that *)
(* are written in any number of parts.                                     *)
(***************************************************************************)
EXTENDS AtomicFile, EventLog, FiniteSetTheorems, WellFoundedInduction, TLAPS

\* One call is at work at most.
OneAtWork == \A w, x \in Writer : ~Idle(w) /\ ~Idle(x) => w = x

\* The file holds a whole value.
PathWhole == path # None => content[path] \in Wholes

\* What has been read of an open file is the beginning of a whole value, which
\* nobody is writing any more; what has been read to the end is whole.
ReadsSafe ==
    \A r \in Reader :
        /\ read[r].at = "read" =>
              /\ read[r].file \in 1 .. files /\ read[r].file # tmp
              /\ content[read[r].file] \in Wholes
              /\ read[r].got \in Seq(Piece)
              /\ Len(read[r].got) <= Pieces
              /\ \A i \in 1 .. Len(read[r].got) :
                    read[r].got[i] = content[read[r].file][i]
        /\ read[r].at = "done" => read[r].got \in Wholes

\* The writer writes to the temporary file, what is there is the beginning of
\* its value, and before the rename it is all of it.
WritesSafe ==
    \A w \in Writer :
        /\ call[w].at = "write" =>
              /\ call[w].file = tmp /\ tmp # None
              /\ Len(content[tmp]) = call[w].written
              /\ \A i \in 1 .. call[w].written :
                    content[tmp][i] = <<"piece", call[w].value, i>>
        /\ call[w].at = "rename" => tmp # None /\ content[tmp] = Whole(call[w].value)

IInv == TypeOK /\ OneAtWork /\ PathWhole /\ ReadsSafe /\ WritesSafe

------------------------------------------------------------------------------
\* What the cases of a call are, as facts about its fields.
LEMMA CallCases ==
    ASSUME NEW c \in Call
    PROVE  /\ c.at \in {"idle", "open", "write", "rename"}
           /\ c = NoCall <=> c.at = "idle"
           /\ c.at = "open" => c.value \in Value
           /\ c.at = "rename" => c.value \in Value
           /\ c.at = "write" => /\ c.value \in Value /\ c.file \in File
                                /\ c.written \in 0 .. Pieces
  <1>1. CASE c = NoCall  BY <1>1 DEF NoCall
  <1>2. CASE \E v \in Value : c = Opening(v)  BY <1>2 DEF Opening, NoCall
  <1>3. CASE \E v \in Value : c = Renaming(v)  BY <1>3 DEF Renaming, NoCall
  <1>4. CASE \E v \in Value, f \in File, n \in 0 .. Pieces : c = Writing(v, f, n)
    BY <1>4 DEF Writing, NoCall
  <1> QED BY <1>1, <1>2, <1>3, <1>4 DEF Call

\* Fields of the calls that the actions build.
LEMMA CallFields ==
    ASSUME NEW v \in Value, NEW f \in File, NEW n \in 0 .. Pieces
    PROVE  /\ NoCall \in Call /\ NoCall.at = "idle"
           /\ Opening(v) \in Call /\ Opening(v).at = "open"
           /\ Writing(v, f, n) \in Call /\ Writing(v, f, n).at = "write"
           /\ Writing(v, f, n).value = v /\ Writing(v, f, n).file = f
           /\ Writing(v, f, n).written = n
           /\ Renaming(v) \in Call /\ Renaming(v).at = "rename"
           /\ Renaming(v).value = v
  BY DEF Call, NoCall, Opening, Writing, Renaming

\* A whole value is a sequence of its pieces.
LEMMA WholeIsSeq ==
    ASSUME NEW v \in Value
    PROVE  /\ Whole(v) \in Seq(Piece) /\ Len(Whole(v)) = Pieces
           /\ \A i \in 1 .. Pieces : Whole(v)[i] = <<"piece", v, i>>
  BY ParameterAssumption DEF Whole, Piece

\* A sequence of all the pieces of a value is the whole value.
LEMMA AllPieces ==
    ASSUME NEW v \in Value, NEW s \in Seq(Piece \cup {Hole}), Len(s) = Pieces,
           \A i \in 1 .. Pieces : s[i] = <<"piece", v, i>>
    PROVE  s = Whole(v)
  <1>1. DOMAIN s = 1 .. Pieces  BY ParameterAssumption
  <1>2. s = [i \in 1 .. Pieces |-> s[i]]  BY <1>1
  <1> QED BY <1>2 DEF Whole

\* Writing a piece at the end of what has been written.
LEMMA PutNext ==
    ASSUME NEW s \in Seq(Piece \cup {Hole}), NEW n \in Nat, Len(s) = n,
           NEW p \in Piece
    PROVE  /\ Put(s, n + 1, p) \in Seq(Piece \cup {Hole})
           /\ Len(Put(s, n + 1, p)) = n + 1
           /\ \A i \in 1 .. n : Put(s, n + 1, p)[i] = s[i]
           /\ Put(s, n + 1, p)[n + 1] = p
  BY DEF Put

\* No file, no call and no read at first.
LEMMA InitIInv == Init => IInv
  <1> SUFFICES ASSUME Init PROVE IInv  OBVIOUS
  <1>1. NoCall \in Call  BY DEF Call
  <1>2. TypeOK
    BY <1>1, ParameterAssumption DEF Init, TypeOK, None, File, ReadOK
  <1> QED
    BY <1>2 DEF Init, IInv, OneAtWork, PathWhole, ReadsSafe, WritesSafe, Idle,
                NoCall, NoRead

------------------------------------------------------------------------------
\* Steps of a call that touch no file.
LEMMA CallStep ==
    ASSUME IInv, NEW w \in Writer, NEW c \in Call, call' = [call EXCEPT ![w] = c],
           UNCHANGED <<path, tmp, content, files, read>>,
           \/ c = NoCall
           \/ c.at = "open" /\ \A x \in Writer : Idle(x)
           \/ c.at = "rename" /\ call[w].at = "write" /\ call[w].written = Pieces
                /\ c.value = call[w].value
    PROVE  IInv'
  <1>1. TypeOK'
    BY DEF IInv, TypeOK, ReadOK
  <1>2. /\ call'[w] = c /\ \A x \in Writer \ {w} : call'[x] = call[x]
        /\ \A x \in Writer : call[x] \in Call
    BY DEF IInv, TypeOK
  <1>3. OneAtWork'
    <2>1. c.at = "rename" => ~Idle(w)
      BY <1>2, CallCases DEF Idle
    <2> QED
      BY <1>2, <2>1 DEF IInv, OneAtWork, Idle
  <1>4. PathWhole' /\ ReadsSafe'
    BY DEF IInv, PathWhole, ReadsSafe
  <1>5. ASSUME c.at = "rename", call[w].at = "write", call[w].written = Pieces,
               c.value = call[w].value
        PROVE  tmp # None /\ content[tmp] = Whole(c.value)
    <2>1. /\ call[w].value \in Value /\ call[w].file \in File
          /\ tmp = call[w].file /\ tmp # None
      BY <1>2, <1>5, CallCases DEF IInv, WritesSafe
    <2>2. content[tmp] \in Seq(Piece \cup {Hole})
      BY <2>1 DEF IInv, TypeOK
    <2>3. /\ Len(content[tmp]) = Pieces
          /\ \A i \in 1 .. Pieces : content[tmp][i] = <<"piece", call[w].value, i>>
      BY <1>5 DEF IInv, WritesSafe
    <2> QED
      BY <1>5, <2>1, <2>2, <2>3, AllPieces
  <1>6. WritesSafe'
    <2>1. c = NoCall => c.at = "idle"
      BY CallCases
    <2>2. c.at = "rename" => tmp # None /\ content[tmp] = Whole(c.value)
      BY <1>5, <2>1
    <2> QED
      BY <1>2, <2>1, <2>2 DEF IInv, WritesSafe
  <1> QED
    BY <1>1, <1>3, <1>4, <1>6 DEF IInv

\* An opened temporary file is empty, and nobody reads it.
LEMMA OpenStep ==
    ASSUME IInv, NEW w \in Writer, OpenTmp(w)
    PROVE  IInv'
  <1> DEFINE f == TempFile
             v == call[w].value
             c == Writing(v, f, 0)
  <1>1. /\ f \in File /\ tmp' = f /\ tmp' # None
        /\ files' \in files .. MaxFiles /\ f \in 1 .. files'
        /\ f # path
    <2>1. f \in File /\ tmp' = f
      BY DEF OpenTmp
    <2>2. f # path /\ f \in 1 .. (files + 1)
      BY DEF IInv, TypeOK, TempFile, None
    <2> QED
      BY <2>1, <2>2, ParameterAssumption DEF OpenTmp, IInv, TypeOK, File, None
  <1>2. v \in Value /\ c \in Call /\ c.at = "write" /\ c.file = f /\ c.written = 0
        /\ c.value = v
    <2>1. v \in Value
      BY CallCases DEF OpenTmp, IInv, TypeOK
    <2>2. 0 \in 0 .. Pieces
      BY ParameterAssumption
    <2> QED
      BY <2>1, <2>2, <1>1, CallFields
  <1>3. /\ call'[w] = c /\ \A x \in Writer \ {w} : call'[x] = call[x]
        /\ \A x \in Writer : call[x] \in Call
        /\ call' \in [Writer -> Call]
    BY <1>2 DEF IInv, TypeOK, OpenTmp
  <1>4. /\ content'[f] = <<>>
        /\ \A g \in File \ {f} : content'[g] = content[g]
        /\ content' \in [File -> Seq(Piece \cup {Hole})]
    <2>1. content' = [content EXCEPT ![f] = <<>>]
      BY DEF OpenTmp
    <2> QED
      BY <1>1, <2>1 DEF IInv, TypeOK
  <1>5. \A x \in Writer \ {w} : Idle(x) /\ call'[x].at = "idle"
    <2>1. ~Idle(w)
      BY CallCases DEF OpenTmp, Idle, IInv, TypeOK
    <2> QED
      BY <2>1, <1>3, CallCases DEF IInv, OneAtWork, Idle
  <1>6. path' = path /\ read' = read
    BY DEF OpenTmp
  <1> HIDE DEF f, v, c
  <1>7. TypeOK'
    BY <1>1, <1>3, <1>4, <1>6 DEF IInv, TypeOK, ReadOK
  <1>8. OneAtWork'
    BY <1>3, <1>5 DEF OneAtWork, Idle
  <1>9. PathWhole'
    <2>1. path # None => path \in File \ {f}
      BY <1>1, ParameterAssumption DEF IInv, TypeOK, File, None
    <2> QED
      BY <2>1, <1>4, <1>6 DEF IInv, PathWhole
  <1>10. ReadsSafe'
    <2>1. \A g \in 1 .. files : g # tmp => g \in File \ {f}
      BY ParameterAssumption DEF IInv, TypeOK, TempFile, f, File, None
    <2>2. ASSUME NEW r \in Reader, read[r].at = "read"
          PROVE  /\ read[r].file \in 1 .. files' /\ read[r].file # tmp'
                 /\ content'[read[r].file] = content[read[r].file]
      BY <2>1, <2>2, <1>1, <1>4, ParameterAssumption DEF IInv, TypeOK, ReadsSafe
    <2> QED
      BY <2>2, <1>6 DEF IInv, ReadsSafe
  <1>11. WritesSafe'
    BY <1>1, <1>2, <1>3, <1>4, <1>5 DEF WritesSafe
  <1> QED
    BY <1>7, <1>8, <1>9, <1>10, <1>11 DEF IInv

\* The writer adds the next piece, to a file that nobody reads.
LEMMA PieceStep ==
    ASSUME IInv, NEW w \in Writer, WritePiece(w)
    PROVE  IInv'
  <1> DEFINE f == call[w].file
             v == call[w].value
             n == call[w].written
             p == <<"piece", v, n + 1>>
             c == Writing(v, f, n + 1)
             t == Put(content[f], n + 1, p)
  <1>1. /\ call \in [Writer -> Call] /\ call[w].at = "write" /\ n < Pieces
        /\ call' = [call EXCEPT ![w] = c] /\ content' = [content EXCEPT ![f] = t]
        /\ UNCHANGED <<path, tmp, files, read>>
    BY DEF WritePiece, IInv, TypeOK
  <1>2. v \in Value /\ f \in File /\ n \in Nat /\ n + 1 \in 1 .. Pieces
    BY <1>1, CallCases, ParameterAssumption
  <1>3. /\ f = tmp /\ tmp # None /\ content[f] \in Seq(Piece \cup {Hole})
        /\ Len(content[f]) = n
        /\ \A i \in 1 .. n : content[f][i] = <<"piece", v, i>>
    BY <1>1, <1>2 DEF IInv, TypeOK, WritesSafe
  <1>4. p \in Piece
    BY <1>2 DEF Piece
  <1> HIDE DEF f, v, n, p
  <1>5. /\ t \in Seq(Piece \cup {Hole}) /\ Len(t) = n + 1
        /\ \A i \in 1 .. n : t[i] = content[f][i]
        /\ t[n + 1] = p
    <2>1. /\ content[f] \in Seq(Piece \cup {Hole}) /\ n \in Nat
          /\ Len(content[f]) = n /\ p \in Piece
      BY <1>2, <1>3, <1>4
    <2> QED
      BY <2>1, PutNext DEF t
  <1>6. \A i \in 1 .. (n + 1) : t[i] = <<"piece", v, i>>
    <2>1. \A i \in 1 .. (n + 1) : i \in 1 .. n \/ i = n + 1
      BY <1>2
    <2> QED
      BY <2>1, <1>3, <1>5 DEF p
  <1>7. /\ c \in Call /\ c.at = "write" /\ c.file = f /\ c.value = v
        /\ c.written = n + 1
    <2>1. n + 1 \in 0 .. Pieces
      BY <1>2
    <2> QED
      BY <2>1, <1>2, CallFields
  <1> HIDE DEF c, t
  <1>8. /\ call'[w] = c /\ \A x \in Writer \ {w} : call'[x] = call[x]
        /\ \A x \in Writer : call[x] \in Call
        /\ call' \in [Writer -> Call]
    BY <1>1, <1>7
  <1>9. /\ content'[f] = t
        /\ \A g \in File \ {f} : content'[g] = content[g]
        /\ content' \in [File -> Seq(Piece \cup {Hole})]
    BY <1>1, <1>2, <1>5 DEF IInv, TypeOK
  <1>10. \A x \in Writer \ {w} : Idle(x) /\ call'[x].at = "idle"
    <2>1. ~Idle(w)
      BY <1>1, CallCases DEF Idle
    <2> QED
      BY <2>1, <1>8, CallCases DEF IInv, OneAtWork, Idle
  <1>11. TypeOK'
    BY <1>1, <1>8, <1>9 DEF IInv, TypeOK, ReadOK
  <1>12. OneAtWork'
    BY <1>8, <1>10 DEF OneAtWork, Idle
  <1>13. PathWhole'
    <2>1. path # None => path \in File \ {f}
      BY <1>3, ParameterAssumption DEF IInv, TypeOK, File, None
    <2> QED
      BY <2>1, <1>1, <1>9 DEF IInv, PathWhole
  <1>14. ReadsSafe'
    <2>1. \A g \in 1 .. files : g # tmp => g \in File \ {f}
      BY <1>3, ParameterAssumption DEF IInv, TypeOK, File
    <2>2. ASSUME NEW r \in Reader, read[r].at = "read"
          PROVE  content'[read[r].file] = content[read[r].file]
      BY <2>1, <2>2, <1>9 DEF IInv, ReadsSafe
    <2> QED
      BY <2>2, <1>1 DEF IInv, ReadsSafe
  <1>15. WritesSafe'
    BY <1>1, <1>3, <1>5, <1>6, <1>7, <1>8, <1>9, <1>10 DEF WritesSafe
  <1> QED
    BY <1>11, <1>12, <1>13, <1>14, <1>15 DEF IInv

\* The file takes the place of the old one, or is removed.
LEMMA EndStep ==
    ASSUME IInv, NEW w \in Writer, Rename(w) \/ RenameFails(w)
    PROVE  IInv'
  <1>1. /\ call[w].at = "rename" /\ call' = [call EXCEPT ![w] = NoCall]
        /\ tmp' = None /\ path' \in {path, tmp}
        /\ UNCHANGED <<content, files, read>>
    BY DEF Rename, RenameFails
  <1>2. /\ call'[w] = NoCall /\ NoCall.at = "idle" /\ NoCall \in Call
        /\ \A x \in Writer \ {w} : call'[x] = call[x]
        /\ \A x \in Writer : call[x] \in Call
        /\ call' \in [Writer -> Call]
    BY <1>1 DEF IInv, TypeOK, NoCall, Call
  <1>3. \A x \in Writer : call'[x].at = "idle"
    <2>1. ~Idle(w)
      BY <1>1, CallCases, <1>2 DEF Idle
    <2> QED
      BY <2>1, <1>2, CallCases DEF IInv, OneAtWork, Idle
  <1>4. call[w].value \in Value /\ tmp # None /\ content[tmp] = Whole(call[w].value)
    BY <1>1, <1>2, CallCases DEF IInv, WritesSafe
  <1>5. TypeOK'
    BY <1>1, <1>2, ParameterAssumption DEF IInv, TypeOK, ReadOK, None
  <1>6. OneAtWork'
    BY <1>2, <1>3, CallCases DEF OneAtWork, Idle, IInv
  <1>7. PathWhole'
    BY <1>1, <1>4 DEF IInv, PathWhole, Wholes
  <1>8. ReadsSafe'
    BY <1>1, ParameterAssumption DEF IInv, ReadsSafe, TypeOK, None
  <1>9. WritesSafe'
    BY <1>3 DEF WritesSafe
  <1> QED
    BY <1>5, <1>6, <1>7, <1>8, <1>9 DEF IInv

\* A step of a read, to one that is safe.
LEMMA ReadTo ==
    ASSUME IInv, NEW r \in Reader, NEW n, read' = [read EXCEPT ![r] = n],
           UNCHANGED <<path, tmp, content, files, call>>,
           ReadOK(n),
           n.at = "read" =>
              /\ n.file \in 1 .. files /\ n.file # tmp
              /\ content[n.file] \in Wholes
              /\ n.got \in Seq(Piece) /\ Len(n.got) <= Pieces
              /\ \A i \in 1 .. Len(n.got) : n.got[i] = content[n.file][i],
           n.at = "done" => n.got \in Wholes
    PROVE  IInv'
  <1>1. /\ DOMAIN read' = Reader /\ read'[r] = n
        /\ \A q \in Reader \ {r} : read'[q] = read[q]
    BY DEF IInv, TypeOK
  <1>2. OneAtWork' /\ PathWhole' /\ WritesSafe'
    BY DEF IInv, OneAtWork, PathWhole, WritesSafe, Idle
  <1>3. \A q \in Reader : ReadOK(read'[q])
    BY <1>1 DEF IInv, TypeOK
  <1>4. TypeOK'
    BY <1>1, <1>3 DEF IInv, TypeOK, ReadOK
  <1>5. ReadsSafe'
    BY <1>1 DEF IInv, ReadsSafe
  <1> QED
    BY <1>2, <1>4, <1>5 DEF IInv

\* A reader opens the file, reads the next piece of it, or is done.
LEMMA ReadStep ==
    ASSUME IInv, NEW r \in Reader, OpenPath(r) \/ ReadPiece(r) \/ ReadAgain(r)
    PROVE  IInv'
  <1>1. UNCHANGED <<path, tmp, content, files, call>>
    BY DEF OpenPath, ReadPiece, ReadAgain
  <1>2. CASE OpenPath(r)
    <2> DEFINE n == Reading(path, <<>>)
    <2>1. read' = [read EXCEPT ![r] = n] /\ path # None
      BY <1>2 DEF OpenPath
    <2>2. n.at = "read" /\ n.file = path /\ n.got = <<>> /\ n = Reading(n.file, n.got)
      BY DEF Reading
    <2>3. path \in 1 .. files /\ path \in File /\ path # tmp
      BY <2>1, ParameterAssumption DEF IInv, TypeOK, None, File
    <2>4. content[path] \in Wholes
      BY <2>1 DEF IInv, PathWhole
    <2> HIDE DEF n
    <2>5. ReadOK(n)
      BY <2>2, <2>3 DEF ReadOK
    <2>6. Len(n.got) <= Pieces /\ n.got \in Seq(Piece) /\ Len(n.got) = 0
      BY <2>2, ParameterAssumption
    <2>7. \A i \in 1 .. Len(n.got) : n.got[i] = content[n.file][i]
      BY <2>6
    <2>8. n.at # "done" /\ n.file \in 1 .. files /\ n.file # tmp
          /\ content[n.file] \in Wholes
      BY <2>2, <2>3, <2>4
    <2> QED
      BY <1>1, <2>1, <2>5, <2>6, <2>7, <2>8, ReadTo
  <1>3. CASE ReadPiece(r)
    <2> DEFINE got == read[r].got
               f == read[r].file
    <2>1. read[r].at = "read" /\ ReadOK(read[r])
      BY <1>3 DEF ReadPiece, IInv, TypeOK
    <2>2. /\ f \in 1 .. files /\ f \in File /\ f # tmp
          /\ got \in Seq(Piece) /\ Len(got) <= Pieces
          /\ \A i \in 1 .. Len(got) : got[i] = content[f][i]
      <3>1. f \in 1 .. files /\ f # tmp
        BY <2>1 DEF IInv, ReadsSafe
      <3>2. got \in Seq(Piece) /\ Len(got) <= Pieces
            /\ \A i \in 1 .. Len(got) : got[i] = content[f][i]
        BY <2>1 DEF IInv, ReadsSafe
      <3>3. f \in File
        BY <3>1, ParameterAssumption DEF IInv, TypeOK, File
      <3> QED
        BY <3>1, <3>2, <3>3
    <2>3. PICK v \in Value : content[f] = Whole(v)
      BY <2>1 DEF IInv, ReadsSafe, Wholes
    <2>4. /\ content[f] \in Seq(Piece) /\ Len(content[f]) = Pieces
          /\ \A i \in 1 .. Pieces : content[f][i] = <<"piece", v, i>>
      BY <2>3, WholeIsSeq
    <2>5. read' = [read EXCEPT ![r] =
             IF Len(got) < Len(content[f])
             THEN Reading(f, Append(got, content[f][Len(got) + 1])) ELSE Finished(got)]
      BY <1>3 DEF ReadPiece
    <2> HIDE DEF got, f
    <2>6. CASE Len(got) < Pieces
      <3> DEFINE more == Append(got, content[f][Len(got) + 1])
                 n == Reading(f, more)
      <3>1. read' = [read EXCEPT ![r] = n]
        BY <2>4, <2>5, <2>6
      <3>2. content[f][Len(got) + 1] \in Piece
        BY <2>2, <2>4, <2>6
      <3>3. /\ more \in Seq(Piece) /\ Len(more) <= Pieces
            /\ \A i \in 1 .. Len(more) : more[i] = content[f][i]
        BY <2>2, <2>6, <3>2, ParameterAssumption
      <3> HIDE DEF more
      <3>4. n.at = "read" /\ n.file = f /\ n.got = more /\ n = Reading(n.file, n.got)
        BY DEF Reading
      <3> HIDE DEF n
      <3>5. ReadOK(n)
        <4>1. more \in Seq(Piece \cup {Hole})
          BY <3>3
        <4> QED
          BY <2>2, <3>4, <4>1 DEF ReadOK
      <3>6. content[f] \in Wholes
        BY <2>3 DEF Wholes
      <3> QED
        BY <1>1, <2>2, <3>1, <3>3, <3>4, <3>5, <3>6, ReadTo
    <2>7. CASE ~(Len(got) < Pieces)
      <3> DEFINE n == Finished(got)
      <3>1. read' = [read EXCEPT ![r] = n]
        BY <2>4, <2>5, <2>7
      <3>2. Len(got) = Pieces /\ got \in Seq(Piece \cup {Hole})
        BY <2>2, <2>7, ParameterAssumption
      <3>3. got = Whole(v)
        BY <2>2, <2>4, <3>2, AllPieces
      <3>4. n.at = "done" /\ n.got = got /\ n = Finished(n.got)
        BY DEF Finished
      <3> HIDE DEF n
      <3>5. ReadOK(n)
        BY <3>2, <3>4 DEF ReadOK
      <3>6. n.got \in Wholes
        BY <3>3, <3>4 DEF Wholes
      <3> QED
        BY <1>1, <3>1, <3>4, <3>5, <3>6, ReadTo
    <2> QED
      BY <2>6, <2>7
  <1>4. CASE ReadAgain(r)
    <2>1. read' = [read EXCEPT ![r] = NoRead] /\ NoRead.at = "idle" /\ ReadOK(NoRead)
      BY <1>4 DEF ReadAgain, NoRead, ReadOK
    <2> QED
      BY <1>1, <2>1, ReadTo
  <1> QED
    BY <1>2, <1>3, <1>4

\* Every step preserves the invariant.
LEMMA StepIInv ==
    ASSUME ~Concurrent, IInv, [Next]_vars
    PROVE  IInv'
  <1>1. ASSUME NEW w \in Writer, NEW v \in Value, Start(w, v)
        PROVE  IInv'
    <2>1. Opening(v) \in Call /\ Opening(v).at = "open"
      BY DEF Call, Opening
    <2>2. /\ call' = [call EXCEPT ![w] = Opening(v)]
          /\ UNCHANGED <<path, tmp, content, files, read>>
          /\ \A x \in Writer : Idle(x)
      BY <1>1 DEF Start, MayStart
    <2> QED
      BY <2>1, <2>2, CallStep
  <1>2. ASSUME NEW w \in Writer, CloseTmp(w)
        PROVE  IInv'
    <2> DEFINE c == Renaming(call[w].value)
    <2>1. call[w].value \in Value /\ call[w].at = "write" /\ call[w].written = Pieces
      BY <1>2, CallCases DEF CloseTmp, Written, IInv, TypeOK
    <2>2. c \in Call /\ c.at = "rename" /\ c.value = call[w].value
      BY <2>1 DEF Call, Renaming
    <2>3. /\ call' = [call EXCEPT ![w] = c]
          /\ UNCHANGED <<path, tmp, content, files, read>>
      BY <1>2 DEF CloseTmp
    <2> HIDE DEF c
    <2> QED
      BY <2>1, <2>2, <2>3, CallStep
  <1>3. ASSUME NEW w \in Writer, FailOrDie(w)
        PROVE  IInv'
    <2>1. NoCall \in Call
      BY DEF Call
    <2>2. /\ call' = [call EXCEPT ![w] = NoCall]
          /\ UNCHANGED <<path, tmp, content, files, read>>
      BY <1>3 DEF FailOrDie
    <2> QED
      BY <2>1, <2>2, CallStep
  <1>4. CASE UNCHANGED vars
    BY <1>4 DEF vars, IInv, TypeOK, OneAtWork, PathWhole, ReadsSafe, WritesSafe,
                Idle, ReadOK
  <1> QED
    BY <1>1, <1>2, <1>3, <1>4, OpenStep, PieceStep, EndStep, ReadStep DEF Next

\* The invariant holds of one write at a time.
LEMMA SpecIInv == ASSUME ~Concurrent PROVE Spec => []IInv
  <1>1. IInv /\ [Next]_vars => IInv'
    BY StepIInv
  <1> QED
    BY <1>1, InitIInv, PTL DEF Spec

\* The two names never stand for one file, and calls and reads keep their types.
THEOREM TypeCorrect == ASSUME ~Concurrent PROVE Spec => []TypeOK
  <1>1. IInv => TypeOK
    BY DEF IInv
  <1> QED
    BY <1>1, SpecIInv, PTL

\* With one write at a time, a reader of a file that atomic_write_json writes
\* gets one whole value, for values of any length.
THEOREM ReadersGetWholeValues == ASSUME ~Concurrent PROVE Spec => []ReadsWhole
  <1>1. IInv => ReadsWhole
    BY DEF IInv, ReadsSafe, ReadsWhole
  <1> QED
    BY <1>1, SpecIInv, PTL

------------------------------------------------------------------------------
\* What is stored changes as a whole, when the file is renamed.
LEMMA StepRefines ==
    ASSUME IInv, [Next]_vars
    PROVE  TheFile!Next \/ UNCHANGED Stored
  <1>1. ASSUME NEW w \in Writer, OpenTmp(w)
        PROVE  UNCHANGED Stored
    <2>1. path' = path /\ TempFile # path
      BY <1>1 DEF OpenTmp, IInv, TypeOK, TempFile, None
    <2>2. path # None => path \in File
      BY ParameterAssumption DEF IInv, TypeOK, None, File
    <2>3. content' = [content EXCEPT ![TempFile] = <<>>]
      BY <1>1 DEF OpenTmp
    <2>4. path # None => content'[path] = content[path]
      BY <2>1, <2>2, <2>3 DEF IInv, TypeOK
    <2> QED
      BY <2>1, <2>4 DEF Stored
  <1>2. ASSUME NEW w \in Writer, WritePiece(w)
        PROVE  UNCHANGED Stored
    <2> DEFINE f == call[w].file
               t == Put(content[f], call[w].written + 1,
                        <<"piece", call[w].value, call[w].written + 1>>)
    <2>1. path' = path /\ content' = [content EXCEPT ![f] = t]
      BY <1>2 DEF WritePiece
    <2>2. path # None => path \in File
      BY ParameterAssumption DEF IInv, TypeOK, None, File
    <2>3. path # None => path # f
      BY <1>2 DEF WritePiece, IInv, TypeOK, WritesSafe
    <2> HIDE DEF f, t
    <2>4. path # None => content'[path] = content[path]
      BY <2>1, <2>2, <2>3 DEF IInv, TypeOK
    <2> QED
      BY <2>1, <2>4 DEF Stored
  <1>3. ASSUME NEW w \in Writer, Rename(w)
        PROVE  TheFile!Next
    <2> DEFINE v == call[w].value
    <2>1. /\ v \in Value /\ path' = tmp /\ tmp # None /\ content' = content
          /\ content[tmp] = Whole(v)
      BY <1>3, CallCases DEF Rename, IInv, TypeOK, WritesSafe
    <2> HIDE DEF v
    <2>2. 1 \in 1 .. Pieces
      BY ParameterAssumption
    <2>3. Whole(v)[1] = <<"piece", v, 1>>
      BY <2>1, <2>2, WholeIsSeq
    <2>4. content'[path'] \in Wholes /\ content'[path'][1][2] = v
      BY <2>1, <2>3 DEF Wholes
    <2>5. Stored' = {v}
      BY <2>1, <2>4 DEF Stored
    <2> QED
      BY <2>1, <2>5 DEF TheFile!Next, TheFile!Write
  <1>4. ASSUME UNCHANGED <<path, content>>
        PROVE  UNCHANGED Stored
    BY <1>4 DEF Stored
  <1> QED
    BY <1>1, <1>2, <1>3, <1>4
       DEF Next, vars, Start, CloseTmp, RenameFails, FailOrDie, OpenPath, ReadPiece,
           ReadAgain

\* With one write at a time the file implements a register: it holds one whole
\* value after the other, and every other step of a write leaves it alone.
THEOREM FileImplementsRegister == ASSUME ~Concurrent PROVE Spec => FileIsRegister
  <1>1. Init => TheFile!Init
    BY DEF Init, TheFile!Init, Stored
  <1>2. IInv /\ [Next]_vars => [TheFile!Next]_Stored
    BY StepRefines
  <1> QED
    BY <1>1, <1>2, SpecIInv, PTL DEF Spec, FileIsRegister, TheFile!Spec

------------------------------------------------------------------------------
(* What a reader of the log finds, line by line.  The prover does not       *)
(* instantiate the library's induction theorems: induction here is the      *)
(* absence of a least exception.                                            *)

\* A nonempty set of naturals has a least element.
LEMMA LeastOne ==
    ASSUME NEW N \in SUBSET Nat, N # {}
    PROVE  \E n \in N : \A m \in N : n <= m
  <1>1. PICK n \in N : \A m \in N : <<m, n>> \notin OpToRel(<, Nat)
    BY NatLessThanWellFounded, WFMin
  <1>2. ASSUME NEW m \in N PROVE n <= m
    <2>1. ~(m < n)
      BY <1>1 DEF OpToRel
    <2> QED
      BY <2>1
  <1> QED
    BY <1>2

\* What is found in the first n lines, for each n.
UpTo(ls) ==
    LET upTo[n \in 0 .. Len(ls)] ==
          IF n = 0 THEN <<>>
          ELSE IF IsRecord(ls[n]) THEN Append(upTo[n - 1], ls[n][1][1]) ELSE upTo[n - 1]
    IN  upTo

\* g says so for the first m lines.
Finds(g, ls, m) ==
    g = [n \in 0 .. m |->
            IF n = 0 THEN <<>>
            ELSE IF IsRecord(ls[n]) THEN Append(g[n - 1], ls[n][1][1]) ELSE g[n - 1]]

LEMMA UpToSteps ==
    ASSUME NEW ls, Len(ls) \in Nat
    PROVE  /\ UpTo(ls)[0] = <<>>
           /\ \A n \in 1 .. Len(ls) :
                UpTo(ls)[n] = IF IsRecord(ls[n]) THEN Append(UpTo(ls)[n - 1], ls[n][1][1])
                              ELSE UpTo(ls)[n - 1]
           /\ FoundIn(ls) = UpTo(ls)[Len(ls)]
  <1> DEFINE Without == {m \in Nat : ~\E g : Finds(g, ls, m)}
  <1>1. ASSUME NEW k \in Without PROVE FALSE
    <2>1. PICK m \in Without : \A l \in Without : m <= l
      <3>1. Without \in SUBSET Nat /\ Without # {}
        BY <1>1
      <3> HIDE DEF Without
      <3> QED
        BY <3>1, LeastOne
    <2>2. m # 0
      <3>1. Finds([n \in 0 .. 0 |-> <<>>], ls, 0)
        BY DEF Finds
      <3> QED
        BY <3>1
    <2>3. m \in Nat /\ m - 1 \in Nat /\ m - 1 \notin Without
      BY <2>1, <2>2
    <2>4. PICK g : Finds(g, ls, m - 1)
      BY <2>3
    <2> DEFINE h == [n \in 0 .. m |->
                       IF n = 0 THEN <<>>
                       ELSE IF IsRecord(ls[n]) THEN Append(g[n - 1], ls[n][1][1]) ELSE g[n - 1]]
    <2>5. ASSUME NEW n \in 0 .. m - 1 PROVE h[n] = g[n]
      <3>1. g[n] = IF n = 0 THEN <<>>
                   ELSE IF IsRecord(ls[n]) THEN Append(g[n - 1], ls[n][1][1]) ELSE g[n - 1]
        BY <2>4 DEF Finds
      <3>2. n \in 0 .. m
        BY <2>3
      <3> QED
        BY <3>1, <3>2
    <2>6. Finds(h, ls, m)
      <3>1. ASSUME NEW n \in 0 .. m, n # 0 PROVE h[n - 1] = g[n - 1]
        <4>1. n - 1 \in 0 .. m - 1
          BY <2>3, <3>1
        <4> HIDE DEF h
        <4> QED
          BY <2>5, <4>1
      <3>2. h = [n \in 0 .. m |->
                    IF n = 0 THEN <<>>
                    ELSE IF IsRecord(ls[n]) THEN Append(h[n - 1], ls[n][1][1]) ELSE h[n - 1]]
        BY <3>1
      <3> QED
        BY <3>2 DEF Finds
    <2> QED
      BY <2>1, <2>6
  <1>2. \E g : Finds(g, ls, Len(ls))
    BY <1>1
  <1>3. UpTo(ls) = CHOOSE g : Finds(g, ls, Len(ls))
    BY DEF UpTo, Finds
  <1>4. Finds(UpTo(ls), ls, Len(ls))
    BY <1>2, <1>3
  <1>5. \A n \in 0 .. Len(ls) :
          UpTo(ls)[n] = IF n = 0 THEN <<>>
                        ELSE IF IsRecord(ls[n]) THEN Append(UpTo(ls)[n - 1], ls[n][1][1])
                        ELSE UpTo(ls)[n - 1]
    BY <1>4 DEF Finds
  <1>6. FoundIn(ls) = UpTo(ls)[Len(ls)]
    BY DEF FoundIn, UpTo
  <1> QED
    BY <1>5, <1>6

\* One more line adds what it holds, and changes nothing that was found before.
LEMMA FoundWithLine ==
    ASSUME NEW S, NEW ls \in Seq(S), NEW l \in S
    PROVE  FoundIn(Append(ls, l)) =
             IF IsRecord(l) THEN Append(FoundIn(ls), l[1][1]) ELSE FoundIn(ls)
  <1> DEFINE more == Append(ls, l)
  <1>1. /\ Len(ls) \in Nat /\ Len(more) = Len(ls) + 1
        /\ \A n \in 1 .. Len(ls) : more[n] = ls[n]
        /\ more[Len(ls) + 1] = l
    OBVIOUS
  <1> HIDE DEF more
  <1> DEFINE Differ == {n \in Nat : n <= Len(ls) /\ UpTo(more)[n] # UpTo(ls)[n]}
  <1>2. ASSUME NEW k \in Differ PROVE FALSE
    <2>1. PICK n \in Differ : \A m \in Differ : n <= m
      <3>1. Differ \in SUBSET Nat /\ Differ # {}
        BY <1>2
      <3> HIDE DEF Differ
      <3> QED
        BY <3>1, LeastOne
    <2>2. n # 0
      BY <1>1, UpToSteps
    <2>3. n \in 1 .. Len(ls) /\ n \in 1 .. Len(more) /\ n - 1 \in Nat /\ n - 1 \notin Differ
      BY <1>1, <2>1, <2>2
    <2>4. UpTo(more)[n - 1] = UpTo(ls)[n - 1]
      BY <1>1, <2>3
    <2>5. /\ UpTo(more)[n] = IF IsRecord(more[n]) THEN Append(UpTo(more)[n - 1], more[n][1][1])
                             ELSE UpTo(more)[n - 1]
          /\ UpTo(ls)[n] = IF IsRecord(ls[n]) THEN Append(UpTo(ls)[n - 1], ls[n][1][1])
                           ELSE UpTo(ls)[n - 1]
      BY <1>1, <2>3, UpToSteps, SMTT(30)
    <2>6. more[n] = ls[n]
      BY <1>1, <2>3
    <2> QED
      BY <2>1, <2>4, <2>5, <2>6
  <1>3. UpTo(more)[Len(ls)] = UpTo(ls)[Len(ls)]
    BY <1>1, <1>2
  <1>4. UpTo(more)[Len(ls) + 1] =
          IF IsRecord(l) THEN Append(UpTo(more)[Len(ls)], l[1][1]) ELSE UpTo(more)[Len(ls)]
    <2>1. Len(ls) + 1 \in 1 .. Len(more) /\ (Len(ls) + 1) - 1 = Len(ls)
      BY <1>1
    <2> QED
      BY <1>1, <2>1, UpToSteps
  <1>5. FoundIn(more) = UpTo(more)[Len(ls) + 1] /\ FoundIn(ls) = UpTo(ls)[Len(ls)]
    BY <1>1, UpToSteps
  <1> QED
    BY <1>3, <1>4, <1>5 DEF more

\* An empty file holds nothing.
LEMMA NothingFound == FoundIn(<<>>) = <<>>
  BY UpToSteps

------------------------------------------------------------------------------
(* The log: its types, and that what is found was written.                  *)

Records == Process \X (1 .. MaxRecords)
LinePart == Records \X (1 .. Parts)

LogTypes ==
    /\ lines \in Seq(Seq(LinePart)) /\ open \in Seq(LinePart)
    /\ append \in [Process -> [at : Nat, last : 0 .. MaxRecords, parts : 0 .. Parts - 1]]
    /\ \A p \in Process : append[p].at \in 1 .. append[p].last + 1
    /\ written \in [Process -> SUBSET Records]
    /\ cut \in [going : Int, failed : Int]

\* A record that was written to its end comes before the one its process is at.
WrittenInOrder ==
    \A p \in Process : \A r \in written[p] : r[1] = p /\ r[2] < append[p].at

\* What a reader finds was written to its end.
FoundWasWritten ==
    /\ Found \in Seq(Records)
    /\ \A i \in DOMAIN Found : Found[i] \in written[Found[i][1]]

LogInv == LogTypes /\ WrittenInOrder /\ FoundWasWritten

\* Two sequences with the same elements are the same; one after another.
LEMMA SameSeq ==
    ASSUME NEW S, NEW s \in Seq(S), NEW t \in Seq(S),
           Len(s) = Len(t), \A i \in 1 .. Len(s) : s[i] = t[i]
    PROVE  s = t
  OBVIOUS

LEMMA Joined ==
    ASSUME NEW S, NEW s \in Seq(S), NEW t \in Seq(S), t # <<>>
    PROVE  /\ s \o t \in Seq(S) /\ Len(s \o t) = Len(s) + Len(t)
           /\ (s \o t)[Len(s \o t)] = t[Len(t)]
           /\ s \o t # <<>>
  <1>1. Len(t) \in Nat \ {0} /\ Len(s) \in Nat
    OBVIOUS
  <1>2. s \o t \in Seq(S) /\ Len(s \o t) = Len(s) + Len(t)
    OBVIOUS
  <1>3. Len(s) + Len(t) \in 1 .. Len(s) + Len(t) /\ ~(Len(s) + Len(t) <= Len(s))
        /\ Len(s) + Len(t) - Len(s) = Len(t)
    BY <1>1
  <1> QED
    BY <1>1, <1>2, <1>3

\* The line of a record, and a piece of it.
LEMMA LineParts ==
    ASSUME NEW r \in Records, NEW from \in 0 .. Parts - 1, NEW to \in from + 1 .. Parts
    PROVE  LET piece == SubSeq(Line(r), from + 1, to) IN
           /\ Line(r) \in Seq(LinePart) /\ Len(Line(r)) = Parts
           /\ \A i \in 1 .. Parts : Line(r)[i] = <<r, i>>
           /\ piece \in Seq(LinePart) /\ Len(piece) = to - from
           /\ \A i \in 1 .. to - from : piece[i] = <<r, from + i>>
  <1>1. Parts \in Nat \ {0}
    BY LogAssumption
  <1>2. /\ Line(r) \in Seq(LinePart) /\ Len(Line(r)) = Parts
        /\ \A i \in 1 .. Parts : Line(r)[i] = <<r, i>>
    <2>1. Line(r) \in [1 .. Parts -> LinePart]
      BY DEF Line, LinePart
    <2> QED
      BY <1>1, <2>1 DEF Line
  <1> DEFINE whole == Line(r)
  <1> HIDE DEF whole
  <1>3. /\ SubSeq(whole, from + 1, to) \in Seq(LinePart)
        /\ Len(SubSeq(whole, from + 1, to)) = to - from
        /\ \A i \in 1 .. to - from : SubSeq(whole, from + 1, to)[i] = whole[from + i]
    BY <1>1, <1>2 DEF whole
  <1>4. \A i \in 1 .. to - from : whole[from + i] = <<r, from + i>>
    BY <1>1, <1>2 DEF whole
  <1> QED
    BY <1>2, <1>3, <1>4 DEF whole

\* Where a process is.
LEMMA AtRecord ==
    ASSUME LogInv, NEW p \in Process, ~AtRest(p)
    PROVE  /\ Record(p) \in Records /\ Record(p) \notin written[p]
           /\ append[p].at \in Nat /\ append[p].last \in Nat
           /\ append[p].at <= append[p].last /\ append[p].parts \in 0 .. Parts - 1
           /\ append[p].last <= MaxRecords
  <1>1. /\ append[p].at \in Nat /\ append[p].last \in 0 .. MaxRecords
        /\ append[p].parts \in 0 .. Parts - 1
        /\ append[p].at \in 1 .. append[p].last + 1
    BY DEF LogInv, LogTypes
  <1>2. append[p].at <= append[p].last
    BY <1>1, LogAssumption DEF AtRest
  <1>3. \A r \in written[p] : r[2] < append[p].at
    BY DEF LogInv, WrittenInOrder
  <1>4. Record(p) \in Records
    BY <1>1, <1>2, LogAssumption DEF Record, Records
  <1>5. Record(p) \notin written[p]
    BY <1>1, <1>3 DEF Record
  <1> QED
    BY <1>1, <1>2, <1>4, <1>5, LogAssumption

\* What a write does: the line gets longer, or it ends, and is then a record
\* only if it is the one that was written, which it is if it was written at once
\* on a line of its own.
WritesPart(p) ==
    \E to \in append[p].parts + 1 .. Parts - 1 :
        /\ lines' = lines /\ open' \in Seq(LinePart) /\ written' = written
        /\ append' = [append EXCEPT ![p].parts = to]
        /\ cut' = [cut EXCEPT !.going = @ + 1]

EndsLine(p) ==
    \E l \in Seq(LinePart) :
        /\ lines' = Append(lines, l) /\ open' = <<>>
        /\ IsRecord(l) => l[1][1] = Record(p)
        /\ open = <<>> /\ append[p].parts = 0 => IsRecord(l)
        /\ append' = [append EXCEPT ![p].at = @ + 1, ![p].parts = 0]
        /\ written' = [written EXCEPT ![p] = @ \cup {Record(p)}]
        /\ cut' = cut

LEMMA WriteCases ==
    ASSUME LogInv, NEW p \in Process, Write(p)
    PROVE  WritesPart(p) \/ EndsLine(p)
  <1> DEFINE r == Record(p)
             from == append[p].parts
  <1>1. r \in Records /\ from \in 0 .. Parts - 1 /\ Parts \in Nat \ {0}
    BY AtRecord, LogAssumption DEF Write
  <1>2. open \in Seq(LinePart) /\ lines \in Seq(Seq(LinePart))
    BY DEF LogInv, LogTypes
  <1>3. PICK to \in from + 1 .. Parts :
          LET file == WithPart(SubSeq(Line(r), from + 1, to)) IN
          /\ lines' = file.lines /\ open' = file.open
          /\ IF to < Parts
             THEN /\ append' = [append EXCEPT ![p].parts = to]
                  /\ cut' = [cut EXCEPT !.going = @ + 1]
                  /\ UNCHANGED written
             ELSE /\ append' = [append EXCEPT ![p].at = @ + 1, ![p].parts = 0]
                  /\ written' = [written EXCEPT ![p] = @ \cup {r}]
                  /\ UNCHANGED cut
    BY DEF Write
  <1> DEFINE piece == SubSeq(Line(r), from + 1, to)
             l == open \o piece
  <1>4. /\ piece \in Seq(LinePart) /\ Len(piece) = to - from
        /\ \A i \in 1 .. to - from : piece[i] = <<r, from + i>>
        /\ \A i \in 1 .. Parts : Line(r)[i] = <<r, i>>
        /\ Line(r) \in Seq(LinePart) /\ Len(Line(r)) = Parts
    BY <1>1, LineParts
  <1>5. /\ lines' = WithPart(piece).lines /\ open' = WithPart(piece).open
        /\ to \in Nat /\ from \in Nat /\ to - from \in 1 .. Parts
    BY <1>1, <1>3
  <1> HIDE DEF piece
  <1>6. piece[Len(piece)] = <<r, to>> /\ piece # <<>>
    <2>1. from + (to - from) = to /\ to - from \in 1 .. to - from
      BY <1>5
    <2> QED
      BY <1>4, <1>5, <2>1, SMTT(30)
  <1>7. l \in Seq(LinePart) /\ Len(l) = Len(open) + (to - from)
        /\ l[Len(l)] = <<r, to>>
    BY <1>2, <1>4, <1>6, Joined
  <1>8. CASE to < Parts
    <2>1. lines' = lines /\ open' = l
      BY <1>1, <1>5, <1>6, <1>8 DEF WithPart
    <2>2. to \in from + 1 .. Parts - 1
      BY <1>1, <1>8
    <2> HIDE DEF l
    <2> QED
      BY <1>3, <1>7, <1>8, <2>1, <2>2 DEF WritesPart
  <1>9. CASE to = Parts
    <2>1. lines' = Append(lines, l) /\ open' = <<>>
      BY <1>5, <1>6, <1>9 DEF WithPart
    <2>2. IsRecord(l) => l[1][1] = r
      <3> HIDE DEF l
      <3> SUFFICES ASSUME IsRecord(l) PROVE l[1][1] = r
        OBVIOUS
      <3>1. l = [i \in 1 .. Parts |-> <<l[1][1], i>>]
        BY DEF IsRecord, Line
      <3>2. Len(l) = Parts
        BY <1>1, <1>7, <3>1
      <3>3. l[Parts] = <<l[1][1], Parts>>
        BY <1>1, <3>1
      <3> QED
        BY <1>7, <1>9, <3>2, <3>3
    <2>3. open = <<>> /\ from = 0 => IsRecord(l)
      <3> SUFFICES ASSUME open = <<>>, from = 0 PROVE IsRecord(l)
        OBVIOUS
      <3>1. l = piece
        BY <1>4
      <3>2. Len(piece) = Parts /\ \A i \in 1 .. Parts : piece[i] = <<r, i>>
        BY <1>1, <1>4, <1>9
      <3>3. piece = Line(r)
        <4> DEFINE line == Line(r)
        <4> HIDE DEF line
        <4>1. Len(line) = Parts /\ line \in Seq(LinePart) /\ \A i \in 1 .. Parts : line[i] = <<r, i>>
          BY <1>4 DEF line
        <4>2. piece = line
          BY <1>4, <3>2, <4>1, SameSeq
        <4> QED
          BY <4>2 DEF line
      <3>4. piece[1][1] = r
        BY <1>1, <3>2
      <3> QED
        BY <3>1, <3>3, <3>4 DEF IsRecord
    <2>4. /\ append' = [append EXCEPT ![p].at = @ + 1, ![p].parts = 0]
          /\ written' = [written EXCEPT ![p] = @ \cup {r}]
          /\ cut' = cut
      BY <1>1, <1>3, <1>9
    <2> HIDE DEF l
    <2> QED
      BY <1>7, <2>1, <2>2, <2>3, <2>4 DEF EndsLine
  <1> QED
    BY <1>1, <1>8, <1>9

\* A step that leaves the file alone, and takes no process back.
LEMMA FileLeftAlone ==
    ASSUME LogInv, UNCHANGED <<lines, open, written>>, cut' \in [going : Int, failed : Int],
           NEW p \in Process, NEW a \in Nat, NEW l \in 0 .. MaxRecords,
           NEW n \in 0 .. Parts - 1,
           append' = [append EXCEPT ![p] = [at |-> a, last |-> l, parts |-> n]],
           a \in append[p].at .. l + 1
    PROVE  LogInv'
  <1>1. /\ append \in [Process -> [at : Nat, last : 0 .. MaxRecords, parts : 0 .. Parts - 1]]
        /\ \A q \in Process : append[q].at \in 1 .. append[q].last + 1
    BY DEF LogInv, LogTypes
  <1>2. append' \in [Process -> [at : Nat, last : 0 .. MaxRecords, parts : 0 .. Parts - 1]]
    BY <1>1
  <1>3. ASSUME NEW q \in Process
        PROVE  append'[q].at \in 1 .. append'[q].last + 1 /\ append[q].at <= append'[q].at
    <2>1. CASE q = p
      BY <1>1, <2>1, LogAssumption
    <2>2. CASE q # p
      BY <1>1, <2>2, LogAssumption
    <2> QED
      BY <2>1, <2>2
  <1>4. LogTypes'
    BY <1>2, <1>3 DEF LogInv, LogTypes
  <1>5. WrittenInOrder'
    <2> SUFFICES ASSUME NEW q \in Process, NEW r \in written[q]
                 PROVE  r[1] = q /\ r[2] < append'[q].at
      BY DEF WrittenInOrder
    <2>1. r \in Records /\ r[1] = q /\ r[2] < append[q].at
      BY DEF LogInv, LogTypes, WrittenInOrder
    <2>2. r[2] \in Nat /\ append[q].at \in Nat /\ append'[q].at \in Nat
      BY <1>1, <1>2, <2>1, LogAssumption DEF Records
    <2> QED
      BY <1>3, <2>1, <2>2
  <1>6. FoundWasWritten'
    BY DEF LogInv, FoundWasWritten, Found
  <1> QED
    BY <1>4, <1>5, <1>6 DEF LogInv

\* The end of a line.
LEMMA FoundGrows ==
    ASSUME LogInv, NEW p \in Process, ~AtRest(p), EndsLine(p)
    PROVE  Found' \in {Found, Append(Found, Record(p))}
  <1>1. PICK l \in Seq(LinePart) :
          lines' = Append(lines, l) /\ (IsRecord(l) => l[1][1] = Record(p))
    BY DEF EndsLine
  <1>2. lines \in Seq(Seq(LinePart))
    BY DEF LogInv, LogTypes
  <1>3. FoundIn(lines') = IF IsRecord(l) THEN Append(FoundIn(lines), l[1][1])
                          ELSE FoundIn(lines)
    BY <1>1, <1>2, FoundWithLine
  <1> QED
    BY <1>1, <1>3 DEF Found

LEMMA LineEnded ==
    ASSUME LogInv, NEW p \in Process, ~AtRest(p), EndsLine(p)
    PROVE  LogInv'
  <1> DEFINE r == Record(p)
  <1>1. PICK l \in Seq(LinePart) :
          /\ lines' = Append(lines, l) /\ open' = <<>>
          /\ append' = [append EXCEPT ![p].at = @ + 1, ![p].parts = 0]
          /\ written' = [written EXCEPT ![p] = @ \cup {r}]
          /\ cut' = cut
    BY DEF EndsLine
  <1>2. /\ append \in [Process -> [at : Nat, last : 0 .. MaxRecords, parts : 0 .. Parts - 1]]
        /\ \A q \in Process : append[q].at \in 1 .. append[q].last + 1
        /\ written \in [Process -> SUBSET Records]
    BY DEF LogInv, LogTypes
  <1>3. r \in Records /\ append[p].at <= append[p].last /\ r = <<p, append[p].at>>
    BY AtRecord DEF Record
  <1>4. append' \in [Process -> [at : Nat, last : 0 .. MaxRecords, parts : 0 .. Parts - 1]]
    <2>1. 0 \in 0 .. Parts - 1
      BY LogAssumption
    <2>2. append' = [append EXCEPT ![p].at = @ + 1, ![p].parts = 0]
      BY <1>1
    <2>3. append[p] \in [at : Nat, last : 0 .. MaxRecords, parts : 0 .. Parts - 1]
      BY <1>2
    <2>4. append'[p] \in [at : Nat, last : 0 .. MaxRecords, parts : 0 .. Parts - 1]
      <3>1. append'[p] = [append[p] EXCEPT !.at = append[p].at + 1, !.parts = 0]
        BY <1>2, <2>2
      <3>2. append[p].at + 1 \in Nat
        BY <2>3
      <3> QED
        BY <2>1, <2>3, <3>1, <3>2
    <2>5. \A q \in Process \ {p} : append'[q] = append[q]
      BY <1>2, <2>2
    <2>6. append' \in [Process -> [at : Nat, last : 0 .. MaxRecords, parts : 0 .. Parts - 1]]
      BY <1>2, <2>2, <2>4, <2>5
    <2> QED
      BY <2>6
  <1>5. ASSUME NEW q \in Process
        PROVE  /\ append'[q].at \in 1 .. append'[q].last + 1
               /\ append'[q].at = IF q = p THEN append[p].at + 1 ELSE append[q].at
    BY <1>1, <1>2, <1>3, LogAssumption, SMTT(30)
  <1>6. written' \in [Process -> SUBSET Records]
    BY <1>1, <1>2, <1>3
  <1> HIDE DEF r
  <1>7. LogTypes'
    <2>1. lines' \in Seq(Seq(LinePart)) /\ open' \in Seq(LinePart)
      BY <1>1 DEF LogInv, LogTypes
    <2> QED
      BY <1>1, <1>4, <1>5, <1>6, <2>1 DEF LogInv, LogTypes
  <1>8. WrittenInOrder'
    <2> SUFFICES ASSUME NEW q \in Process, NEW o \in written'[q]
                 PROVE  o[1] = q /\ o[2] < append'[q].at
      BY DEF WrittenInOrder
    <2>1. \/ o \in written[q]
          \/ q = p /\ o = r
      BY <1>1, <1>2
    <2>2. CASE o \in written[q]
      <3>1. o \in Records /\ o[1] = q /\ o[2] < append[q].at
        BY <1>2, <2>2 DEF LogInv, WrittenInOrder
      <3>2. o[2] \in Nat /\ append[q].at \in Nat
        BY <1>2, <3>1, LogAssumption DEF Records
      <3> QED
        BY <1>5, <3>1, <3>2
    <2>3. CASE q = p /\ o = r
      BY <1>2, <1>3, <1>5, <2>3
    <2> QED
      BY <2>1, <2>2, <2>3
  <1>9. FoundWasWritten'
    <2>1. Found \in Seq(Records) /\ \A i \in DOMAIN Found : Found[i] \in written[Found[i][1]]
      BY DEF LogInv, FoundWasWritten
    <2>2. \A q \in Process : written[q] \subseteq written'[q]
      BY <1>1, <1>2
    <2>3. r \in written'[p] /\ r[1] = p
      BY <1>1, <1>2, <1>3
    <2>4. \A i \in DOMAIN Found : Found[i] \in Records /\ Found[i] \in written'[Found[i][1]]
      <3>1. \A i \in DOMAIN Found : Found[i] \in Records
        BY <2>1
      <3>2. \A i \in DOMAIN Found : Found[i][1] \in Process
        BY <3>1 DEF Records
      <3> QED
        BY <2>1, <2>2, <3>1, <3>2
    <2>5. CASE Found' = Found
      BY <2>1, <2>4, <2>5 DEF FoundWasWritten
    <2>6. CASE Found' = Append(Found, r)
      <3>1. Found' \in Seq(Records)
        BY <1>3, <2>1, <2>6
      <3>2. ASSUME NEW i \in DOMAIN Found'
            PROVE  (i \in DOMAIN Found /\ Found'[i] = Found[i]) \/ Found'[i] = r
        BY <1>3, <2>1, <2>6
      <3>3. \A i \in DOMAIN Found' : Found'[i] \in written'[Found'[i][1]]
        BY <2>3, <2>4, <3>2
      <3> QED
        BY <3>1, <3>3 DEF FoundWasWritten
    <2> QED
      BY <2>5, <2>6, FoundGrows DEF r
  <1> QED
    BY <1>7, <1>8, <1>9 DEF LogInv

\* Every step keeps LogInv.
LEMMA LogStep == LogInv /\ [LogNext]_logVars => LogInv'
  <1> SUFFICES ASSUME LogInv, [LogNext]_logVars PROVE LogInv'
    OBVIOUS
  <1>1. /\ append \in [Process -> [at : Nat, last : 0 .. MaxRecords, parts : 0 .. Parts - 1]]
        /\ \A q \in Process : append[q].at \in 1 .. append[q].last + 1
        /\ cut \in [going : Int, failed : Int]
        /\ MaxRecords \in Nat /\ Parts \in Nat \ {0} /\ MaxBatch \in Nat
    BY LogAssumption DEF LogInv, LogTypes
  <1>2. ASSUME NEW p \in Process, NEW n \in 1 .. MaxBatch, Append_jsonl(p, n)
        PROVE  LogInv'
    <2> DEFINE a == append[p].last + 1
               l == append[p].last + n
               k == append[p].parts
    <2>1. a \in Nat /\ l \in 0 .. MaxRecords /\ k \in 0 .. Parts - 1
          /\ a \in append[p].at .. l + 1
      BY <1>1, <1>2 DEF Append_jsonl, AtRest
    <2>2. append' = [append EXCEPT ![p] = [at |-> a, last |-> l, parts |-> k]]
      BY <1>1, <1>2 DEF Append_jsonl
    <2>3. UNCHANGED <<lines, open, written>> /\ cut' \in [going : Int, failed : Int]
      BY <1>1, <1>2 DEF Append_jsonl
    <2> HIDE DEF a, l, k
    <2> QED
      BY <2>1, <2>2, <2>3, FileLeftAlone
  <1>3. ASSUME NEW p \in Process, AppendFails(p) PROVE LogInv'
    <2> DEFINE a == append[p].last + 1
               l == append[p].last
    <2>1. a \in Nat /\ l \in 0 .. MaxRecords /\ 0 \in 0 .. Parts - 1
          /\ a \in append[p].at .. l + 1
      BY <1>1, <1>3
    <2>2. append' = [append EXCEPT ![p] = [at |-> a, last |-> l, parts |-> 0]]
      <3>1. append' = [append EXCEPT ![p].at = append[p].last + 1, ![p].parts = 0]
        BY <1>3 DEF AppendFails
      <3>2. append[p] \in [at : Nat, last : 0 .. MaxRecords, parts : 0 .. Parts - 1]
        BY <1>1
      <3>3. append'[p] = [at |-> a, last |-> l, parts |-> 0]
        BY <1>1, <3>1, <3>2
      <3> QED
        BY <1>1, <3>1, <3>3
    <2>3. UNCHANGED <<lines, open, written>> /\ cut' \in [going : Int, failed : Int]
      BY <1>1, <1>3 DEF AppendFails
    <2> HIDE DEF a, l
    <2> QED
      BY <2>1, <2>2, <2>3, FileLeftAlone
  <1>4. ASSUME NEW p \in Process, Write(p) PROVE LogInv'
    <2>1. CASE EndsLine(p)
      BY <1>4, <2>1, LineEnded DEF Write
    <2>2. CASE WritesPart(p)
      <3>1. PICK to \in append[p].parts + 1 .. Parts - 1 :
              /\ lines' = lines /\ open' \in Seq(LinePart) /\ written' = written
              /\ append' = [append EXCEPT ![p].parts = to]
              /\ cut' = [cut EXCEPT !.going = @ + 1]
        BY <2>2 DEF WritesPart
      <3>2. append' \in [Process -> [at : Nat, last : 0 .. MaxRecords, parts : 0 .. Parts - 1]]
        <4>1. to \in 0 .. Parts - 1
          <5>1. append[p].parts \in 0 .. Parts - 1
            BY <1>1
          <5> QED
            BY <1>1, <5>1
        <4>2. append' = [append EXCEPT ![p].parts = to]
          BY <3>1
        <4> QED
          BY <1>1, <4>1, <4>2
      <3>3. \A q \in Process : append'[q].at = append[q].at /\ append'[q].last = append[q].last
        BY <1>1, <3>1
      <3>4. cut' \in [going : Int, failed : Int]
        <4>1. cut' = [cut EXCEPT !.going = @ + 1] /\ cut \in [going : Int, failed : Int]
          BY <1>1, <3>1
        <4> QED
          BY <4>1
      <3>5. LogTypes'
        BY <1>1, <3>1, <3>2, <3>3, <3>4 DEF LogInv, LogTypes
      <3>6. WrittenInOrder' /\ FoundWasWritten'
        BY <3>1, <3>3 DEF LogInv, WrittenInOrder, FoundWasWritten, Found
      <3> QED
        BY <3>5, <3>6 DEF LogInv
    <2> QED
      BY <1>4, <2>1, <2>2, WriteCases
  <1>5. CASE UNCHANGED logVars
    BY <1>5 DEF logVars, LogInv, LogTypes, WrittenInOrder, FoundWasWritten, Found
  <1> QED
    BY <1>2, <1>3, <1>4, <1>5 DEF LogNext

LEMMA LogStart == LogInit => LogInv
  <1> SUFFICES ASSUME LogInit PROVE LogInv
    OBVIOUS
  <1>1. Found = <<>>
    BY NothingFound DEF LogInit, Found
  <1> QED
    BY <1>1, LogAssumption DEF LogInit, LogInv, LogTypes, WrittenInOrder, FoundWasWritten

\* Files and writers of append_jsonl keep their types; what a process has written
\* is in the file in the order of writing, and readers find nothing else.
THEOREM LogSafe == LogSpec => []LogInv
  BY LogStart, LogStep, PTL DEF LogSpec

------------------------------------------------------------------------------
(* The log implements RecordLog.                                            *)

LEMMA AddsNext ==
    ASSUME LogInv, NEW p \in Process, ~AtRest(p), EndsLine(p)
    PROVE  TheLog!Next \/ Found' = Found
  <1>1. CASE Found' = Found
    BY <1>1
  <1>2. CASE Found' = Append(Found, Record(p))
    <2>1. Record(p) = <<p, append[p].at>> /\ append[p].at \in 1 .. MaxRecords
      BY AtRecord, LogAssumption DEF Record, Records
    <2>2. ASSUME NEW i \in DOMAIN Found, Found[i][1] = p PROVE Found[i][2] < append[p].at
      <3>1. Found[i] \in written[p]
        BY <2>2 DEF LogInv, FoundWasWritten
      <3> QED
        BY <3>1 DEF LogInv, WrittenInOrder
    <2>3. TheLog!Add(p, append[p].at)
      BY <1>2, <2>1, <2>2 DEF TheLog!Add
    <2> QED
      BY <2>1, <2>3 DEF TheLog!Next
  <1> QED
    BY <1>1, <1>2, FoundGrows

\* LogImplemented: the file that processes append to, some of which fail or are
\* killed in the middle of a line, is a RecordLog.  A step that ends a line adds
\* at most the record that was written, whose number is above those that were
\* found of its process; every other step leaves the lines alone.
THEOREM FileIsALog == LogSpec => LogImplemented
  <1>1. LogInit => TheLog!Init
    BY NothingFound DEF LogInit, TheLog!Init, Found
  <1>2. LogInv /\ [LogNext]_logVars => [TheLog!Next]_Found
    <2> SUFFICES ASSUME LogInv, [LogNext]_logVars PROVE TheLog!Next \/ Found' = Found
      OBVIOUS
    <2>1. ASSUME NEW p \in Process, Write(p) PROVE TheLog!Next \/ Found' = Found
      <3>1. CASE WritesPart(p)
        BY <3>1 DEF WritesPart, Found
      <3>2. CASE EndsLine(p)
        BY <2>1, <3>2, AddsNext DEF Write
      <3> QED
        BY <2>1, <3>1, <3>2, WriteCases
    <2>2. ASSUME NEW p \in Process,
                 AppendFails(p) \/ \E n \in 1 .. MaxBatch : Append_jsonl(p, n)
          PROVE  Found' = Found
      BY <2>2 DEF AppendFails, Append_jsonl, Found
    <2>3. CASE UNCHANGED logVars
      BY <2>3 DEF logVars, Found
    <2> QED
      BY <2>1, <2>2, <2>3 DEF LogNext
  <1> QED
    BY <1>1, <1>2, LogSafe, PTL DEF LogSpec, LogImplemented, TheLog!Spec

------------------------------------------------------------------------------
(* What a failed or partial write costs.                                    *)

Ended == UNION {written[p] : p \in Process}
FoundSet == {Found[i] : i \in DOMAIN Found}
Lost == Ended \ FoundSet

\* The processes that are in the middle of a line.
Halfway == {p \in Process : append[p].parts > 0}

Unended == IF open # <<>> THEN 1 ELSE 0

\* What is lost, or may be: with a line that was left without its end goes the
\* next one that ends, and with a process in the middle of one its own.  Each
\* part that is not a line's last adds two to what is allowed.
BudgetKept ==
    /\ IsFiniteSet(Lost) /\ IsFiniteSet(Halfway)
    /\ Cardinality(Lost) + Unended + Cardinality(Halfway)
         <= cut.failed + 2 * cut.going

\* A record that ends is lost, or found.
LEMMA LostOrFound ==
    ASSUME LogInv, NEW p \in Process, ~AtRest(p), EndsLine(p), IsFiniteSet(Lost)
    PROVE  /\ IsFiniteSet(Lost')
           /\ Cardinality(Lost') <= Cardinality(Lost) + 1
           /\ open = <<>> /\ append[p].parts = 0 => Lost' = Lost
  <1> DEFINE r == Record(p)
  <1>1. PICK l \in Seq(LinePart) :
          /\ lines' = Append(lines, l)
          /\ IsRecord(l) => l[1][1] = r
          /\ open = <<>> /\ append[p].parts = 0 => IsRecord(l)
          /\ written' = [written EXCEPT ![p] = @ \cup {r}]
    BY DEF EndsLine
  <1>2. written \in [Process -> SUBSET Records] /\ Found \in Seq(Records)
        /\ lines \in Seq(Seq(LinePart))
    BY DEF LogInv, LogTypes, FoundWasWritten
  <1>3. Ended' = Ended \cup {r}
    BY <1>1, <1>2 DEF Ended
  <1>4. r \in Records
    BY AtRecord
  <1> HIDE DEF r
  <1>5. ASSUME Found' = Append(Found, r) PROVE FoundSet' = FoundSet \cup {r}
    <2>1. DOMAIN Found = 1 .. Len(Found) /\ Len(Found) \in Nat
      BY <1>2
    <2>2. DOMAIN Found' = 1 .. Len(Found) + 1
      BY <1>2, <1>4, <1>5
    <2>3. \A i \in 1 .. Len(Found) : Found'[i] = Found[i]
      BY <1>2, <1>4, <1>5
    <2>4. Found'[Len(Found) + 1] = r
      BY <1>2, <1>4, <1>5
    <2> QED
      BY <2>1, <2>2, <2>3, <2>4 DEF FoundSet
  <1>6. FoundSet' = FoundSet \/ FoundSet' = FoundSet \cup {r}
    BY <1>5, FoundGrows DEF FoundSet, r
  <1>7. Lost' \subseteq Lost \cup {r}
    BY <1>3, <1>6 DEF Lost
  <1>8. IsFiniteSet(Lost \cup {r}) /\ Cardinality(Lost \cup {r}) <= Cardinality(Lost) + 1
    BY FS_AddElement, FS_CardinalityType
  <1>9. IsFiniteSet(Lost') /\ Cardinality(Lost') <= Cardinality(Lost \cup {r})
    BY <1>7, <1>8, FS_Subset
  <1>10. Cardinality(Lost') <= Cardinality(Lost) + 1
    BY <1>8, <1>9, FS_CardinalityType
  <1>11. ASSUME open = <<>>, append[p].parts = 0 PROVE Lost' = Lost
    <2>1. FoundIn(lines') = Append(FoundIn(lines), r)
      BY <1>1, <1>2, <1>11, FoundWithLine
    <2>2. FoundSet' = FoundSet \cup {r}
      BY <1>5, <2>1 DEF Found
    <2>3. r \notin Ended
      <3> SUFFICES ASSUME NEW q \in Process, r \in written[q] PROVE FALSE
        BY DEF Ended
      <3>1. r[1] = q
        BY DEF LogInv, WrittenInOrder
      <3>2. q = p
        BY <3>1 DEF r, Record
      <3> QED
        BY <3>2, AtRecord DEF r
    <2> QED
      BY <1>3, <2>2, <2>3 DEF Lost
  <1> QED
    BY <1>9, <1>10, <1>11

LEMMA BudgetStep == LogInv /\ BudgetKept /\ [LogNext]_logVars => BudgetKept'
  <1> SUFFICES ASSUME LogInv, BudgetKept, [LogNext]_logVars PROVE BudgetKept'
    OBVIOUS
  <1>1. /\ append \in [Process -> [at : Nat, last : 0 .. MaxRecords, parts : 0 .. Parts - 1]]
        /\ cut.going \in Int /\ cut.failed \in Int /\ cut = [going |-> cut.going, failed |-> cut.failed]
        /\ MaxRecords \in Nat /\ Parts \in Nat \ {0}
    BY LogAssumption DEF LogInv, LogTypes
  <1>2. /\ IsFiniteSet(Lost) /\ Cardinality(Lost) \in Nat
        /\ IsFiniteSet(Halfway) /\ Cardinality(Halfway) \in Nat
        /\ Cardinality(Lost) + Unended + Cardinality(Halfway)
             <= cut.failed + 2 * cut.going
    BY FS_CardinalityType DEF BudgetKept
  <1>3. /\ Unended \in 0 .. 1 /\ (open # <<>> => Unended = 1)
        /\ Unended' \in 0 .. 1
    BY DEF Unended
  <1>4. ASSUME NEW p \in Process, NEW n \in 1 .. MaxBatch, Append_jsonl(p, n)
        PROVE  BudgetKept'
    <2>1. \A q \in Process : append'[q].parts = append[q].parts
      BY <1>1, <1>4 DEF Append_jsonl
    <2>2. Halfway' = Halfway
      BY <2>1 DEF Halfway
    <2>3. Lost' = Lost /\ Unended' = Unended /\ cut' = cut
      BY <1>4 DEF Append_jsonl, Unended, Lost, Ended, FoundSet, Found
    <2> QED
      BY <1>2, <2>2, <2>3 DEF BudgetKept
  <1>5. ASSUME NEW p \in Process, AppendFails(p) PROVE BudgetKept'
    <2>1. Lost' = Lost /\ Unended' = Unended
      BY <1>5 DEF AppendFails, Unended, Lost, Ended, FoundSet, Found
    <2>2. append'[p].parts = 0 /\ \A q \in Process \ {p} : append'[q] = append[q]
      <3>1. append' = [append EXCEPT ![p].at = append[p].last + 1, ![p].parts = 0]
        BY <1>5 DEF AppendFails
      <3> QED
        BY <1>1, <3>1
    <2>3. Halfway' = Halfway \ {p}
      BY <2>2 DEF Halfway
    <2>4. CASE append[p].parts = 0
      <3>1. p \notin Halfway /\ cut' = cut
        BY <1>5, <2>4 DEF AppendFails, Halfway
      <3>2. Halfway' = Halfway
        BY <2>3, <3>1
      <3> QED
        BY <1>2, <2>1, <3>1, <3>2 DEF BudgetKept
    <2>5. CASE append[p].parts # 0
      <3>1. p \in Halfway
        BY <1>1, <2>5 DEF Halfway
      <3>2. IsFiniteSet(Halfway') /\ Cardinality(Halfway') = Cardinality(Halfway) - 1
        BY <1>2, <2>3, <3>1, FS_RemoveElement
      <3>3. cut'.going = cut.going - 1 /\ cut'.failed = cut.failed + 1
        BY <1>5, <2>5 DEF AppendFails
      <3>4. Cardinality(Lost) + Unended + (Cardinality(Halfway) - 1)
              <= (cut.failed + 1) + 2 * (cut.going - 1)
        <4>1. (cut.failed + 1) + 2 * (cut.going - 1) = (cut.failed + 2 * cut.going) - 1
          BY <1>1
        <4>2. cut.failed + 2 * cut.going \in Int
          BY <1>1
        <4> QED
          BY <1>2, <1>3, <4>1, <4>2
      <3> QED
        BY <1>2, <2>1, <3>2, <3>3, <3>4 DEF BudgetKept
    <2> QED
      BY <2>4, <2>5
  <1>6. ASSUME NEW p \in Process, Write(p) PROVE BudgetKept'
    <2>1. ~AtRest(p) /\ append[p].parts \in 0 .. Parts - 1
      BY <1>1, <1>6 DEF Write
    <2>2. CASE WritesPart(p)
      <3>1. PICK to \in append[p].parts + 1 .. Parts - 1 :
              /\ append' = [append EXCEPT ![p].parts = to]
              /\ cut' = [cut EXCEPT !.going = @ + 1]
        BY <2>2 DEF WritesPart
      <3>2. Lost' = Lost
        BY <2>2 DEF WritesPart, Lost, Ended, FoundSet, Found
      <3>3. to > 0
        BY <1>1, <2>1
      <3>4. Halfway' = Halfway \cup {p}
        BY <1>1, <3>1, <3>3 DEF Halfway
      <3>5. IsFiniteSet(Halfway') /\ Cardinality(Halfway') \in Nat
            /\ Cardinality(Halfway') <= Cardinality(Halfway) + 1
        <4>1. IsFiniteSet(Halfway') /\ (Halfway' = Halfway \/ Cardinality(Halfway') = Cardinality(Halfway) + 1)
          <5>1. p \in Halfway => Halfway' = Halfway
            BY <3>4
          <5> QED
            BY <1>2, <3>4, <5>1, FS_AddElement
        <4>2. Cardinality(Halfway') \in Nat
          BY <4>1, FS_CardinalityType
        <4> QED
          BY <1>2, <4>1, <4>2
      <3>6. cut'.going = cut.going + 1 /\ cut'.failed = cut.failed
        BY <1>1, <3>1
      <3>7. Cardinality(Lost) + Unended' + Cardinality(Halfway')
              <= cut.failed + 2 * (cut.going + 1)
        <4>1. cut.failed + 2 * (cut.going + 1) = cut.failed + 2 * cut.going + 2
          BY <1>1
        <4>2. cut.failed + 2 * cut.going \in Int
          BY <1>1
        <4> QED
          BY <1>2, <1>3, <3>5, <4>1, <4>2, SMTT(30)
      <3> QED
        BY <1>2, <3>2, <3>5, <3>6, <3>7 DEF BudgetKept
    <2>3. CASE EndsLine(p)
      <3>1. /\ open' = <<>> /\ cut' = cut
            /\ append' = [append EXCEPT ![p].at = @ + 1, ![p].parts = 0]
        BY <2>3 DEF EndsLine
      <3>2. append'[p].parts = 0 /\ \A q \in Process \ {p} : append'[q] = append[q]
        BY <1>1, <3>1
      <3>3. Halfway' = Halfway \ {p}
        BY <3>2 DEF Halfway
      <3>4. /\ IsFiniteSet(Lost') /\ Cardinality(Lost') \in Nat
            /\ Cardinality(Lost') <= Cardinality(Lost) + 1
            /\ open = <<>> /\ append[p].parts = 0 => Lost' = Lost
        BY <1>2, <2>1, <2>3, LostOrFound, FS_CardinalityType
      <3>5. /\ IsFiniteSet(Halfway') /\ Cardinality(Halfway') \in Nat
            /\ Cardinality(Halfway') <= Cardinality(Halfway)
            /\ append[p].parts # 0 => Cardinality(Halfway') = Cardinality(Halfway) - 1
        <4>1. append[p].parts # 0 => p \in Halfway
          BY <2>1 DEF Halfway
        <4> QED
          <5>1. IsFiniteSet(Halfway')
            BY <1>2, <3>3, FS_RemoveElement
          <5>2. p \in Halfway => Cardinality(Halfway') = Cardinality(Halfway) - 1
            BY <1>2, <3>3, FS_RemoveElement
          <5>3. p \notin Halfway => Halfway' = Halfway
            BY <3>3
          <5>4. Cardinality(Halfway') \in Nat
            BY <5>1, FS_CardinalityType
          <5> QED
            BY <1>2, <4>1, <5>1, <5>2, <5>3, <5>4
      <3>6. Cardinality(Lost') + Cardinality(Halfway')
              <= Cardinality(Lost) + Unended + Cardinality(Halfway)
        <4>1. CASE open = <<>> /\ append[p].parts = 0
          <5>1. Lost' = Lost
            BY <3>4, <4>1
          <5> QED
            BY <1>2, <1>3, <3>5, <5>1
        <4>2. CASE open # <<>>
          <5>1. Unended = 1
            BY <1>3, <4>2
          <5> QED
            BY <1>2, <3>4, <3>5, <5>1
        <4>3. CASE append[p].parts # 0
          BY <1>2, <1>3, <3>4, <3>5, <4>3
        <4> QED
          BY <4>1, <4>2, <4>3
      <3>7. Unended' = 0
        BY <3>1 DEF Unended
      <3>8. Cardinality(Lost') + Unended' + Cardinality(Halfway')
              <= cut.failed + 2 * cut.going
        <4>1. Cardinality(Lost') + Cardinality(Halfway') <= cut.failed + 2 * cut.going
          BY <1>1, <1>2, <1>3, <3>4, <3>5, <3>6, SMTT(30)
        <4> QED
          BY <1>1, <3>4, <3>5, <3>7, <4>1
      <3> QED
        BY <3>1, <3>4, <3>5, <3>8 DEF BudgetKept
    <2> QED
      BY <1>6, <2>2, <2>3, WriteCases
  <1>7. CASE UNCHANGED logVars
    BY <1>7 DEF logVars, BudgetKept, Unended, Lost, Halfway, Ended, FoundSet, Found
  <1> QED
    BY <1>4, <1>5, <1>6, <1>7 DEF LogNext

\* LossesBounded: whatever processes write to the file, in however many parts,
\* and whoever fails or is killed in the middle of a line, of the records that
\* were written to their end no more are lost than lines were left without theirs
\* by processes that failed, and two for each left so by one that went on.
THEOREM LossesAreBounded == LogSpec => []LossesBounded
  <1>1. LogInit => BudgetKept
    <2> SUFFICES ASSUME LogInit PROVE BudgetKept
      OBVIOUS
    <2>1. Lost = {} /\ Halfway = {}
      BY DEF LogInit, Lost, Ended, Halfway
    <2>2. Unended = 0 /\ cut.going = 0 /\ cut.failed = 0
      BY DEF LogInit, Unended
    <2> QED
      BY <2>1, <2>2, FS_EmptySet DEF BudgetKept
  <1>2. LogInv /\ BudgetKept => LossesBounded
    <2> SUFFICES ASSUME LogInv, BudgetKept PROVE LossesBounded
      OBVIOUS
    <2>1. Cardinality(Lost) \in Nat /\ Cardinality(Halfway) \in Nat
      BY FS_CardinalityType DEF BudgetKept
    <2>2. cut.going \in Int /\ cut.failed \in Int
      BY DEF LogInv, LogTypes
    <2>3. Unended \in {0, 1}
      BY DEF Unended
    <2>4. Cardinality(Lost) <= cut.failed + 2 * cut.going
      BY <2>1, <2>2, <2>3 DEF BudgetKept
    <2> QED
      BY <2>4 DEF LossesBounded, Lost, Ended, FoundSet
  <1> QED
    BY <1>1, <1>2, LogSafe, BudgetStep, PTL DEF LogSpec
==============================================================================
