------------------------------ MODULE EventLog ------------------------------
(***************************************************************************)
(* append_jsonl of crates/qm-common/src/storage.rs, called by several      *)
(* processes on one path.  The file is opened for appending, and every     *)
(* record is written with its newline: at once, or in parts when the       *)
(* system takes only some of the bytes.  A write may fail, and its process *)
(* may be killed, before or after such a part.  flush does nothing for a   *)
(* file.                                                                   *)
(***************************************************************************)
EXTENDS Integers, Sequences, FiniteSets

CONSTANTS
    Process,
    Parts,      \* a line is written in at most so many parts
    MaxRecords, \* bound on the records of a process
    MaxBatch    \* bound on the records of a call

ASSUME LogAssumption ==
    Parts \in Nat \ {0} /\ MaxRecords \in Nat /\ MaxBatch \in Nat

VARIABLES
    lines,  \* the lines of the file, each the sequence of the parts in it
    open,   \* what follows the last newline
    append, \* append[p]: the record p is at, the last one of its call, and how
            \* many parts of the record are in the file
    written,  \* written[p]: the records of p whose last part is in the file
    cut     \* how often a record of a process that went on, and of one that
            \* failed, was left without its end

logVars == <<lines, open, append, written, cut>>

Line(r) == [i \in 1 .. Parts |-> <<r, i>>]

AtRest(p) == append[p].at > append[p].last
Record(p) == <<p, append[p].at>>

LogInit ==
    /\ lines = <<>> /\ open = <<>>
    /\ append = [p \in Process |-> [at |-> 1, last |-> 0, parts |-> 0]]
    /\ written = [p \in Process |-> {}]
    /\ cut = [going |-> 0, failed |-> 0]

\* append_jsonl is called with the next n records.
Append_jsonl(p, n) ==
    /\ AtRest(p)
    /\ append[p].last + n <= MaxRecords
    /\ append' = [append EXCEPT ![p].at = append[p].last + 1, ![p].last = append[p].last + n]
    /\ UNCHANGED <<lines, open, written, cut>>

\* Mutated form of WithPart: the file was not opened for appending.
WithPartOnly(part) ==
    IF part[Len(part)][2] = Parts THEN [lines |-> <<part>>, open |-> <<>>]
                                  ELSE [lines |-> <<>>, open |-> part]

\* The file with something more at its end.
WithPart(part) ==
    IF part[Len(part)][2] = Parts THEN [lines |-> Append(lines, open \o part), open |-> <<>>]
                                  ELSE [lines |-> lines, open |-> open \o part]

\* write_all: the system takes some or all of what is left of the line.  With
\* the last record the call returns.
Write(p) ==
    LET from == append[p].parts IN
    /\ ~AtRest(p)
    /\ \E to \in from + 1 .. Parts :
          LET file == WithPart(SubSeq(Line(Record(p)), from + 1, to)) IN
          /\ lines' = file.lines /\ open' = file.open
          /\ IF to < Parts
             THEN /\ append' = [append EXCEPT ![p].parts = to]
                  /\ cut' = [cut EXCEPT !.going = @ + 1]
                  /\ UNCHANGED written
             ELSE /\ append' = [append EXCEPT ![p].at = @ + 1, ![p].parts = 0]
                  /\ written' = [written EXCEPT ![p] = @ \cup {Record(p)}]
                  /\ UNCHANGED cut

\* A record cannot be serialised, or the write fails, or the process is killed:
\* what is in the file stays, and the rest of the call is not written.
AppendFails(p) ==
    /\ ~AtRest(p)
    /\ append' = [append EXCEPT ![p].at = append[p].last + 1, ![p].parts = 0]
    /\ cut' = IF append[p].parts = 0 THEN cut
              ELSE [going |-> cut.going - 1, failed |-> cut.failed + 1]
    /\ UNCHANGED <<lines, open, written>>

LogNext ==
    \E p \in Process :
       \/ \E n \in 1 .. MaxBatch : Append_jsonl(p, n)
       \/ Write(p) \/ AppendFails(p)

LogSpec == LogInit /\ [][LogNext]_logVars

------------------------------------------------------------------------------
(* Properties. *)

\* A reader takes the file apart at its newlines, and a line for a record if it
\* is one, whole and with nothing else.
IsRecord(line) == line = Line(line[1][1])
FoundIn(ls) ==
    LET upTo[n \in 0 .. Len(ls)] ==
          IF n = 0 THEN <<>>
          ELSE IF IsRecord(ls[n]) THEN Append(upTo[n - 1], ls[n][1][1]) ELSE upTo[n - 1]
    IN  upTo[Len(ls)]
Found == FoundIn(lines)

\* Of the records that were written to their end, a line that was left without
\* its end costs at most one, which was appended to it, or also its own if its
\* process went on.
LossesBounded ==
    LET ended == UNION {written[p] : p \in Process}
        found == {Found[i] : i \in DOMAIN Found}
    IN  Cardinality(ended \ found) <= cut.failed + 2 * cut.going

TheLog == INSTANCE RecordLog WITH records <- Found

\* What readers find only grows, by one record at a time, those of each process
\* in its order, whoever fails or is killed in the middle of a line.
LogImplemented == TheLog!Spec
==============================================================================
