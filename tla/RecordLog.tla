------------------------------ MODULE RecordLog ------------------------------
(***************************************************************************)
(* What a file written with append_jsonl (crates/qm-common/src/storage.rs) *)
(* promises to its readers: records appear at its end, one at a time, and  *)
(* stay.  Those of one process appear in the order of its calls; it is not *)
(* promised that all of them do.                                           *)
(***************************************************************************)
EXTENDS Integers, Sequences

CONSTANTS
    Process,
    MaxRecords \* bound on the records of a process

VARIABLE records \* what readers find, the oldest first: <<process, number>>

Init == records = <<>>

Add(p, n) ==
    /\ \A i \in DOMAIN records : records[i][1] = p => records[i][2] < n
    /\ records' = Append(records, <<p, n>>)

Next == \E p \in Process, n \in 1 .. MaxRecords : Add(p, n)

Spec == Init /\ [][Next]_records
==============================================================================
