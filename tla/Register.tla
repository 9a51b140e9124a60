------------------------------ MODULE Register ------------------------------
(***************************************************************************)
(* What a file written with atomic_write_json (crates/qm-common/src/       *)
(* storage.rs) promises: it is absent or holds one whole value, and a      *)
(* write replaces one value by another in a single step.                   *)
(***************************************************************************)
CONSTANT Value

VARIABLE stored \* {} or {v}

Init == stored = {}

Write(v) == stored' = {v}

Next == \E v \in Value : Write(v)

Spec == Init /\ [][Next]_stored
==============================================================================
