----------------------------- MODULE AtomicStore -----------------------------
(***************************************************************************)
(* What a caller of Database expects of it: the writes of an operation      *)
(* become durable together or not at all.                                   *)
(***************************************************************************)
CONSTANTS
  Operation,  \* what a caller does
  Write       \* the writes of operations, with the operation as op

VARIABLE store  \* the writes that are durable

Init == store = {}

Commit(S) == store' = store \cup {x \in Write : x.op \in S}

Next == \E S \in SUBSET Operation : Commit(S)

Spec == Init /\ [][Next]_store
=============================================================================
