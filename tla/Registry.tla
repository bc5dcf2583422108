------------------------------ MODULE Registry ------------------------------
(***************************************************************************)
(* What the tracker's hash table promises (the comments of HashTable.h and *)
(* Store.h): for each key the values added and not yet removed, in the     *)
(* order in which they were added, repetitions included.                   *)
(***************************************************************************)
EXTENDS Sequences, SequencesExt

CONSTANTS Keys, Values, Same(_, _)

VARIABLE values

Init == values = [k \in Keys |-> <<>>]

Add(key, val) == values' = [values EXCEPT ![key] = Append(@, val)]

\* The first value that is the same as val goes, if there is one.
Delete(key, val) ==
    values' = [values EXCEPT ![key] = RemoveFirstMatch(@, LAMBDA v : Same(v, val))]

Clear == values' = [k \in Keys |-> <<>>]

Next == Clear \/ \E k \in Keys, v \in Values : Add(k, v) \/ Delete(k, v)

Spec == Init /\ [][Next]_values
=============================================================================
