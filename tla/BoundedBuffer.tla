--------------------------- MODULE BoundedBuffer ---------------------------
(***************************************************************************)
(* What the two rings of the repository promise (the comments of           *)
(* RingSynch.h and Ring.h): RingPut adds an element unless the ring is     *)
(* full, RingGet returns the oldest element unless the ring is empty.      *)
(***************************************************************************)
EXTENDS Naturals, Sequences

CONSTANTS Consumers, Values, NoValue, Capacity

VARIABLES
    buf, \* the elements put and not yet got, oldest first
    got  \* what each consumer's last RingGet took

Init == buf = <<>> /\ got = [c \in Consumers |-> NoValue]

Put(v) ==
    /\ Len(buf) < Capacity
    /\ buf' = Append(buf, v)
    /\ UNCHANGED got

Get(c) ==
    /\ buf # <<>>
    /\ got' = [got EXCEPT ![c] = Head(buf)]
    /\ buf' = Tail(buf)

Next == (\E v \in Values : Put(v)) \/ (\E c \in Consumers : Get(c))

Spec == Init /\ [][Next]_<<buf, got>>
=============================================================================
