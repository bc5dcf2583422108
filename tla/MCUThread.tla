------------------------------ MODULE MCUThread ------------------------------
(* Finite instances of UThread for TLC.                                      *)
EXTENDS UThread

CONSTANTS a, b, c

AllPairs == {a, b, c} \X {a, b, c}
\* b and c each joined by one thread only, without a cycle.
ChainPairs == {<<a, b>>, <<b, c>>}
\* c joined by two threads.
DoublePairs == {<<a, c>>, <<b, c>>}

ThreadSymmetry == Permutations(Threads)
=============================================================================
