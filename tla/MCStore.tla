------------------------------ MODULE MCStore ------------------------------
(* Finite instances of Store for TLC.  file1 and file3 share a bucket.               *)
EXTENDS Store, TLC

CONSTANTS file1, file2, file3

SomeHashes == file1 :> 0 @@ file2 :> 1 @@ file3 :> 2
SomeSizes == file1 :> 4 @@ file2 :> 6 @@ file3 :> 4

\* Two hosts; host 1 serves at two ports.
TwoHosts == {[sin_addr |-> 1, sin_port |-> 80], [sin_addr |-> 1, sin_port |-> 81],
             [sin_addr |-> 2, sin_port |-> 80]}

BlockSymmetry == Permutations(Blocks)
=============================================================================
