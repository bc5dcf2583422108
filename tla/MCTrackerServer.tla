-------------------------- MODULE MCTrackerServer --------------------------
(* Finite instances of TrackerServer for TLC.                                *)
EXTENDS TrackerServer, TLC

CONSTANTS c1, c2, file1

ListFiles == [type |-> "LIST_FILES", arg |-> "none"]
On(type, file) == [type |-> type, arg |-> file]

\* The first client registers a file and asks for it; the second only looks.
TwoClients ==
    c1 :> <<On("REGISTER", file1), On("LIST_LOCATIONS", file1)>> @@ c2 :> <<ListFiles>>

\* A client with two short requests.
OneClient == c1 :> <<ListFiles, ListFiles>>

\* The instance that arbitrary chunks do not break is one that the theorems are about.
ASSUME PlainInstance == AnyCut \/ PlainClients

ThreadSymmetry == Permutations(Threads)
=============================================================================
