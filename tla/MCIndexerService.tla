-------------------------- MODULE MCIndexerService --------------------------
(* A finite instance of IndexerService for TLC: one name in two folders, and *)
(* another name in the first of them.                                        *)
EXTENDS IndexerService

CONSTANTS p1, p2, q, name, other, folder1, folder2

TwoNames == [p \in Paths |-> IF p = q THEN other ELSE name]
TwoFolders == [p \in Paths |-> IF p = p2 THEN folder2 ELSE folder1]
FirstFile == <<p1>>
SameQuery == [t \in Threads |-> name]
=============================================================================
