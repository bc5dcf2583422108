---------------------------- MODULE MCRingSynch ----------------------------
(* Finite instances of RingSynch for TLC: as many puts as gets.              *)
EXTENDS RingSynch

ASSUME BalancedAssumption == Cardinality(Producers) = Cardinality(Consumers)
=============================================================================
