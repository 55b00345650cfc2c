------------------------- MODULE MCCustomerRecords -------------------------
(* Two requests at a time, which no definition tells apart.                 *)
EXTENDS CustomerRecords, TLC

Symmetry == Permutations(Requests)
=============================================================================
