--------------------------- MODULE MCTableInsert ---------------------------
(***************************************************************************)
(* An instance of TableInsert for TLC; clients are interchangeable.        *)
(***************************************************************************)
EXTENDS TableInsert, TLC

LoadedBatch == <<<<"loaded">>>>

Symmetry == Permutations(Clients)
=============================================================================
