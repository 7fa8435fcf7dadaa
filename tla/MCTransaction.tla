--------------------------- MODULE MCTransaction ---------------------------
(***************************************************************************)
(* Transaction with several interchangeable clients, for TLC.              *)
(***************************************************************************)
EXTENDS Transaction, TLC

Symmetry == Permutations(Clients)
=============================================================================
