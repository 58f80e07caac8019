----------------------------- MODULE MCWebTable -----------------------------
(***************************************************************************)
(* A small instance of WebTable.                                           *)
(***************************************************************************)
EXTENDS WebTable, TLC

Symmetry == Permutations(Boards) \cup Permutations(Players)
=============================================================================
