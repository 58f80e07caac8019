--------------------------- MODULE MCScoreWrites ---------------------------
(***************************************************************************)
(* A small instance of ScoreWrites.  MaxScore = 3 with amounts -2, 2 and 3 *)
(* makes both ends of the range reachable by two increments.               *)
(***************************************************************************)
EXTENDS ScoreWrites, TLC

MCAmounts == {-2, 2, 3}
Symmetry == Permutations(Players) \cup Permutations(Boards)
=============================================================================
