------------------------- MODULE MCProjectionAdmin -------------------------
(***************************************************************************)
(* Small instances of ProjectionAdmin.  Whether a board is closed makes no *)
(* difference to rebuild and verify, only to the writes, which a closed    *)
(* board turns down: BoardsStayOpen leaves out what follows a closure.     *)
(***************************************************************************)
EXTENDS ProjectionAdmin, TLC

MCAmounts == {1, 2}
Symmetry == Permutations(Players) \cup Permutations(Boards) \cup Permutations(Admins)

BoardsStayOpen == \A b \in Boards : boardState[b] # "closed"
=============================================================================
