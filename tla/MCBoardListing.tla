-------------------------- MODULE MCBoardListing --------------------------
(***************************************************************************)
(* A small instance of BoardListing.  Two names and two keys, so that a    *)
(* key is reused with another name and candidate ids collide across keys;  *)
(* two callers, so that a creation is overtaken between its clock read and *)
(* its script.                                                             *)
(***************************************************************************)
EXTENDS BoardListing, TLC

Symmetry == Permutations(Players) \cup Permutations(Names)
                \cup Permutations(PlayerKeys) \cup Permutations(Callers)
=============================================================================
