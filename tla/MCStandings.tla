---------------------------- MODULE MCStandings ----------------------------
(***************************************************************************)
(* A small instance of Standings.  Player ids are the numbers 1 and 2, in  *)
(* Redis's order; equal scores make ties.                                  *)
(***************************************************************************)
EXTENDS Standings
=============================================================================
