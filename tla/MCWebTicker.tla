---------------------------- MODULE MCWebTicker ----------------------------
(***************************************************************************)
(* A small instance of WebTicker: pages of two, and a list of three rows,  *)
(* so that a burst takes several polls and pushes rows out.                *)
(***************************************************************************)
EXTENDS WebTicker
=============================================================================
