-------------------------- MODULE MCServerProcess --------------------------
(***************************************************************************)
(* A small instance of ServerProcess.  Two requests of two addresses meet  *)
(* a table of one entry; 1/rps is a second and a half of two-tick seconds; *)
(* the consumers park equally long, as DefaultBlockDuration is all there   *)
(* is in the code.                                                         *)
(***************************************************************************)
EXTENDS ServerProcess, TLC

MCBlockDuration == [c \in Consumers |-> 1]

Symmetry == Permutations(Requests) \cup Permutations(Addresses) \cup Permutations(Consumers)
=============================================================================
