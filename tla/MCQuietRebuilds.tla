-------------------------- MODULE MCQuietRebuilds --------------------------
EXTENDS QuietRebuilds, TLC

Symmetry == Permutations(Players) \cup Permutations(Admins)
=============================================================================
