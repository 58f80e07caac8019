--------------------------- MODULE MCWriteClients ---------------------------
EXTENDS WriteClients, TLC

Symmetry == Permutations(Clients)
=============================================================================
