---------------------------- MODULE MCServerPool ----------------------------
EXTENDS ServerPool, TLC
Symmetry == Permutations(Servers)
=============================================================================
