---------------------------- MODULE MCTCPListener ----------------------------
EXTENDS TCPListener, TLC
Symmetry == Permutations(Fds) \cup Permutations(Servers)
=============================================================================
