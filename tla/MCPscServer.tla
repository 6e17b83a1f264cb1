---------------------------- MODULE MCPscServer -----------------------------
EXTENDS PscServer, TLC
Symmetry == Permutations(Conns)
=============================================================================
