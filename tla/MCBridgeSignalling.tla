------------------------- MODULE MCBridgeSignalling -------------------------
EXTENDS BridgeSignalling, TLC

Symmetry == Permutations(Conns)
=============================================================================
