-------------------------- MODULE MCCameraStreams --------------------------
EXTENDS CameraStreams, TLC
Symmetry == Permutations(Clients)
=============================================================================
