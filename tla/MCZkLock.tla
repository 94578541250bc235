------------------------------ MODULE MCZkLock ------------------------------
(* Instance of ZkLock for TLC.  Clients differ in no way, so their          *)
(* permutations are a symmetry, used by the run that checks no liveness.    *)
EXTENDS ZkLock, TLC

ClientSymmetry == Permutations(Client)
=============================================================================
