----------------------------- MODULE MCRedisLock ----------------------------
(* Instance of RedisLock for TLC.  Clients are interchangeable, which the   *)
(* run that checks no liveness uses.                                        *)
EXTENDS RedisLock, TLC

ClientSymmetry == Permutations(Client)
=============================================================================
