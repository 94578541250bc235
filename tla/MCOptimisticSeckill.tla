------------------------- MODULE MCOptimisticSeckill ------------------------
(* Instance of OptimisticSeckill for TLC; with liveness, so no symmetry.    *)
EXTENDS OptimisticSeckill, TLC
=============================================================================
