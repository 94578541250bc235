------------------------ MODULE MCPessimisticSeckill ------------------------
(* Instance of PessimisticSeckill for TLC; with liveness, so no symmetry.   *)
EXTENDS PessimisticSeckill, TLC
=============================================================================
