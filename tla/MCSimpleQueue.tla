--------------------------- MODULE MCSimpleQueue ---------------------------
(* Instance of SimpleQueue for TLC; producers are interchangeable, and so   *)
(* are consumers.                                                           *)
EXTENDS SimpleQueue, TLC

ThreadSymmetry == Permutations(Producer) \cup Permutations(Consumer)
=============================================================================
