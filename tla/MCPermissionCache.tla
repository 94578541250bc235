-------------------------- MODULE MCPermissionCache --------------------------
(* Instance of PermissionCache for TLC; tokens, and requests, are           *)
(* interchangeable.                                                         *)
EXTENDS PermissionCache, TLC

Symmetry == Permutations(Token) \cup Permutations(Request)
=============================================================================
