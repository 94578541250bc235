----------------------------- MODULE MCSsoTokens -----------------------------
(* Instance of SsoTokens for TLC; threads, and tokens, are interchangeable. *)
EXTENDS SsoTokens, TLC

Symmetry == Permutations(Token) \cup Permutations(Thread)
=============================================================================
