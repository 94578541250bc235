---------------------------- MODULE MCAdminTable ----------------------------
(* Instance of AdminTable for TLC; workers, and accounts, are              *)
(* interchangeable.                                                        *)
EXTENDS AdminTable, TLC

Symmetry == Permutations(Worker) \cup Permutations(Account)
=============================================================================
