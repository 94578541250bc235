------------------------- MODULE MCSubmissionQueue -------------------------
(* Instance of SubmissionQueue for TLC; the .cfg files give the sizes.      *)
EXTENDS SubmissionQueue
=============================================================================
