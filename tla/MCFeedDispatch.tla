--------------------------- MODULE MCFeedDispatch ---------------------------
(* Instance of FeedDispatch for TLC: a good feed, one with an extension     *)
(* AMTU does not know, and one of unknown type that may be unreadable, too. *)
(* No symmetry, since a liveness property is checked.                       *)
EXTENDS FeedDispatch
=============================================================================
