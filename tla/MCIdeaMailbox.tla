--------------------------- MODULE MCIdeaMailbox ----------------------------
(* IdeaMailbox with small inputs for TLC. *)
EXTENDS IdeaMailbox
=============================================================================
