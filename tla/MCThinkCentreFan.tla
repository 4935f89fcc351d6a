-------------------------- MODULE MCThinkCentreFan --------------------------
(* ThinkCentreFan with small inputs for TLC. *)
EXTENDS ThinkCentreFan
=============================================================================
