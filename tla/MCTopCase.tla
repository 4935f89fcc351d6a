----------------------------- MODULE MCTopCase ------------------------------
(* TopCase with small inputs for TLC. *)
EXTENDS TopCase
=============================================================================
