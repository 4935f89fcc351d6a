------------------------ MODULE MCKeyboardBacklight -------------------------
(* KeyboardBacklight with small inputs for TLC. *)
EXTENDS KeyboardBacklight
=============================================================================
