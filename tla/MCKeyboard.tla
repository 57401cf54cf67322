----------------------------- MODULE MCKeyboard ------------------------------
(***************************************************************************)
(* Keyboard with a buffer of a few cells, and counters that wrap around.   *)
(***************************************************************************)
EXTENDS Keyboard
==============================================================================
