--------------------------- MODULE MCContextSwitch ---------------------------
(***************************************************************************)
(* ContextSwitch for a few tasks; two marks tell two rounds of computation *)
(* of one task apart.                                                      *)
(***************************************************************************)
EXTENDS ContextSwitch
==============================================================================
