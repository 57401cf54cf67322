------------------------------- MODULE MCShell -------------------------------
(***************************************************************************)
(* Shell on a screen of two short rows, with lines of up to three keys.    *)
(***************************************************************************)
EXTENDS Shell

PromptOfShell == <<">", " ">>

PrintedByOthers == {<<"x">>, <<"newline", "x">>}
==============================================================================
