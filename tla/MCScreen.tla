------------------------------- MODULE MCScreen -------------------------------
(* The screen with one character that is printed, and what the handler of  *)
(* an unknown key prints.                                                  *)
EXTENDS Printing

CONSTANTS a

MCUnknown == <<LF, a>>
=============================================================================
