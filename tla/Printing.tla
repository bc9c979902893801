------------------------------- MODULE Printing -------------------------------
(***************************************************************************)
(* What is printed and what it is printed on: the screen, and next to it   *)
(* the functions of string.c and stdio.c that make up the text.  These     *)
(* have no state; what they promise is a constant formula, said here in    *)
(* the states of the screen so that it is checked together with them.      *)
(***************************************************************************)
EXTENDS Screen, Stdio

(* The functions of string.c do what their comments say: StringsRight. *)
StringsKept == fault = "none" => StringsRight

(* vsprintf writes what the format and its arguments say, and itoa and *)
(* putint the numeral of each number: FormatRight and NumbersRight.     *)
FormatKept == fault = "none" => NumbersRight /\ FormatRight
=============================================================================
