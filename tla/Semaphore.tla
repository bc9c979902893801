------------------------------ MODULE Semaphore ------------------------------
(***************************************************************************)
(* What the comments on semaphoreDown and semaphoreUp promise: a count     *)
(* that Up adds to and Down takes from, and that is never below zero.      *)
(***************************************************************************)
EXTENDS Naturals

CONSTANT Initial

VARIABLE value

Init == value = Initial
Up   == value' = value + 1
Down == value > 0 /\ value' = value - 1

Spec == Init /\ [][Up \/ Down]_value
=============================================================================
