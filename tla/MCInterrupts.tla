----------------------------- MODULE MCInterrupts -----------------------------
(* Processes have quanta of two ticks, the shortest that InitialContext   *)
(* allows with one tick in the window; kernel threads have one.            *)
EXTENDS Interrupts

MCPriority == [t \in Thread |-> IF t \in Process THEN 2 ELSE 1]
=============================================================================
