------------------------------ MODULE Scheduler ------------------------------
(***************************************************************************)
(* The scheduler as the other modules see it, with nothing below: threads  *)
(* that have an interrupt flag each, sleep and wake each other, and a      *)
(* timer that takes the CPU from whoever has its flag set.                 *)
(***************************************************************************)
EXTENDS Threads

vars == <<schedVars, iflag>>

Start == /\ cur = Main
         /\ ~ iflag[Main]
         /\ \E t \in Thread : threadStart(t)
         /\ UNCHANGED iflag

Sleep == /\ schedule(heap, [status EXCEPT ![cur] = "blocked"])
         /\ UNCHANGED iflag

Wake == /\ \E p \in Thread : threadUnblock(p)
        /\ UNCHANGED iflag

(* Nobody changes the flag of another thread. *)
SetFlag == /\ iflag' = [iflag EXCEPT ![cur] = ~ @]
           /\ UNCHANGED schedVars

Next == Start \/ Sleep \/ Wake \/ SetFlag \/ TimerPreempts

Spec == ThreadsInit /\ [][Next]_vars
=============================================================================
