----------------------------- MODULE BoundedFifo -----------------------------
(***************************************************************************)
(* What device/ioqueue.h promises its users: a first-in first-out queue of *)
(* bounded capacity that loses, invents and reorders nothing.              *)
(***************************************************************************)
EXTENDS Naturals, Sequences

CONSTANTS Char, Capacity, NULL

VARIABLES queue,   \* the characters in the queue
          taken    \* the character that left it last

Init == queue = <<>> /\ taken = NULL

Put == /\ Len(queue) < Capacity
       /\ \E ch \in Char : queue' = Append(queue, ch)
       /\ UNCHANGED taken

Get == /\ queue # <<>>
       /\ taken' = Head(queue)
       /\ queue' = Tail(queue)

Spec == Init /\ [][Put \/ Get]_<<queue, taken>>
=============================================================================
