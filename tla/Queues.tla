------------------------------- MODULE Queues -------------------------------
(***************************************************************************)
(* What thread.c and sync.c use their lists for: every list is a queue of  *)
(* threads, and a thread waits in one queue at most.  Waiters leave in the *)
(* order in which they came.  The ready queue goes round robin, but a      *)
(* thread that was just woken goes first.                                  *)
(***************************************************************************)
EXTENDS Sequences, SequencesExt

CONSTANTS Queue, Ready, Member

VARIABLE queue

Queued(t) == \E Q \in Queue : t \in ToSet(queue[Q])

Init == queue = [Q \in Queue |-> <<>>]

(* The ways in which a queue may change, from old to new. *)
Enter(old, new, t)  == new = Append(old, t) /\ ~ Queued(t)
Leave(old, new)     == old # <<>> /\ new = Tail(old)

(* A waiter that finds the lock free after all is not served by anybody. *)
GiveUp(old, new, t) == t \in ToSet(old) /\ new = Remove(old, t)

(* Only for the ready queue: a thread that was woken goes first; the thread *)
(* on the CPU makes room for the one that has waited longest.              *)
GoFirst(old, new, t) == new = <<t>> \o old /\ ~ Queued(t)
Yield(old, new, t)   == new = Tail(Append(old, t)) /\ ~ Queued(t)

Change(Q) ==
  LET old == queue[Q]
      new == queue'[Q]
  IN  /\ \/ Leave(old, new)
         \/ \E t \in Member :
              \/ Enter(old, new, t)
              \/ Q # Ready /\ GiveUp(old, new, t)
              \/ Q = Ready /\ (GoFirst(old, new, t) \/ Yield(old, new, t))
      /\ queue' = [queue EXCEPT ![Q] = new]

Next == \E Q \in Queue : Change(Q)

Spec == Init /\ [][Next]_queue
=============================================================================
