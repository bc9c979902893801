------------------------------- MODULE Threads -------------------------------
(***************************************************************************)
(* kernel/thread.c, kernel/switch.S and the timer interrupt: one CPU, its  *)
(* interrupt flag, the ready list and the three operations that move a     *)
(* thread between the CPU and the lists (schedule, threadUnblock and the   *)
(* preemption by intrTimerHandler).                                        *)
(*                                                                         *)
(* Everything the code does with interrupts off, up to the next schedule,  *)
(* is one step: no other thread can run in between.  What it does with     *)
(* interrupts on is split into steps, and Timer may come between any two.  *)
(***************************************************************************)
EXTENDS List

CONSTANTS Thread,            \* the threads created at boot, main included
          Main,              \* the boot thread: it only ever spins in main()
          threadReadyList,   \* the ready list
          WaitList           \* the waiters lists of locks and conditions

ASSUME ThreadAssumption ==
  /\ Main \in Thread
  /\ threadReadyList \notin WaitList
  /\ IsFiniteSet(Thread) /\ IsFiniteSet(WaitList)
  /\ NULL \notin Thread
  /\ Sentinels({threadReadyList} \cup WaitList) \cap (Thread \cup {NULL}) = {}

VARIABLES heap,     \* the prev and next pointers of every list node
          status,   \* status of each taskStruct
          cur,      \* threadCurrent(), the thread on the CPU
          iflag,    \* EFLAGS.IF of each thread: live if it is on the CPU,
                    \* else what it runs with once switched back to
          panic     \* "none", or why the kernel stopped

schedVars == <<heap, status, cur, panic>>

ListId == {threadReadyList} \cup WaitList
Node   == Thread \cup Sentinels(ListId)
Status == {"unborn", "running", "ready", "blocked"}

(***************************************************************************)
(* The ASSERTs that can fail (they are compiled in: debug.h arms them when *)
(* NDEBUG is defined, and the Makefile defines it), and "wild" for the     *)
(* moment the kernel starts to treat something else as a taskStruct or a   *)
(* list node.  panicSpin disables interrupts and spins: the system stops.  *)
(***************************************************************************)
Reason == {"alreadyReady", "readyListEmpty", "notBlocked", "notHolder", "wild"}

-----------------------------------------------------------------------------
(* threadSupportInit: the boot thread runs with interrupts off, alone. *)
ThreadsInit ==
  /\ heap = ListInit(ListId, Thread)
  /\ cur = Main
  /\ status = [t \in Thread |-> IF t = Main THEN "running" ELSE "unborn"]
  /\ iflag = [t \in Thread |-> t # Main]
  /\ panic = "none"

(* A traversal by listExist that neither finds the node nor reaches the    *)
(* tail: it comes to a null pointer or goes round for ever.                *)
Stray(h, L, node) ==
  LET cursor == ListWalk(h, L)
  IN  \/ ListFirst(h, L) = NULL
      \/ ~ \E i \in DOMAIN cursor : cursor[i] \in {node, TailOf(L)}

(***************************************************************************)
(* schedule(), entered with the lists h and the statuses st.  A thread     *)
(* that is still TASK_RUNNING goes to the tail of the ready list; the head *)
(* of the list gets the CPU, whatever its status was.                      *)
(***************************************************************************)
schedule(h, st) ==
  LET yields == st[cur] = "running"
      h1     == IF yields THEN ListAppend(h, threadReadyList, cur) ELSE h
      next   == ListFirst(h1, threadReadyList)
      fault  == IF yields /\ ListExist(h, threadReadyList, cur)
                THEN "alreadyReady"
                ELSE IF yields /\ Stray(h, threadReadyList, cur) THEN "wild"
                ELSE IF ListEmpty(h1, threadReadyList) THEN "readyListEmpty"
                ELSE IF next \notin Thread THEN "wild" ELSE "none"
      st1    == IF yields THEN [st EXCEPT ![cur] = "ready"] ELSE st
  IN  /\ panic' = fault
      /\ heap' = IF fault = "none" THEN ListRemove(h1, next) ELSE h
      /\ status' = IF fault = "none" THEN [st1 EXCEPT ![next] = "running"]
                                     ELSE st
      /\ cur' = IF fault = "none" THEN next ELSE cur

(* threadStart and processExecute: a new thread, at the tail of the ready   *)
(* list; kernelThread will turn interrupts on when it first runs.          *)
threadStart(t) ==
  LET fault == IF ListExist(heap, threadReadyList, t) THEN "alreadyReady"
               ELSE "none"
  IN  /\ status[t] = "unborn"
      /\ panic' = fault
      /\ heap' = IF fault = "none" THEN ListAppend(heap, threadReadyList, t)
                                   ELSE heap
      /\ status' = [status EXCEPT ![t] = "ready"]
      /\ cur' = cur

(* threadUnblock(p): the woken thread goes to the head of the ready list. *)
threadUnblock(p) ==
  LET fault == IF status[p] # "blocked" THEN "notBlocked"
               ELSE IF ListExist(heap, threadReadyList, p) THEN "alreadyReady"
               ELSE IF Stray(heap, threadReadyList, p) THEN "wild" ELSE "none"
  IN  /\ panic' = fault
      /\ heap' = IF fault = "none" THEN ListPush(heap, threadReadyList, p)
                                   ELSE heap
      /\ status' = IF fault = "none" THEN [status EXCEPT ![p] = "ready"]
                                     ELSE status
      /\ cur' = cur

(***************************************************************************)
(* intrTimerHandler in the step where the quantum is used up.  The other   *)
(* timer interrupts only count ticks; since nothing says how much code     *)
(* runs between two of them, preemption may come at any point.             *)
(***************************************************************************)
TimerPreempts == /\ panic = "none"
                 /\ iflag[cur]
                 /\ schedule(heap, status)
                 /\ UNCHANGED iflag

-----------------------------------------------------------------------------
HeapOK(h) == /\ h.next \in [Node -> Node \cup {NULL}]
             /\ h.prev \in [Node -> Node \cup {NULL}]

ThreadsTypeOK == /\ HeapOK(heap)
                 /\ status \in [Thread -> Status]
                 /\ cur \in Thread
                 /\ iflag \in [Thread -> BOOLEAN]
                 /\ panic \in Reason \cup {"none"}

(***************************************************************************)
(* A thread that can be interrupted is TASK_RUNNING.  threadSetStatus and  *)
(* schedule are two calls; were a timer interrupt to come between them,    *)
(* schedule would drop the thread from the ready list for ever.            *)
(***************************************************************************)
InterruptibleIsRunning == panic = "none" /\ iflag[cur] => status[cur] = "running"

(***************************************************************************)
(* The lists agree with the statuses: every list is well formed and no     *)
(* thread is on two; the ready list holds exactly the ready threads; a     *)
(* blocked thread is on a waiters list unless its waker has just popped it *)
(* (wakers); only the thread on the CPU is running.                        *)
(***************************************************************************)
OnList(t, L) == ListExist(heap, L, t)

ListsAgree(wakers) ==
  /\ \A L \in ListId : ListWellFormed(heap, L)
  /\ \A t \in Thread :
       /\ Cardinality({L \in ListId : OnList(t, L)}) <= 1
       /\ status[t] = "ready" <=> OnList(t, threadReadyList)
       /\ status[t] = "blocked" =>
            t \in wakers \/ \E L \in WaitList : OnList(t, L)
       /\ status[t] = "running" => t = cur
=============================================================================
