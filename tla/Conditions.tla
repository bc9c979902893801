------------------------------ MODULE Conditions ------------------------------
(***************************************************************************)
(* The condition variables of kernel/sync.c.  conditionWait turns          *)
(* interrupts off before it queues itself and restores the caller's flag   *)
(* after it has the lock back; in between it goes through lockRelease,     *)
(* schedule and lockAcquire.  A condition is its waiters list.             *)
(***************************************************************************)
EXTENDS Locks

CONSTANT Condition

ASSUME ConditionAssumption == /\ Condition \subseteq WaitList
                              /\ Condition \cap Lock = {}

VARIABLES back,        \* label the current conditionWait or Signal returns to
          oldStatus    \* local of conditionWait: the caller's interrupt flag

condVars == <<back, oldStatus>>

ConditionsInit == /\ back = [c \in Ctx |-> "idle"]
                  /\ oldStatus = [c \in Ctx |-> TRUE]

-----------------------------------------------------------------------------
(* The entry of conditionWait, on the lock of the caller's last call. *)
conditionWait(c, cond, r) ==
  /\ oldStatus' = [oldStatus EXCEPT ![c] = iflag[cur]]
  /\ iflag' = [iflag EXCEPT ![cur] = FALSE]
  /\ heap' = ListAppend(heap, cond, cur)
  /\ status' = [status EXCEPT ![cur] = "blocked"]
  /\ back' = [back EXCEPT ![c] = r]
  /\ Call(c, "lockRelease", lk[c], "waitSchedule")
  /\ UNCHANGED <<cur, panic, lockVars, thread>>

(* Mutant: the lock is not taken again. *)
WaitScheduleNoLock(c) ==
  /\ At(c, "waitSchedule")
  /\ schedule(heap, status)
  /\ Goto(c, "waitReturn")
  /\ UNCHANGED <<iflag, lockVars, ret, lk, thread, condVars>>

WaitSchedule(c) ==
  /\ At(c, "waitSchedule")
  /\ schedule(heap, status)
  /\ Call(c, "lockAcquire", lk[c], "waitReturn")
  /\ UNCHANGED <<iflag, lockVars, thread, condVars>>

WaitReturn(c) ==
  /\ At(c, "waitReturn")
  /\ iflag' = [iflag EXCEPT ![cur] = oldStatus[c]]
  /\ Goto(c, back[c])
  /\ UNCHANGED <<schedVars, lockVars, ret, lk, thread, condVars>>

(* conditionSignal: take the first waiter off, if any, then unblock it. *)
conditionSignal(c, cond, r) ==
  LET first == ListFirst(heap, cond)
  IN  /\ back' = [back EXCEPT ![c] = r]
      /\ IF ListEmpty(heap, cond)
         THEN Goto(c, r) /\ UNCHANGED <<heap, panic, thread>>
         ELSE IF first \notin Thread
         THEN panic' = "wild" /\ UNCHANGED <<heap, thread, pc>>
         ELSE /\ heap' = ListPop(heap, cond)
              /\ thread' = [thread EXCEPT ![c] = first]
              /\ Goto(c, "signalWake")
              /\ UNCHANGED panic
      /\ UNCHANGED <<status, cur, iflag, lockVars, ret, lk, oldStatus>>

SignalWake(c) ==
  /\ At(c, "signalWake")
  /\ threadUnblock(thread[c])
  /\ thread' = [thread EXCEPT ![c] = NULL]
  /\ Goto(c, back[c])
  /\ UNCHANGED <<iflag, lockVars, ret, lk, condVars>>

(* The steps of sync.c that do not belong to a particular caller. *)
SyncStep(c) == \/ (lockAcquire(c) \/ lockRelease(c)) /\ UNCHANGED condVars
               \/ WaitSchedule(c) \/ WaitReturn(c) \/ SignalWake(c)
===============================================================================
