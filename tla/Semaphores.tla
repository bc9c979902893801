------------------------------ MODULE Semaphores ------------------------------
(***************************************************************************)
(* The semaphores of kernel/sync.c: a value with a lock and a condition.   *)
(* Threads call semaphoreDown and semaphoreUp with interrupts off, as from *)
(* a system call, or, those not in Process, with interrupts on.            *)
(***************************************************************************)
EXTENDS Conditions

CONSTANTS semLock, semCond,
          Process,      \* the threads that call with interrupts off
          Initial,      \* value at semaphoreInit
          MaxValue      \* bound: semaphoreUp is not called beyond it

ASSUME SemaphoresAssumption == /\ Lock = {semLock}
                               /\ Condition = {semCond}
                               /\ Level = {"task"}
                               /\ Process \subseteq Thread \ {Main}
                               /\ Initial \in 0 .. MaxValue

VARIABLE value

vars == <<schedVars, iflag, lockVars, callVars, condVars, value>>

Task(t) == <<t, "task">>

-----------------------------------------------------------------------------
Init == /\ ThreadsInit
        /\ LocksInit
        /\ ConditionsInit
        /\ value = Initial

Enter(t, label) ==
  /\ At(Task(t), "idle")
  /\ iflag' = [iflag EXCEPT ![t] = t \notin Process]
  /\ Call(Task(t), "lockAcquire", semLock, label)
  /\ UNCHANGED <<schedVars, lockVars, thread, condVars, value>>

semaphoreDown(t) == Enter(t, "downLoop")

(* Upward calls that are under way count towards the bound. *)
Raising == {c \in Ctx : "upAdd" \in {pc[c], ret[c]}}

semaphoreUp(t) == /\ value + Cardinality(Raising) < MaxValue
                  /\ Enter(t, "upAdd")

(* Mutant: an if in place of the while around conditionWait. *)
DownLoopOnce(c) ==
  /\ At(c, "downLoop")
  /\ IF value = 0
     THEN conditionWait(c, semCond, "downTake")
     ELSE /\ Goto(c, "downTake")
          /\ UNCHANGED <<schedVars, iflag, lockVars, ret, lk, thread, condVars>>
  /\ UNCHANGED value

DownLoop(c) ==
  /\ At(c, "downLoop")
  /\ IF value = 0
     THEN conditionWait(c, semCond, "downLoop")
     ELSE /\ Goto(c, "downTake")
          /\ UNCHANGED <<schedVars, iflag, lockVars, ret, lk, thread, condVars>>
  /\ UNCHANGED value

DownTake(c) ==
  /\ At(c, "downTake")
  /\ value' = value - 1
  /\ Goto(c, "release")
  /\ UNCHANGED <<schedVars, iflag, lockVars, ret, lk, thread, condVars>>

UpAdd(c) ==
  /\ At(c, "upAdd")
  /\ value' = value + 1
  /\ Goto(c, "upSignal")
  /\ UNCHANGED <<schedVars, iflag, lockVars, ret, lk, thread, condVars>>

(* Mutant: a waiter is woken only if the value was 0. *)
UpSignalFromZero(c) ==
  /\ At(c, "upSignal")
  /\ IF value = 1 THEN conditionSignal(c, semCond, "release")
     ELSE /\ Goto(c, "release")
          /\ UNCHANGED <<schedVars, iflag, lockVars, ret, lk, thread, condVars>>
  /\ UNCHANGED value

UpSignal(c) == /\ At(c, "upSignal")
               /\ conditionSignal(c, semCond, "release")
               /\ UNCHANGED value

Release(c) == /\ At(c, "release")
              /\ Call(c, "lockRelease", semLock, "return")
              /\ UNCHANGED <<schedVars, iflag, lockVars, thread, condVars, value>>

(* The caller's flag is restored; the locals of the call are gone. *)
Return(c) == /\ At(c, "return")
             /\ iflag' = [iflag EXCEPT ![cur] = TRUE]
             /\ Goto(c, "idle")
             /\ ret' = [ret EXCEPT ![c] = "idle"]
             /\ back' = [back EXCEPT ![c] = "idle"]
             /\ oldStatus' = [oldStatus EXCEPT ![c] = TRUE]
             /\ UNCHANGED <<schedVars, lockVars, lk, thread, value>>

Tick     == Timer /\ UNCHANGED <<condVars, value>>
BootStep == Boot /\ UNCHANGED <<condVars, value>>

Step(c) == \/ SyncStep(c) /\ UNCHANGED value
           \/ DownLoop(c) \/ DownTake(c) \/ UpAdd(c) \/ UpSignal(c)
           \/ Release(c) \/ Return(c)

Next == \/ BootStep \/ Tick
        \/ \E t \in Thread \ {Main} : semaphoreDown(t) \/ semaphoreUp(t)
        \/ \E c \in Ctx : Step(c)

Spec == Init /\ [][Next]_vars

-----------------------------------------------------------------------------
(***************************************************************************)
(* The value is a counting semaphore: woken threads that race for the lock *)
(* with others, which may have taken the unit they were woken for, never   *)
(* bring it below zero.                                                    *)
(***************************************************************************)
Counter == INSTANCE Semaphore
ImplementsSemaphore == Counter!Spec

(***************************************************************************)
(* No unit is left lying about: while a thread is queued on the condition, *)
(* as many others as there are units are still to take one, awake or       *)
(* queued on the lock, or about to signal.  There is one signal for every  *)
(* semaphoreUp, so that n units wake n waiters.                            *)
(***************************************************************************)
Ahead == {c \in Ctx : \/ pc[c] = "upSignal"
                      \/ /\ ret[c] \in {"waitReturn", "downLoop"}
                         /\ pc[c] # "release"
                         /\ ~ OnList(ThreadOf(c), semCond)}

NoUnitForgotten ==
  panic = "none" /\ ~ ListEmpty(heap, semCond) => Cardinality(Ahead) >= value

(***************************************************************************)
(* The linked lists with their stale pointers are queues: waiters of the   *)
(* lock and of the condition are served in order, and of the ready threads *)
(* only one that was just woken is put first.                              *)
(***************************************************************************)
InOrder == INSTANCE Queues
            WITH Queue <- ListId, Ready <- threadReadyList, Member <- Thread,
                 queue <- [L \in ListId |-> ListContents(heap, L)]
ImplementsQueues == InOrder!Spec
=============================================================================
