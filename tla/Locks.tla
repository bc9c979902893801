-------------------------------- MODULE Locks --------------------------------
(***************************************************************************)
(* The spinlock and the sleeping lock of kernel/sync.c, lib/cas.S.  Each   *)
(* atomic action is one access to shared memory, so that a timer interrupt *)
(* can separate any two of them when the caller runs with interrupts on.   *)
(***************************************************************************)
EXTENDS Threads

CONSTANTS Lock,     \* the locks; a lock names its waiters list too
          Level     \* {"task"}, or {"task", "irq"} when handlers take locks

ASSUME LockAssumption == /\ Lock \subseteq WaitList
                         /\ "task" \in Level
                         /\ Level \subseteq {"task", "irq"}

VARIABLES holder,        \* lock->holder
          waitersLock,   \* lock->waitersLock.occupied, as a Boolean
          pc, ret,       \* next statement, and where the current call returns
          lk,            \* the lock argument of the current call
          thread         \* local of lockRelease: the waiter it popped

lockVars == <<holder, waitersLock>>
callVars == <<pc, ret, lk, thread>>

(***************************************************************************)
(* A context is a thread at task level or the interrupt handler running on *)
(* that thread's kernel stack; the handler has to return first.            *)
(***************************************************************************)
Ctx         == Thread \X Level
ThreadOf(c) == c[1]
InIrq(t)    == <<t, "irq">> \in Ctx /\ pc[<<t, "irq">>] # "idle"
Active(c)   == c[2] = "irq" \/ ~ InIrq(ThreadOf(c))

At(c, label) == /\ panic = "none"
                /\ ThreadOf(c) = cur
                /\ Active(c)
                /\ pc[c] = label

Goto(c, label) == pc' = [pc EXCEPT ![c] = label]

LocksInit == /\ holder = [l \in Lock |-> NULL]
             /\ waitersLock = [l \in Lock |-> FALSE]
             /\ pc = [c \in Ctx |-> IF c = <<Main, "task">> THEN "boot" ELSE "idle"]
             /\ ret = [c \in Ctx |-> "idle"]
             /\ lk \in [Ctx -> Lock] /\ \A c, d \in Ctx : lk[c] = lk[d]
             /\ thread = [c \in Ctx |-> NULL]

(* Call lockAcquire or lockRelease (f) on l, to come back to label r. *)
Call(c, f, l, r) == /\ Goto(c, f)
                    /\ lk' = [lk EXCEPT ![c] = l]
                    /\ ret' = [ret EXCEPT ![c] = r]

-----------------------------------------------------------------------------
(* Mutant: the holder is written without being compared. *)
CasNoCompare(c, won, lost) ==
  holder' = [holder EXCEPT ![lk[c]] = cur] /\ Goto(c, won)

(* compareAndSwap32(&lock->holder, NULL, threadCurrent()) *)
Cas(c, won, lost) ==
  IF holder[lk[c]] = NULL
  THEN holder' = [holder EXCEPT ![lk[c]] = cur] /\ Goto(c, won)
  ELSE UNCHANGED holder /\ Goto(c, lost)

(* Mutant: occupied is written without being compared. *)
SpinAcquireNoCompare(c, next) ==
  waitersLock' = [waitersLock EXCEPT ![lk[c]] = TRUE] /\ Goto(c, next)

(* spinlockAcquire: while it is occupied the caller only goes round the loop. *)
SpinAcquire(c, next) == /\ ~ waitersLock[lk[c]]
                        /\ waitersLock' = [waitersLock EXCEPT ![lk[c]] = TRUE]
                        /\ Goto(c, next)

SpinRelease(c) == waitersLock' = [waitersLock EXCEPT ![lk[c]] = FALSE]

AcquireTry(c) ==
  /\ At(c, "lockAcquire")
  /\ Cas(c, ret[c], "acquireSpin")
  /\ UNCHANGED <<schedVars, iflag, waitersLock, ret, lk, thread>>

AcquireSpin(c) ==
  /\ At(c, "acquireSpin")
  /\ SpinAcquire(c, "acquireAppend")
  /\ UNCHANGED <<schedVars, iflag, holder, ret, lk, thread>>

AcquireAppend(c) ==
  /\ At(c, "acquireAppend")
  /\ heap' = ListAppend(heap, lk[c], cur)
  /\ Goto(c, "acquireRecheck")
  /\ UNCHANGED <<status, cur, panic, iflag, lockVars, ret, lk, thread>>

(* Mutant: TASK_BLOCKED is set before interrupts are disabled. *)
AcquireRecheckEarly(c) ==
  /\ At(c, "acquireRecheck")
  /\ Cas(c, "acquireRemove", "acquireBlock")
  /\ status' = IF holder[lk[c]] = NULL THEN status
               ELSE [status EXCEPT ![cur] = "blocked"]
  /\ UNCHANGED <<heap, cur, panic, iflag, waitersLock, ret, lk, thread>>

AcquireRecheck(c) ==
  /\ At(c, "acquireRecheck")
  /\ Cas(c, "acquireRemove", "acquireBlock")
  /\ UNCHANGED <<schedVars, iflag, waitersLock, ret, lk, thread>>

AcquireRemove(c) ==
  /\ At(c, "acquireRemove")
  /\ heap' = ListRemove(heap, cur)
  /\ Goto(c, "acquireUnspin")
  /\ UNCHANGED <<status, cur, panic, iflag, lockVars, ret, lk, thread>>

AcquireUnspin(c) ==
  /\ At(c, "acquireUnspin")
  /\ SpinRelease(c)
  /\ Goto(c, ret[c])
  /\ UNCHANGED <<schedVars, iflag, holder, ret, lk, thread>>

(* Mutant: an if in place of the while; a woken thread assumes it has the lock. *)
AcquireBlockOnce(c) ==
  /\ At(c, "acquireBlock")
  /\ SpinRelease(c)
  /\ schedule(heap, [status EXCEPT ![cur] = "blocked"])
  /\ Goto(c, ret[c])
  /\ UNCHANGED <<iflag, holder, ret, lk, thread>>

(***************************************************************************)
(* intrDisable ... intrSetStatus(stat): the thread is blocked, the         *)
(* spinlock released and the CPU given up with interrupts off; when it is  *)
(* switched back to it has its own flag again and goes round the loop.     *)
(***************************************************************************)
AcquireBlock(c) ==
  /\ At(c, "acquireBlock")
  /\ SpinRelease(c)
  /\ schedule(heap, [status EXCEPT ![cur] = "blocked"])
  /\ Goto(c, "lockAcquire")
  /\ UNCHANGED <<iflag, holder, ret, lk, thread>>

lockAcquire(c) ==
  \/ AcquireTry(c) \/ AcquireSpin(c) \/ AcquireAppend(c) \/ AcquireRecheck(c)
  \/ AcquireRemove(c) \/ AcquireUnspin(c) \/ AcquireBlock(c)

-----------------------------------------------------------------------------
ReleaseClear(c) ==
  /\ At(c, "lockRelease")
  /\ IF holder[lk[c]] = cur
     THEN /\ holder' = [holder EXCEPT ![lk[c]] = NULL]
          /\ Goto(c, "releaseSpin")
          /\ UNCHANGED panic
     ELSE panic' = "notHolder" /\ UNCHANGED <<holder, pc>>
  /\ UNCHANGED <<heap, status, cur, iflag, waitersLock, ret, lk, thread>>

ReleaseSpin(c) ==
  /\ At(c, "releaseSpin")
  /\ SpinAcquire(c, "releasePop")
  /\ UNCHANGED <<schedVars, iflag, holder, ret, lk, thread>>

ReleasePop(c) ==
  LET first == ListFirst(heap, lk[c])
  IN  /\ At(c, "releasePop")
      /\ IF ListEmpty(heap, lk[c])
         THEN UNCHANGED <<heap, panic, thread>>
         ELSE IF first \notin Thread
         THEN panic' = "wild" /\ UNCHANGED <<heap, thread>>
         ELSE /\ heap' = ListPop(heap, lk[c])
              /\ thread' = [thread EXCEPT ![c] = first]
              /\ UNCHANGED panic
      /\ Goto(c, "releaseUnspin")
      /\ UNCHANGED <<status, cur, iflag, lockVars, ret, lk>>

(* Mutant: the popped waiter is not woken. *)
ReleaseUnspinNoWake(c) ==
  /\ At(c, "releaseUnspin")
  /\ SpinRelease(c)
  /\ Goto(c, ret[c])
  /\ UNCHANGED <<schedVars, iflag, holder, ret, lk, thread>>

ReleaseUnspin(c) ==
  /\ At(c, "releaseUnspin")
  /\ SpinRelease(c)
  /\ Goto(c, IF thread[c] = NULL THEN ret[c] ELSE "releaseWake")
  /\ UNCHANGED <<schedVars, iflag, holder, ret, lk, thread>>

(* The check of the status and threadUnblock, which disables interrupts, *)
(* in one step: a thread that was popped is woken by who popped it only, *)
(* and a preemption between the two is left out.                         *)
ReleaseWake(c) ==
  /\ At(c, "releaseWake")
  /\ IF status[thread[c]] = "blocked" THEN threadUnblock(thread[c])
                                      ELSE UNCHANGED schedVars
  /\ thread' = [thread EXCEPT ![c] = NULL]
  /\ Goto(c, ret[c])
  /\ UNCHANGED <<iflag, lockVars, ret, lk>>

lockRelease(c) ==
  ReleaseClear(c) \/ ReleaseSpin(c) \/ ReleasePop(c) \/ ReleaseUnspin(c)
  \/ ReleaseWake(c)

Timer == TimerPreempts /\ UNCHANGED <<lockVars, callVars>>

(* main() starts the other threads, in any order, and then executes sti. *)
Boot ==
  /\ At(<<Main, "task">>, "boot")
  /\ IF \E t \in Thread : status[t] = "unborn"
     THEN /\ \E t \in Thread : threadStart(t)
          /\ UNCHANGED <<pc, iflag>>
     ELSE /\ Goto(<<Main, "task">>, "idle")
          /\ iflag' = [iflag EXCEPT ![Main] = TRUE]
          /\ UNCHANGED schedVars
  /\ UNCHANGED <<lockVars, ret, lk, thread>>

-----------------------------------------------------------------------------
LockLabel == {"boot", "idle", "lockAcquire", "acquireSpin", "acquireAppend",
              "acquireRecheck", "acquireRemove", "acquireUnspin",
              "acquireBlock", "lockRelease", "releaseSpin", "releasePop",
              "releaseUnspin", "releaseWake"}

(* Program points inside the critical section of waitersLock. *)
Spinning == {"acquireAppend", "acquireRecheck", "acquireRemove",
             "acquireUnspin", "acquireBlock", "releasePop", "releaseUnspin"}

LocksTypeOK(labels) ==
  /\ ThreadsTypeOK
  /\ holder \in [Lock -> Thread \cup {NULL}]
  /\ waitersLock \in [Lock -> BOOLEAN]
  /\ pc \in [Ctx -> LockLabel \cup labels]
  /\ ret \in [Ctx -> LockLabel \cup labels]
  /\ lk \in [Ctx -> Lock]
  /\ thread \in [Ctx -> Thread \cup {NULL}]

(***************************************************************************)
(* lockRelease clears holder before it takes waitersLock, and lockAcquire  *)
(* tries holder again after it has queued itself: a thread that sleeps on  *)
(* a free lock has somebody coming who will take the lock or wake it.      *)
(***************************************************************************)
Coming(c, l) ==
  /\ lk[c] = l
  /\ \/ pc[c] \in {"acquireSpin", "acquireAppend", "acquireRecheck"}
     \/ pc[c] = "lockAcquire" /\ status[ThreadOf(c)] # "blocked"
     \/ pc[c] \in {"releaseSpin", "releasePop"}
     \/ pc[c] \in {"releaseUnspin", "releaseWake"} /\ thread[c] # NULL

NoLostWakeup ==
  panic = "none" =>
    \A l \in Lock, t \in Thread :
      holder[l] = NULL /\ OnList(t, l) /\ status[t] = "blocked"
        => \E c \in Ctx : Coming(c, l)

(***************************************************************************)
(* The lists and the statuses agree all along: no thread is lost from, or  *)
(* queued twice in, the lists of thread.c and sync.c.                      *)
(***************************************************************************)
ListsConsistent ==
  panic = "none" => ListsAgree({thread[c] : c \in Ctx} \ {NULL})
=============================================================================
