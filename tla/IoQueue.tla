------------------------------- MODULE IoQueue -------------------------------
(***************************************************************************)
(* device/ioqueue.c as it is used: the keyboard interrupt handler is the   *)
(* only producer and runs in the context of whatever thread it interrupts, *)
(* main included; threads call ioqueueGetchar, either with interrupts on   *)
(* (kernel threads) or behind the interrupt gate of int 0x80.              *)
(***************************************************************************)
EXTENDS Conditions, Sequences

CONSTANTS ioqLock, condNotEmpty, condNotFull,
          Consumer,      \* the threads that read the queue
          Process,       \* those of them that read it with interrupts off
          Char,          \* characters
          BUFSIZE,       \* slots of the ring
          Outstanding    \* bound: keys pressed and not yet read

ASSUME IoQueueAssumption == /\ Lock = {ioqLock}
                            /\ Condition = {condNotEmpty, condNotFull}
                            /\ condNotEmpty # condNotFull
                            /\ Level = {"task", "irq"}
                            /\ Consumer \subseteq Thread \ {Main}
                            /\ Process \subseteq Consumer
                            /\ NULL \notin Char
                            /\ BUFSIZE \in Nat \ {0, 1}
                            /\ Outstanding \in Nat

VARIABLES buf, head, tail,
          ch,       \* the argument of ioqueuePutchar, the result of Getchar
          taken     \* history: the character that left the ring last

ringVars == <<buf, head, tail>>
ioqVars  == <<ringVars, ch, taken>>
vars     == <<schedVars, iflag, lockVars, callVars, condVars, ioqVars>>

Task(t) == <<t, "task">>
Irq(t)  == <<t, "irq">>

(* Mutant: no wrap-around in the test. *)
FullNoWrap == tail + 1 = head

nextPos(pos) == (pos + 1) % BUFSIZE
Full         == nextPos(tail) = head
Empty        == tail = head
Length       == (tail - head + BUFSIZE) % BUFSIZE

(* Keys that some handler still has to put into the ring. *)
Waiting == {t \in Thread : pc[Irq(t)] # "idle" /\ ch[Irq(t)] # NULL}

-----------------------------------------------------------------------------
Init == /\ ThreadsInit
        /\ LocksInit
        /\ ConditionsInit
        /\ buf = [i \in 0 .. BUFSIZE - 1 |-> NULL]
        /\ head = 0 /\ tail = 0
        /\ ch = [c \in Ctx |-> NULL]
        /\ taken = NULL

(* ioqueueGetchar, called by thread t. *)
Getchar(t) ==
  /\ At(Task(t), "idle")
  /\ iflag' = [iflag EXCEPT ![t] = t \notin Process]
  /\ Call(Task(t), "lockAcquire", ioqLock, "getLoop")
  /\ UNCHANGED <<schedVars, lockVars, thread, condVars, ioqVars>>

GetLoop(c) ==
  /\ At(c, "getLoop")
  /\ IF Empty
     THEN conditionWait(c, condNotEmpty, "getLoop") /\ UNCHANGED ch
     ELSE /\ ch' = [ch EXCEPT ![c] = buf[head]]
          /\ Goto(c, "getAdvance")
          /\ UNCHANGED <<schedVars, iflag, lockVars, ret, lk, thread, condVars>>
  /\ UNCHANGED <<ringVars, taken>>

GetAdvance(c) ==
  /\ At(c, "getAdvance")
  /\ head' = nextPos(head)
  /\ taken' = ch[c]
  /\ ch' = [ch EXCEPT ![c] = NULL]
  /\ Goto(c, "getSignal")
  /\ UNCHANGED <<schedVars, iflag, lockVars, ret, lk, thread, condVars,
                 buf, tail>>

GetSignal(c) == /\ At(c, "getSignal")
                /\ conditionSignal(c, condNotFull, "release")
                /\ UNCHANGED ioqVars

(* The keyboard interrupt, for a key with a character. *)
KeyPress ==
  /\ At(Irq(cur), "idle")
  /\ iflag[cur]
  /\ Length + Cardinality(Waiting) < Outstanding
  /\ iflag' = [iflag EXCEPT ![cur] = FALSE]
  /\ \E k \in Char : ch' = [ch EXCEPT ![Irq(cur)] = k]
  /\ Call(Irq(cur), "lockAcquire", ioqLock, "putLoop")
  /\ UNCHANGED <<schedVars, lockVars, thread, condVars, ringVars, taken>>

PutLoop(c) ==
  /\ At(c, "putLoop")
  /\ IF Full
     THEN conditionWait(c, condNotFull, "putLoop") /\ UNCHANGED buf
     ELSE /\ buf' = [buf EXCEPT ![tail] = ch[c]]
          /\ Goto(c, "putAdvance")
          /\ UNCHANGED <<schedVars, iflag, lockVars, ret, lk, thread, condVars>>
  /\ UNCHANGED <<head, tail, ch, taken>>

PutAdvance(c) ==
  /\ At(c, "putAdvance")
  /\ tail' = nextPos(tail)
  /\ ch' = [ch EXCEPT ![c] = NULL]
  /\ Goto(c, "putSignal")
  /\ UNCHANGED <<schedVars, iflag, lockVars, ret, lk, thread, condVars,
                 buf, head, taken>>

(* Mutants: signals only if the ring was empty; signals the other condition. *)
PutSignalIfFirst(c) ==
  /\ At(c, "putSignal")
  /\ IF Length = 1 THEN conditionSignal(c, condNotEmpty, "release")
     ELSE Goto(c, "release")
          /\ UNCHANGED <<schedVars, iflag, lockVars, ret, lk, thread, condVars>>
  /\ UNCHANGED ioqVars

PutSignalOther(c) == /\ At(c, "putSignal")
                     /\ conditionSignal(c, condNotFull, "release")
                     /\ UNCHANGED ioqVars

PutSignal(c) == /\ At(c, "putSignal")
                /\ conditionSignal(c, condNotEmpty, "release")
                /\ UNCHANGED ioqVars

(* Mutant: a return without lockRelease. *)
ReleaseForgotten(c) ==
  /\ At(c, "release")
  /\ Goto(c, "return")
  /\ UNCHANGED <<schedVars, iflag, lockVars, ret, lk, thread, condVars, ioqVars>>

(* Both ends leave through lockRelease.  iretd restores the flag; the      *)
(* frame and with it the locals of the call are gone.                      *)
Release(c) == /\ At(c, "release")
              /\ Call(c, "lockRelease", ioqLock, "return")
              /\ UNCHANGED <<schedVars, iflag, lockVars, thread, condVars, ioqVars>>

Return(c) == /\ At(c, "return")
             /\ iflag' = [iflag EXCEPT ![cur] = TRUE]
             /\ Goto(c, "idle")
             /\ ret' = [ret EXCEPT ![c] = "idle"]
             /\ back' = [back EXCEPT ![c] = "idle"]
             /\ oldStatus' = [oldStatus EXCEPT ![c] = TRUE]
             /\ UNCHANGED <<schedVars, lockVars, lk, thread, ioqVars>>

Tick == Timer /\ UNCHANGED <<condVars, ioqVars>>

BootStep == Boot /\ UNCHANGED <<condVars, ioqVars>>

Step(c) == \/ SyncStep(c) /\ UNCHANGED ioqVars
           \/ GetLoop(c) \/ GetAdvance(c) \/ GetSignal(c)
           \/ PutLoop(c) \/ PutAdvance(c) \/ PutSignal(c)
           \/ Release(c) \/ Return(c)

Next == \/ BootStep \/ Tick \/ KeyPress
        \/ \E t \in Consumer : Getchar(t)
        \/ \E c \in Ctx : Step(c)

Spec == Init /\ [][Next]_vars

(***************************************************************************)
(* Code with interrupts off runs on.  A consumer keeps reading, and since  *)
(* a quantum lasts many instructions it gets to its call however often it  *)
(* is preempted before.  The PIC latches a timer interrupt that comes with *)
(* interrupts off and delivers it when they are on again, however short    *)
(* that is.  Nobody has to press a key.                                    *)
(***************************************************************************)
Fairness == /\ WF_vars(BootStep)
            /\ WF_vars(\E c \in Ctx : Step(c))
            /\ \A t \in Consumer : SF_vars(Getchar(t))
            /\ SF_vars(Tick)

FairSpec == Spec /\ Fairness

-----------------------------------------------------------------------------
(***************************************************************************)
(* The ring with its two indices, whose slot is written before tail and    *)
(* read before head moves, is the bounded queue of ioqueue.h: one slot     *)
(* stays free, so that its capacity is BUFSIZE - 1.                        *)
(***************************************************************************)
Contents == [i \in 1 .. Length |-> buf[(head + i - 1) % BUFSIZE]]

Fifo == INSTANCE BoundedFifo WITH queue <- Contents, Capacity <- BUFSIZE - 1
ImplementsFifo == Fifo!Spec

(***************************************************************************)
(* The holder of ioq->lock is the one context inside ioqueueGetchar or     *)
(* ioqueuePutchar, across conditionWait giving it up and taking it again,  *)
(* and the lists agree with the statuses: the node a handler links is that *)
(* of the thread it interrupted, which may be on no other list then.       *)
(***************************************************************************)
Inside == {"acquireRemove", "acquireUnspin", "waitReturn", "getLoop",
           "getAdvance", "getSignal", "putLoop", "putAdvance", "putSignal",
           "signalWake", "release", "lockRelease"}

LockExclusion ==
  /\ ListsConsistent
  /\ \A c \in Ctx : pc[c] \in Inside => holder[ioqLock] = ThreadOf(c)
  /\ \A c, d \in Ctx : pc[c] \in Inside /\ pc[d] \in Inside => c = d
  /\ \A c, d \in Ctx : pc[c] \in Spinning /\ pc[d] \in Spinning => c = d

(***************************************************************************)
(* No wakeup is missed: when the lock is free, a thread still queued on    *)
(* condNotEmpty (condNotFull) although there is a character (a free slot)  *)
(* has another one awake ahead of it to use it.  conditionSignal after     *)
(* every change, and the while loops around conditionWait, are what        *)
(* this takes.                                                             *)
(***************************************************************************)
Awake(c) == /\ pc[c] \in {"lockAcquire", "waitReturn", "getLoop", "putLoop"}
            /\ status[ThreadOf(c)] # "blocked"

NoMissedSignal ==
  panic = "none" /\ holder[ioqLock] = NULL =>
    /\ ~ Empty /\ ~ ListEmpty(heap, condNotEmpty)
         => \E t \in Thread : Awake(Task(t))
    /\ ~ Full /\ ~ ListEmpty(heap, condNotFull)
         => \E t \in Thread : Awake(Irq(t))

(***************************************************************************)
(* Every key reaches a reader.  The first character of the ring is read,   *)
(* whatever happens; a handler gets its character into the ring, unless    *)
(* later keys fill the ring again and again before it is its turn.         *)
(***************************************************************************)
EveryKeyRead ==
  /\ \A i \in 0 .. BUFSIZE - 1 : (head = i /\ ~ Empty) ~> head # i
  /\ <>[](~ Full) => \A t \in Thread : t \in Waiting ~> t \notin Waiting

-----------------------------------------------------------------------------
(* ASSERT(!listEmpty(&threadReadyList)) in schedule: somebody can run. *)
SomebodyReady == panic # "readyListEmpty"

(***************************************************************************)
(* ioqueue.h calls the queue thread-safe: using it from an interrupt       *)
(* handler and a thread never makes a thread sleep for a lock that only it *)
(* could release.                                                          *)
(***************************************************************************)
NoSelfWait ==
  \A t \in Thread :
    ~ (holder[ioqLock] = t /\ status[t] = "blocked" /\ t # cur)

(***************************************************************************)
(* ... and never makes the CPU spin for ever: nobody waits with interrupts *)
(* off for a waitersLock that the thread it interrupted, or another one,   *)
(* holds.                                                                  *)
(***************************************************************************)
NoSpinForever ==
  ~ \E c \in Ctx : /\ At(c, pc[c]) /\ pc[c] \in {"acquireSpin", "releaseSpin"}
                  /\ ~ iflag[cur] /\ waitersLock[lk[c]]
=============================================================================
