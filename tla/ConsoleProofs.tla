---------------------------- MODULE ConsoleProofs ----------------------------
(***************************************************************************)
(* Proofs about the console and its screen, in three parts.  Console: for  *)
(* every number of threads, every choice of which of them are user         *)
(* processes and every string length, and also in the runs in which the    *)
(* lists of lockAcquire get damaged.  Screen: for every size of screen,    *)
(* every text, and a handler that prints between any two steps of putchar. *)
(* Strings: for every two strings and every set of bytes.                  *)
(***************************************************************************)
EXTENDS Console, Printing, SequenceTheorems, FiniteSetTheorems, WellFoundedInduction,
        TLAPS

(* TailOf is injective and no thread has the null pointer as its tag. *)
LEMMA NodeFacts ==
  /\ \A t \in Thread : t \in Node
  /\ \A L \in ListId : HeadOf(L) \in Node /\ TailOf(L) \in Node
  /\ threadReadyList \in ListId
  /\ \A l \in Lock : l \in ListId
  BY ThreadAssumption, LockAssumption DEF Node, Sentinels, ListId

(* listInsert writes pointers to nodes where there were pointers before. *)
LEMMA InsertType ==
  ASSUME NEW h, HeapOK(h), NEW before \in Node, NEW node \in Node
  PROVE  HeapOK(ListInsert(h, before, node))
  BY DEF HeapOK, ListInsert

(* listRemove keeps the pointers in their type, wherever the node is linked. *)
LEMMA RemoveType ==
  ASSUME NEW h, HeapOK(h), NEW node \in Node
  PROVE  HeapOK(ListRemove(h, node))
  BY DEF HeapOK, ListRemove

(* listAppend of a thread's generalTag keeps the pointers in their type. *)
LEMMA AppendType ==
  ASSUME NEW h, HeapOK(h), NEW L \in ListId, NEW t \in Thread
  PROVE  HeapOK(ListAppend(h, L, t))
  BY NodeFacts, InsertType DEF ListAppend

(* What listPop takes off is a node, or null if the list is damaged. *)
LEMMA FirstType ==
  ASSUME NEW h, HeapOK(h), NEW L \in ListId
  PROVE  ListFirst(h, L) \in Node \cup {NULL}
  BY NodeFacts DEF HeapOK, ListFirst

-----------------------------------------------------------------------------
(* schedule and threadUnblock leave well-typed lists, statuses and CPU. *)
LEMMA ScheduleType ==
  ASSUME ThreadsTypeOK, NEW st \in [Thread -> Status], schedule(heap, st)
  PROVE  /\ HeapOK(heap') /\ status' \in [Thread -> Status]
         /\ cur' \in Thread /\ panic' \in Reason \cup {"none"}
<1> DEFINE h1 == IF st[cur] = "running"
                 THEN ListAppend(heap, threadReadyList, cur) ELSE heap
           next == ListFirst(h1, threadReadyList)
<1>1. HeapOK(h1)
  BY AppendType, NodeFacts DEF ThreadsTypeOK
<1>2. next \in Thread => HeapOK(ListRemove(h1, next))
  <2> HIDE DEF h1, next
  <2> QED BY <1>1, RemoveType, NodeFacts
<1>3. /\ panic' \in Reason \cup {"none"}
      /\ heap' = IF panic' = "none" THEN ListRemove(h1, next) ELSE heap
      /\ status' \in [Thread -> Status]
      /\ cur' = IF panic' = "none" THEN next ELSE cur
      /\ panic' = "none" => next \in Thread
  BY DEF schedule, ThreadsTypeOK, Reason, Status
<1> QED BY <1>1, <1>2, <1>3 DEF ThreadsTypeOK

(* threadUnblock, too, leaves well-typed lists, statuses and CPU. *)
LEMMA UnblockType ==
  ASSUME ThreadsTypeOK, NEW p \in Thread, threadUnblock(p)
  PROVE  /\ HeapOK(heap') /\ status' \in [Thread -> Status]
         /\ cur' \in Thread /\ panic' \in Reason \cup {"none"}
<1> DEFINE first == ListFirst(heap, threadReadyList)
<1>1. /\ panic' \in Reason \cup {"none"}
      /\ heap' = IF panic' = "none" THEN ListPush(heap, threadReadyList, p)
                                    ELSE heap
      /\ status' \in [Thread -> Status]
      /\ cur' = cur
      /\ panic' = "none" => first # NULL
  BY DEF threadUnblock, ThreadsTypeOK, Reason, Status, Stray
<1>2. first # NULL => HeapOK(ListPush(heap, threadReadyList, p))
  BY FirstType, InsertType, NodeFacts DEF ListPush, ListFirst, ThreadsTypeOK
<1> QED BY <1>1, <1>2 DEF ThreadsTypeOK

-----------------------------------------------------------------------------
(***************************************************************************)
(* The inductive invariant.  A context inside lockAcquire returns to puts, *)
(* one inside lockRelease to the end of the call, and it has a thread to   *)
(* wake when it gets there; the characters on the screen are those that    *)
(* the holder has printed.                                                 *)
(***************************************************************************)
AcquireLabel == {"lockAcquire", "acquireSpin", "acquireAppend", "acquireRecheck",
                 "acquireRemove", "acquireUnspin", "acquireBlock"}
ReleaseLabel == {"lockRelease", "releaseSpin", "releasePop", "releaseUnspin",
                 "releaseWake"}

ControlOK == \A c \in Ctx : /\ pc[c] \in AcquireLabel => ret[c] = "puts"
                            /\ pc[c] \in ReleaseLabel => ret[c] = "return"
                            /\ pc[c] = "releaseWake" => thread[c] # NULL

LineOK ==
  /\ \A t \in Thread : printed[t] # 0 => pc[Task(t)] = "puts"
  /\ holder[consoleLock] = NULL => line = <<>>
  /\ \A t \in Thread : holder[consoleLock] = t
                         => line = [i \in 1 .. printed[t] |-> t]

IInv == TypeOK /\ ControlOK /\ LockExclusion /\ LineOK

(* The console has one lock and no handler uses it: a context is a thread. *)
LEMMA CtxFacts ==
  /\ \A t \in Thread : Task(t) \in Ctx /\ ThreadOf(Task(t)) = t
  /\ \A c \in Ctx : ThreadOf(c) \in Thread /\ c = Task(ThreadOf(c))
  /\ consoleLock \in Lock /\ \A c \in Ctx : lk \in [Ctx -> Lock] => lk[c] = consoleLock
  BY ConsoleAssumption DEF Ctx, Task, ThreadOf

(* At boot nobody is in a call, the lock is free and the screen empty. *)
LEMMA InitIInv == Init => IInv
<1> SUFFICES ASSUME Init PROVE IInv OBVIOUS
<1> USE DEF Init, LocksInit, ThreadsInit
<1>1. HeapOK(heap)
  BY NodeFacts DEF HeapOK, ListInit, Node, Sentinels, HeadOf, TailOf
<1>2. TypeOK
  BY <1>1, ThreadAssumption, ConsoleAssumption
     DEF TypeOK, LocksTypeOK, ThreadsTypeOK, Status, LockLabel
<1>3. ControlOK
  BY DEF ControlOK, AcquireLabel, ReleaseLabel
<1>4. LockExclusion
  BY CtxFacts, ThreadAssumption DEF LockExclusion, Holding, Spinning
<1>5. LineOK
  BY CtxFacts, ThreadAssumption DEF LineOK
<1> QED BY <1>2, <1>3, <1>4, <1>5 DEF IInv

-----------------------------------------------------------------------------
(***************************************************************************)
(* What the steps of sync.c have in common: one context moves from one     *)
(* label to another; the holder is replaced by nobody, or by that context  *)
(* when there was none, or by NULL when it was that context; waitersLock   *)
(* is occupied and released together with the move.                        *)
(***************************************************************************)
Own(c) == holder[consoleLock] = ThreadOf(c)

Hold(c, label) ==
  \/ holder'[consoleLock] = holder[consoleLock] /\ (Own(c) <=> label \in Holding)
  \/ /\ holder[consoleLock] = NULL /\ holder'[consoleLock] = ThreadOf(c)
     /\ label \in Holding
  \/ /\ Own(c) /\ holder'[consoleLock] = NULL
     /\ label \notin Holding

Spin(c, label) ==
  /\ label \in Spinning /\ pc[c] \notin Spinning => ~ waitersLock[consoleLock]
  /\ waitersLock'[consoleLock]
       <=> label \in Spinning \/ (waitersLock[consoleLock] /\ pc[c] \notin Spinning)

Control(c, label) ==
  /\ label \in AcquireLabel => ret[c] = "puts"
  /\ label \in ReleaseLabel => ret[c] = "return"
  /\ label = "releaseWake" => thread'[c] # NULL
  /\ \A d \in Ctx \ {c} : thread'[d] = thread[d]

(* A step of sync.c as described keeps every part of the invariant. *)
LEMMA MoveIInv ==
  ASSUME IInv, TypeOK', NEW c \in Ctx, NEW label,
         Goto(c, label), UNCHANGED <<ret, line, printed>>, pc[c] # "puts",
         Hold(c, label), Spin(c, label), Control(c, label)
  PROVE  IInv'
<1>1. \A d \in Ctx : pc'[d] = IF d = c THEN label ELSE pc[d]
  BY DEF Goto, IInv, TypeOK, LocksTypeOK
<1>2. \A d \in Ctx : d # c => ThreadOf(d) # ThreadOf(c) /\ ThreadOf(d) # NULL
  BY CtxFacts, ThreadAssumption
<1>3. ControlOK'
  BY <1>1 DEF IInv, ControlOK, Control
<1>4. LockExclusion'
  <2>1. \A d \in Ctx : ThreadOf(d) = holder'[consoleLock] <=> pc'[d] \in Holding
    <3>1. ThreadOf(c) = holder'[consoleLock] <=> label \in Holding
      BY CtxFacts, ThreadAssumption DEF Hold, Own
    <3>2. \A d \in Ctx : d # c => (ThreadOf(d) = holder'[consoleLock]
                                    <=> ThreadOf(d) = holder[consoleLock])
      BY <1>2 DEF Hold, Own
    <3> QED BY <1>1, <3>1, <3>2 DEF LockExclusion, IInv
  <2>2. waitersLock'[consoleLock] <=> \E d \in Ctx : pc'[d] \in Spinning
    <3>1. (\E d \in Ctx : pc'[d] \in Spinning)
            <=> label \in Spinning \/ (\E d \in Ctx : d # c /\ pc[d] \in Spinning)
      BY <1>1
    <3>2. waitersLock[consoleLock] <=> \E d \in Ctx : pc[d] \in Spinning
      BY DEF LockExclusion, IInv
    <3>3. \A d \in Ctx : pc[c] \in Spinning /\ pc[d] \in Spinning => d = c
      BY DEF LockExclusion, IInv
    <3>4. (\E d \in Ctx : d # c /\ pc[d] \in Spinning)
            <=> (waitersLock[consoleLock] /\ pc[c] \notin Spinning)
      BY <3>2, <3>3, Zenon
    <3> QED BY <3>1, <3>4, Zenon DEF Spin
  <2>3. \A d, e \in Ctx : pc'[d] \in Spinning /\ pc'[e] \in Spinning => d = e
    <3>1. label \in Spinning =>
            \/ pc[c] \in Spinning
            \/ \A d \in Ctx : pc[d] \notin Spinning
      BY DEF LockExclusion, IInv, Spin
    <3> QED BY <1>1, <3>1 DEF LockExclusion, IInv
  <2> QED BY <2>1, <2>2, <2>3 DEF LockExclusion
<1>5. LineOK'
  <2>1. \A t \in Thread : printed[t] # 0 => pc'[Task(t)] = "puts"
    BY <1>1, CtxFacts DEF IInv, LineOK
  <2>2. printed[ThreadOf(c)] = 0
    BY CtxFacts DEF IInv, LineOK
  <2>3. [i \in 1 .. printed[ThreadOf(c)] |-> ThreadOf(c)] = <<>>
    BY <2>2
  <2>4. /\ Own(c) => line = <<>>
        /\ holder[consoleLock] = NULL => line = <<>>
    BY <2>3, CtxFacts DEF IInv, LineOK, Own
  <2>5. holder'[consoleLock] = NULL => line = <<>>
    BY <2>4 DEF Hold
  <2>6. ASSUME NEW t \in Thread, holder'[consoleLock] = t
        PROVE  line = [i \in 1 .. printed[t] |-> t]
    <3>1. CASE holder'[consoleLock] = holder[consoleLock]
      BY <2>6, <3>1 DEF IInv, LineOK
    <3>2. CASE holder[consoleLock] = NULL /\ t = ThreadOf(c)
      BY <2>3, <2>4, <3>2
    <3> QED BY <2>6, <3>1, <3>2, ThreadAssumption DEF Hold
  <2> QED BY <2>1, <2>5, <2>6 DEF LineOK
<1> QED BY <1>3, <1>4, <1>5 DEF IInv

(* What the invariant says of the context that takes a step of sync.c. *)
LEMMA Facts ==
  ASSUME IInv, NEW c \in Ctx
  PROVE  /\ lk[c] = consoleLock /\ consoleLock \in Lock
         /\ holder \in [Lock -> Thread \cup {NULL}]
         /\ waitersLock \in [Lock -> BOOLEAN]
         /\ thread \in [Ctx -> Thread \cup {NULL}]
         /\ thread[c] \in Thread \cup {NULL}
         /\ ThreadsTypeOK
         /\ Own(c) <=> pc[c] \in Holding
         /\ pc[c] \in Spinning => waitersLock[consoleLock]
         /\ pc[c] \in AcquireLabel => ret[c] = "puts"
         /\ pc[c] \in ReleaseLabel => ret[c] = "return"
         /\ pc[c] = "releaseWake" => thread[c] \in Thread
  BY CtxFacts DEF IInv, TypeOK, LocksTypeOK, LockExclusion, ControlOK, Own

(* The first compareAndSwap32 of lockAcquire: the caller gets a free lock. *)
LEMMA TryIInv ==
  ASSUME IInv, NEW c \in Ctx, AcquireTry(c), UNCHANGED conVars
  PROVE  IInv'
<1> DEFINE label == IF holder[lk[c]] = NULL THEN ret[c] ELSE "acquireSpin"
<1>1. TypeOK'
  BY DEF IInv, TypeOK, LocksTypeOK, ThreadsTypeOK, LockLabel, Goto, conVars,
         schedVars, AcquireTry, Cas
<1>2. Goto(c, label) /\ UNCHANGED <<ret, line, printed>> /\ pc[c] # "puts"
  BY Facts DEF AcquireTry, At, conVars, Cas
<1>3. Hold(c, label)
  BY Facts, CtxFacts, ThreadAssumption
     DEF AcquireTry, At, Hold, Own, Holding, AcquireLabel, ReleaseLabel, Cas
<1>4. Spin(c, label)
  BY Facts DEF AcquireTry, At, Spin, Spinning, AcquireLabel, ReleaseLabel, Cas
<1>5. Control(c, label)
  BY Facts DEF AcquireTry, At, Control, AcquireLabel, ReleaseLabel, Cas
<1> QED BY <1>1, <1>2, <1>3, <1>4, <1>5, MoveIInv

(* spinlockAcquire in lockAcquire: nobody else was inside waitersLock. *)
LEMMA AcquireSpinIInv ==
  ASSUME IInv, NEW c \in Ctx, AcquireSpin(c), UNCHANGED conVars
  PROVE  IInv'
<1> DEFINE label == "acquireAppend"
<1>1. TypeOK'
  BY DEF IInv, TypeOK, LocksTypeOK, ThreadsTypeOK, LockLabel, Goto, conVars,
         schedVars, AcquireSpin, SpinAcquire
<1>2. Goto(c, label) /\ UNCHANGED <<ret, line, printed>> /\ pc[c] # "puts"
  BY Facts DEF AcquireSpin, At, conVars, SpinAcquire
<1>3. Hold(c, label)
  BY Facts, CtxFacts, ThreadAssumption
     DEF AcquireSpin, At, Hold, Own, Holding, AcquireLabel, ReleaseLabel, SpinAcquire
<1>4. Spin(c, label)
  BY Facts DEF AcquireSpin, At, Spin, Spinning, AcquireLabel, ReleaseLabel, SpinAcquire
<1>5. Control(c, label)
  BY Facts DEF AcquireSpin, At, Control, AcquireLabel, ReleaseLabel, SpinAcquire
<1> QED BY <1>1, <1>2, <1>3, <1>4, <1>5, MoveIInv

(* listAppend(&lock->waiters) in lockAcquire. *)
LEMMA AppendIInv ==
  ASSUME IInv, NEW c \in Ctx, AcquireAppend(c), UNCHANGED conVars
  PROVE  IInv'
<1> DEFINE label == "acquireRecheck"
<1>1. TypeOK'
  <2>1. HeapOK(heap')
    BY Facts, NodeFacts, AppendType, RemoveType, CtxFacts
       DEF AcquireAppend, ThreadsTypeOK
  <2> QED BY <2>1 DEF IInv, TypeOK, LocksTypeOK, ThreadsTypeOK, LockLabel,
                      Goto, conVars, lockVars, AcquireAppend
<1>2. Goto(c, label) /\ UNCHANGED <<ret, line, printed>> /\ pc[c] # "puts"
  BY Facts DEF AcquireAppend, At, conVars, lockVars
<1>3. Hold(c, label)
  BY Facts, CtxFacts, ThreadAssumption
     DEF AcquireAppend, At, Hold, Own, Holding, AcquireLabel, ReleaseLabel, lockVars
<1>4. Spin(c, label)
  BY Facts DEF AcquireAppend, At, Spin, Spinning, AcquireLabel, ReleaseLabel, lockVars
<1>5. Control(c, label)
  BY Facts DEF AcquireAppend, At, Control, AcquireLabel, ReleaseLabel, lockVars
<1> QED BY <1>1, <1>2, <1>3, <1>4, <1>5, MoveIInv

(* The second compareAndSwap32, with waitersLock held. *)
LEMMA RecheckIInv ==
  ASSUME IInv, NEW c \in Ctx, AcquireRecheck(c), UNCHANGED conVars
  PROVE  IInv'
<1> DEFINE label == IF holder[lk[c]] = NULL THEN "acquireRemove" ELSE "acquireBlock"
<1>1. TypeOK'
  BY DEF IInv, TypeOK, LocksTypeOK, ThreadsTypeOK, LockLabel, Goto, conVars,
         schedVars, AcquireRecheck, Cas
<1>2. Goto(c, label) /\ UNCHANGED <<ret, line, printed>> /\ pc[c] # "puts"
  BY Facts DEF AcquireRecheck, At, conVars, Cas
<1>3. Hold(c, label)
  BY Facts, CtxFacts, ThreadAssumption
     DEF AcquireRecheck, At, Hold, Own, Holding, AcquireLabel, ReleaseLabel, Cas
<1>4. Spin(c, label)
  BY Facts DEF AcquireRecheck, At, Spin, Spinning, AcquireLabel, ReleaseLabel, Cas
<1>5. Control(c, label)
  BY Facts DEF AcquireRecheck, At, Control, AcquireLabel, ReleaseLabel, Cas
<1> QED BY <1>1, <1>2, <1>3, <1>4, <1>5, MoveIInv

(* listRemove after the second compareAndSwap32 has won the lock. *)
LEMMA RemoveIInv ==
  ASSUME IInv, NEW c \in Ctx, AcquireRemove(c), UNCHANGED conVars
  PROVE  IInv'
<1> DEFINE label == "acquireUnspin"
<1>1. TypeOK'
  <2>1. HeapOK(heap')
    BY Facts, NodeFacts, AppendType, RemoveType, CtxFacts
       DEF AcquireRemove, ThreadsTypeOK
  <2> QED BY <2>1 DEF IInv, TypeOK, LocksTypeOK, ThreadsTypeOK, LockLabel,
                      Goto, conVars, lockVars, AcquireRemove
<1>2. Goto(c, label) /\ UNCHANGED <<ret, line, printed>> /\ pc[c] # "puts"
  BY Facts DEF AcquireRemove, At, conVars, lockVars
<1>3. Hold(c, label)
  BY Facts, CtxFacts, ThreadAssumption
     DEF AcquireRemove, At, Hold, Own, Holding, AcquireLabel, ReleaseLabel, lockVars
<1>4. Spin(c, label)
  BY Facts DEF AcquireRemove, At, Spin, Spinning, AcquireLabel, ReleaseLabel, lockVars
<1>5. Control(c, label)
  BY Facts DEF AcquireRemove, At, Control, AcquireLabel, ReleaseLabel, lockVars
<1> QED BY <1>1, <1>2, <1>3, <1>4, <1>5, MoveIInv

(* The spinlockRelease before the break: on to puts, lock in hand. *)
LEMMA AcquireUnspinIInv ==
  ASSUME IInv, NEW c \in Ctx, AcquireUnspin(c), UNCHANGED conVars
  PROVE  IInv'
<1> DEFINE label == ret[c]
<1>1. TypeOK'
  BY DEF IInv, TypeOK, LocksTypeOK, ThreadsTypeOK, LockLabel, Goto, conVars,
         schedVars, AcquireUnspin, SpinRelease
<1>2. Goto(c, label) /\ UNCHANGED <<ret, line, printed>> /\ pc[c] # "puts"
  BY Facts DEF AcquireUnspin, At, conVars, SpinRelease
<1>3. Hold(c, label)
  BY Facts, CtxFacts, ThreadAssumption
     DEF AcquireUnspin, At, Hold, Own, Holding, AcquireLabel, ReleaseLabel, SpinRelease
<1>4. Spin(c, label)
  BY Facts DEF AcquireUnspin, At, Spin, Spinning, AcquireLabel, ReleaseLabel, SpinRelease
<1>5. Control(c, label)
  BY Facts DEF AcquireUnspin, At, Control, AcquireLabel, ReleaseLabel, SpinRelease
<1> QED BY <1>1, <1>2, <1>3, <1>4, <1>5, MoveIInv

(* TASK_BLOCKED, spinlockRelease, schedule: keeps its call, goes round. *)
LEMMA BlockIInv ==
  ASSUME IInv, NEW c \in Ctx, AcquireBlock(c), UNCHANGED conVars
  PROVE  IInv'
<1> DEFINE label == "lockAcquire"
<1>1. TypeOK'
  <2>1. [status EXCEPT ![cur] = "blocked"] \in [Thread -> Status]
    BY Facts DEF ThreadsTypeOK, Status
  <2>2. ThreadsTypeOK'
    BY <2>1, Facts, ScheduleType DEF AcquireBlock, ThreadsTypeOK
  <2> QED BY <2>2 DEF IInv, TypeOK, LocksTypeOK, LockLabel, Goto, conVars,
                      AcquireBlock, SpinRelease
<1>2. Goto(c, label) /\ UNCHANGED <<ret, line, printed>> /\ pc[c] # "puts"
  BY Facts DEF AcquireBlock, At, conVars, SpinRelease
<1>3. Hold(c, label)
  BY Facts, CtxFacts, ThreadAssumption
     DEF AcquireBlock, At, Hold, Own, Holding, AcquireLabel, ReleaseLabel, SpinRelease
<1>4. Spin(c, label)
  BY Facts DEF AcquireBlock, At, Spin, Spinning, AcquireLabel, ReleaseLabel, SpinRelease
<1>5. Control(c, label)
  BY Facts DEF AcquireBlock, At, Control, AcquireLabel, ReleaseLabel, SpinRelease
<1> QED BY <1>1, <1>2, <1>3, <1>4, <1>5, MoveIInv

(* spinlockAcquire in lockRelease: nobody else was inside waitersLock. *)
LEMMA ReleaseSpinIInv ==
  ASSUME IInv, NEW c \in Ctx, ReleaseSpin(c), UNCHANGED conVars
  PROVE  IInv'
<1> DEFINE label == "releasePop"
<1>1. TypeOK'
  BY DEF IInv, TypeOK, LocksTypeOK, ThreadsTypeOK, LockLabel, Goto, conVars,
         schedVars, ReleaseSpin, SpinAcquire
<1>2. Goto(c, label) /\ UNCHANGED <<ret, line, printed>> /\ pc[c] # "puts"
  BY Facts DEF ReleaseSpin, At, conVars, SpinAcquire
<1>3. Hold(c, label)
  BY Facts, CtxFacts, ThreadAssumption
     DEF ReleaseSpin, At, Hold, Own, Holding, AcquireLabel, ReleaseLabel, SpinAcquire
<1>4. Spin(c, label)
  BY Facts DEF ReleaseSpin, At, Spin, Spinning, AcquireLabel, ReleaseLabel, SpinAcquire
<1>5. Control(c, label)
  BY Facts DEF ReleaseSpin, At, Control, AcquireLabel, ReleaseLabel, SpinAcquire
<1> QED BY <1>1, <1>2, <1>3, <1>4, <1>5, MoveIInv

(* listPop(&lock->waiters) remembers the thread that is to be woken. *)
LEMMA PopIInv ==
  ASSUME IInv, NEW c \in Ctx, ReleasePop(c), UNCHANGED conVars
  PROVE  IInv'
<1> DEFINE label == "releaseUnspin"
<1>1. TypeOK'
  <2>1. /\ HeapOK(heap') /\ thread' \in [Ctx -> Thread \cup {NULL}]
        /\ panic' \in Reason \cup {"none"}
    <3>1. ListFirst(heap, lk[c]) \in Thread => HeapOK(ListPop(heap, lk[c]))
      BY Facts, NodeFacts, RemoveType DEF ListPop, ThreadsTypeOK
    <3> QED BY <3>1, Facts DEF ReleasePop, ThreadsTypeOK, Reason
  <2> QED BY <2>1 DEF IInv, TypeOK, LocksTypeOK, ThreadsTypeOK, LockLabel,
                      Goto, conVars, lockVars, ReleasePop
<1>2. Goto(c, label) /\ UNCHANGED <<ret, line, printed>> /\ pc[c] # "puts"
  BY Facts DEF ReleasePop, At, conVars, lockVars
<1>3. Hold(c, label)
  BY Facts, CtxFacts, ThreadAssumption
     DEF ReleasePop, At, Hold, Own, Holding, AcquireLabel, ReleaseLabel, lockVars
<1>4. Spin(c, label)
  BY Facts DEF ReleasePop, At, Spin, Spinning, AcquireLabel, ReleaseLabel, lockVars
<1>5. Control(c, label)
  BY Facts DEF ReleasePop, At, Control, AcquireLabel, ReleaseLabel, lockVars
<1> QED BY <1>1, <1>2, <1>3, <1>4, <1>5, MoveIInv

(* spinlockRelease in lockRelease: on to wake the waiter, if there is one. *)
LEMMA ReleaseUnspinIInv ==
  ASSUME IInv, NEW c \in Ctx, ReleaseUnspin(c), UNCHANGED conVars
  PROVE  IInv'
<1> DEFINE label == IF thread[c] = NULL THEN ret[c] ELSE "releaseWake"
<1>1. TypeOK'
  BY DEF IInv, TypeOK, LocksTypeOK, ThreadsTypeOK, LockLabel, Goto, conVars,
         schedVars, ReleaseUnspin, SpinRelease
<1>2. Goto(c, label) /\ UNCHANGED <<ret, line, printed>> /\ pc[c] # "puts"
  BY Facts DEF ReleaseUnspin, At, conVars, SpinRelease
<1>3. Hold(c, label)
  BY Facts, CtxFacts, ThreadAssumption
     DEF ReleaseUnspin, At, Hold, Own, Holding, AcquireLabel, ReleaseLabel, SpinRelease
<1>4. Spin(c, label)
  BY Facts DEF ReleaseUnspin, At, Spin, Spinning, AcquireLabel, ReleaseLabel, SpinRelease
<1>5. Control(c, label)
  BY Facts DEF ReleaseUnspin, At, Control, AcquireLabel, ReleaseLabel, SpinRelease
<1> QED BY <1>1, <1>2, <1>3, <1>4, <1>5, MoveIInv

(* threadUnblock in lockRelease disturbs lists and statuses only. *)
LEMMA WakeIInv ==
  ASSUME IInv, NEW c \in Ctx, ReleaseWake(c), UNCHANGED conVars
  PROVE  IInv'
<1> DEFINE label == ret[c]
<1>1. TypeOK'
  <2>1. thread[c] \in Thread
    BY Facts DEF ReleaseWake, At
  <2>2. ThreadsTypeOK'
    BY <2>1, Facts, UnblockType DEF ReleaseWake, ThreadsTypeOK, schedVars
  <2> QED BY <2>2 DEF IInv, TypeOK, LocksTypeOK, LockLabel, Goto, conVars,
                      lockVars, ReleaseWake
<1>2. Goto(c, label) /\ UNCHANGED <<ret, line, printed>> /\ pc[c] # "puts"
  BY Facts DEF ReleaseWake, At, conVars, lockVars
<1>3. Hold(c, label)
  BY Facts, CtxFacts, ThreadAssumption
     DEF ReleaseWake, At, Hold, Own, Holding, AcquireLabel, ReleaseLabel, lockVars
<1>4. Spin(c, label)
  BY Facts DEF ReleaseWake, At, Spin, Spinning, AcquireLabel, ReleaseLabel, lockVars
<1>5. Control(c, label)
  BY Facts DEF ReleaseWake, At, Control, AcquireLabel, ReleaseLabel, lockVars
<1> QED BY <1>1, <1>2, <1>3, <1>4, <1>5, MoveIInv

(* The holder finds itself in lock->holder, so that the ASSERT holds. *)
LEMMA ClearIInv ==
  ASSUME IInv, NEW c \in Ctx, ReleaseClear(c), UNCHANGED conVars
  PROVE  IInv' /\ panic' = panic
<1>1. holder[lk[c]] = cur
  BY Facts DEF ReleaseClear, At, Own, Holding
<1>2. /\ holder' = [holder EXCEPT ![lk[c]] = NULL] /\ Goto(c, "releaseSpin")
      /\ UNCHANGED <<panic, ret, line, printed, thread, waitersLock>>
      /\ pc[c] = "lockRelease" /\ ThreadOf(c) = cur
  BY <1>1 DEF ReleaseClear, At, conVars
<1>3. TypeOK'
  BY <1>2 DEF IInv, TypeOK, LocksTypeOK, ThreadsTypeOK, LockLabel, Goto, conVars,
              ReleaseClear
<1>4. Hold(c, "releaseSpin")
  BY <1>1, <1>2, Facts DEF Hold, Own, Holding
<1>5. Spin(c, "releaseSpin") /\ Control(c, "releaseSpin")
  BY <1>2, Facts DEF Spin, Spinning, Control, AcquireLabel, ReleaseLabel
<1> QED BY <1>2, <1>3, <1>4, <1>5, MoveIInv

(* Preemption, and the start of a thread, move no context. *)
LEMMA StillIInv ==
  ASSUME IInv, TypeOK', UNCHANGED <<lockVars, callVars, line, printed>>
  PROVE  IInv'
<1>1. ControlOK'
  BY DEF IInv, ControlOK, callVars
<1>2. LockExclusion'
  BY DEF IInv, LockExclusion, lockVars, callVars
<1>3. LineOK'
  BY DEF IInv, LineOK, lockVars, callVars
<1> QED BY <1>1, <1>2, <1>3 DEF IInv

(* A preemption by intrTimerHandler. *)
LEMMA TimerIInv ==
  ASSUME IInv, Timer, UNCHANGED conVars
  PROVE  IInv'
<1>1. TypeOK'
  <2>1. ThreadsTypeOK'
    BY ScheduleType DEF Timer, TimerPreempts, IInv, TypeOK, LocksTypeOK,
                        ThreadsTypeOK
  <2> QED BY <2>1 DEF IInv, TypeOK, LocksTypeOK, Timer, lockVars, callVars, conVars
<1> QED BY <1>1, StillIInv DEF Timer, conVars

(* threadStart in main(), and the intrEnable that ends the boot. *)
LEMMA BootIInv ==
  ASSUME IInv, Boot, UNCHANGED conVars
  PROVE  IInv'
<1> DEFINE m == Task(Main)
<1>1. m \in Ctx /\ pc[m] = "boot"
  BY CtxFacts, ThreadAssumption DEF Boot, At, Task
<1>2. CASE UNCHANGED <<pc, iflag>> /\ \E t \in Thread : threadStart(t)
  <2>1. ThreadsTypeOK'
    <3>1. PICK t \in Thread : threadStart(t)
      BY <1>2
    <3>2. HeapOK(heap')
      BY <3>1, AppendType, NodeFacts DEF threadStart, IInv, TypeOK, LocksTypeOK,
                                         ThreadsTypeOK
    <3> QED BY <3>1, <3>2, <1>2 DEF threadStart, IInv, TypeOK, LocksTypeOK,
                                    ThreadsTypeOK, Status, Reason
  <2>2. TypeOK'
    BY <1>2, <2>1 DEF IInv, TypeOK, LocksTypeOK, Boot, lockVars, conVars
  <2> QED BY <1>2, <2>2, StillIInv DEF Boot, lockVars, callVars, conVars
<1>3. CASE /\ Goto(m, "idle") /\ UNCHANGED schedVars
           /\ iflag' = [iflag EXCEPT ![Main] = TRUE]
  <2>1. TypeOK'
    BY <1>3 DEF IInv, TypeOK, LocksTypeOK, ThreadsTypeOK, LockLabel, Goto, Boot,
                lockVars, conVars, schedVars
  <2>2. Hold(m, "idle") /\ Spin(m, "idle") /\ Control(m, "idle")
    BY <1>1, Facts DEF Boot, Hold, Spin, Control, Holding, Spinning, AcquireLabel,
                       ReleaseLabel, lockVars
  <2> QED BY <1>1, <1>3, <2>1, <2>2, MoveIInv DEF Boot, conVars
<1> QED BY <1>2, <1>3 DEF Boot, Task

-----------------------------------------------------------------------------
(* The callers' own steps. *)
(* consolePuts starts with lockAcquire, which will return to puts. *)
LEMMA PutsIInv ==
  ASSUME IInv, NEW t \in Thread, consolePuts(t)
  PROVE  IInv'
<1> DEFINE c == Task(t)
<1>1. /\ c \in Ctx /\ ThreadOf(c) = t /\ pc[c] = "idle"
      /\ pc' = [pc EXCEPT ![c] = "lockAcquire"] /\ ret' = [ret EXCEPT ![c] = "puts"]
      /\ UNCHANGED <<lockVars, thread, line, printed>>
  BY CtxFacts DEF consolePuts, At, Call, Goto, conVars
<1>2. TypeOK'
  BY <1>1, CtxFacts DEF IInv, TypeOK, LocksTypeOK, ThreadsTypeOK, LockLabel,
                        consolePuts, Call, schedVars, lockVars
<1>3. \A d \in Ctx : /\ pc'[d] = IF d = c THEN "lockAcquire" ELSE pc[d]
                     /\ ret'[d] = IF d = c THEN "puts" ELSE ret[d]
  BY <1>1 DEF IInv, TypeOK, LocksTypeOK
<1>4. ControlOK'
  BY <1>1, <1>3 DEF IInv, ControlOK, AcquireLabel, ReleaseLabel
<1>5. LockExclusion'
  <2>1. \A d \in Ctx : /\ pc'[d] \in Holding <=> pc[d] \in Holding
                       /\ pc'[d] \in Spinning <=> pc[d] \in Spinning
    BY <1>1, <1>3 DEF Holding, Spinning
  <2> QED BY <1>1, <2>1 DEF IInv, LockExclusion, lockVars
<1>6. LineOK'
  BY <1>1, <1>3, CtxFacts DEF IInv, LineOK, lockVars
<1> QED BY <1>2, <1>4, <1>5, <1>6 DEF IInv

(* The return from consolePuts, and the iretd of a system call. *)
LEMMA ReturnIInv ==
  ASSUME IInv, NEW t \in Thread, Return(t)
  PROVE  IInv'
<1> DEFINE c == Task(t)
<1>1. /\ c \in Ctx /\ ThreadOf(c) = t /\ pc[c] = "return"
      /\ pc' = [pc EXCEPT ![c] = "idle"] /\ ret' = [ret EXCEPT ![c] = "idle"]
      /\ UNCHANGED <<lockVars, thread, line, printed>>
  BY CtxFacts DEF Return, At, Goto, conVars
<1>2. TypeOK'
  BY <1>1, CtxFacts DEF IInv, TypeOK, LocksTypeOK, ThreadsTypeOK, LockLabel,
                        Return, schedVars, lockVars
<1>3. \A d \in Ctx : /\ pc'[d] = IF d = c THEN "idle" ELSE pc[d]
                     /\ ret'[d] = IF d = c THEN "idle" ELSE ret[d]
  BY <1>1 DEF IInv, TypeOK, LocksTypeOK
<1>4. ControlOK'
  BY <1>1, <1>3 DEF IInv, ControlOK, AcquireLabel, ReleaseLabel
<1>5. LockExclusion'
  <2>1. \A d \in Ctx : /\ pc'[d] \in Holding <=> pc[d] \in Holding
                       /\ pc'[d] \in Spinning <=> pc[d] \in Spinning
    BY <1>1, <1>3 DEF Holding, Spinning
  <2> QED BY <1>1, <2>1 DEF IInv, LockExclusion, lockVars
<1>6. LineOK'
  BY <1>1, <1>3, CtxFacts DEF IInv, LineOK, lockVars
<1> QED BY <1>2, <1>4, <1>5, <1>6 DEF IInv

(* A thread in puts is the holder, and the string so far is its own. *)
LEMMA OwnLine ==
  ASSUME IInv, NEW t \in Thread, pc[Task(t)] = "puts"
  PROVE  /\ holder[consoleLock] = t
         /\ line = [i \in 1 .. printed[t] |-> t]
         /\ printed[t] \in 0 .. StrLen /\ printed[t] \in Nat
         /\ Len(line) = printed[t] /\ line \in Seq(Thread)
<1>1. holder[consoleLock] = t
  BY Facts, CtxFacts DEF Own, Holding
<1>2. line = [i \in 1 .. printed[t] |-> t] /\ printed[t] \in 0 .. StrLen
  BY <1>1 DEF IInv, LineOK, TypeOK
<1>3. printed[t] \in Nat
  BY <1>2, ConsoleAssumption
<1> QED BY <1>1, <1>2, <1>3

(* puts: one character more of the holder's string, or its end. *)
LEMMA PutcharIInv ==
  ASSUME IInv, NEW t \in Thread, putchar(t)
  PROVE  IInv'
<1> DEFINE c == Task(t)
<1>1. /\ c \in Ctx /\ ThreadOf(c) = t /\ pc[c] = "puts"
      /\ UNCHANGED <<lockVars, thread>>
  BY CtxFacts DEF putchar, At
<1>2. \A u \in Thread : u # t => printed[u] = 0 /\ Task(u) # c
  BY <1>1, OwnLine, CtxFacts DEF IInv, LineOK
<1>3. CASE printed[t] < StrLen
  <2>1. /\ line' = Append(line, t) /\ printed' = [printed EXCEPT ![t] = @ + 1]
        /\ UNCHANGED <<pc, lk, ret>>
    BY <1>3 DEF putchar
  <2>2. printed[t] + 1 \in 0 .. StrLen /\ line' \in Seq(Thread)
    BY <1>1, <1>3, <2>1, OwnLine, ConsoleAssumption
  <2>3. TypeOK'
    BY <2>1, <2>2, <1>1 DEF IInv, TypeOK, LocksTypeOK, ThreadsTypeOK, schedVars,
                            lockVars, putchar
  <2>4. ControlOK' /\ LockExclusion'
    BY <1>1, <2>1 DEF IInv, ControlOK, LockExclusion, lockVars
  <2>5. line' = [i \in 1 .. printed[t] + 1 |-> t]
    <3> DEFINE longer == [i \in 1 .. printed[t] + 1 |-> t]
    <3>1. /\ line \in Seq(Thread) /\ Len(line) = printed[t] /\ printed[t] \in Nat
          /\ \A i \in 1 .. printed[t] : line[i] = t
      BY <1>1, OwnLine
    <3>2. /\ line' \in Seq(Thread) /\ Len(line') = printed[t] + 1
          /\ \A i \in 1 .. printed[t] + 1 : line'[i] = t
      BY <3>1, <2>1, AppendProperties
    <3>3. /\ longer \in Seq(Thread) /\ Len(longer) = printed[t] + 1
          /\ \A i \in 1 .. printed[t] + 1 : longer[i] = t
      BY <3>1
    <3> QED BY <3>1, <3>2, <3>3, SeqEqual
  <2>6. printed'[t] = printed[t] + 1 /\ \A u \in Thread : u # t => printed'[u] = printed[u]
    BY <2>1 DEF IInv, TypeOK
  <2>7. holder'[consoleLock] = t /\ t # NULL
    BY <1>1, OwnLine, ThreadAssumption DEF lockVars
  <2>8. LineOK'
    BY <1>1, <1>2, <2>1, <2>5, <2>6, <2>7 DEF LineOK
  <2> QED BY <2>3, <2>4, <2>8 DEF IInv
<1>4. CASE ~ (printed[t] < StrLen)
  <2>1. /\ line' = <<>> /\ printed' = [printed EXCEPT ![t] = 0]
        /\ pc' = [pc EXCEPT ![c] = "lockRelease"]
        /\ ret' = [ret EXCEPT ![c] = "return"]
        /\ lk' = [lk EXCEPT ![c] = consoleLock]
    BY <1>4 DEF putchar, Call, Goto
  <2>2. TypeOK'
    BY <2>1, <1>1, CtxFacts, ConsoleAssumption
       DEF IInv, TypeOK, LocksTypeOK, ThreadsTypeOK, LockLabel, schedVars,
           lockVars, putchar
  <2>3. \A d \in Ctx : /\ pc'[d] = IF d = c THEN "lockRelease" ELSE pc[d]
                       /\ ret'[d] = IF d = c THEN "return" ELSE ret[d]
    BY <1>1, <2>1 DEF IInv, TypeOK, LocksTypeOK
  <2>4. ControlOK'
    BY <1>1, <2>3 DEF IInv, ControlOK, AcquireLabel, ReleaseLabel
  <2>5. LockExclusion'
    <3>1. \A d \in Ctx : /\ pc'[d] \in Holding <=> pc[d] \in Holding
                         /\ pc'[d] \in Spinning <=> pc[d] \in Spinning
      BY <1>1, <2>3 DEF Holding, Spinning
    <3> QED BY <1>1, <3>1 DEF IInv, LockExclusion, lockVars
  <2>6. \A u \in Thread : printed'[u] = 0
    BY <1>2, <2>1 DEF IInv, TypeOK
  <2>7. LineOK'
    BY <2>1, <2>6 DEF LineOK
  <2> QED BY <2>2, <2>4, <2>5, <2>7 DEF IInv
<1> QED BY <1>3, <1>4

-----------------------------------------------------------------------------
(* Every step of the kernel, a stutter included, keeps the invariant. *)
LEMMA NextIInv == IInv /\ [Next]_vars => IInv'
<1> SUFFICES ASSUME IInv, [Next]_vars PROVE IInv' OBVIOUS
<1>1. CASE (Timer \/ Boot) /\ UNCHANGED conVars
  BY <1>1, TimerIInv, BootIInv
<1>2. CASE \E c \in Ctx : lockAcquire(c) /\ UNCHANGED conVars
  BY <1>2, TryIInv, AcquireSpinIInv, AppendIInv, RecheckIInv, RemoveIInv,
     AcquireUnspinIInv, BlockIInv DEF lockAcquire
<1>3. CASE \E c \in Ctx : lockRelease(c) /\ UNCHANGED conVars
  BY <1>3, ClearIInv, ReleaseSpinIInv, PopIInv, ReleaseUnspinIInv, WakeIInv
     DEF lockRelease
<1>4. CASE \E t \in Thread \ {Main} : consolePuts(t) \/ putchar(t) \/ Return(t)
  BY <1>4, PutsIInv, PutcharIInv, ReturnIInv
<1>5. CASE UNCHANGED vars
  <2>1. TypeOK'
    BY <1>5 DEF IInv, TypeOK, LocksTypeOK, ThreadsTypeOK, vars, schedVars,
                lockVars, callVars
  <2> QED BY <1>5, <2>1, StillIInv DEF vars
<1> QED BY <1>1, <1>2, <1>3, <1>4, <1>5 DEF Next

(* The invariant holds in every state of every execution. *)
THEOREM Invariance == Spec => []IInv
  BY InitIInv, NextIInv, PTL DEF Spec

-----------------------------------------------------------------------------
(* Every variable keeps its type, damaged lists included. *)
THEOREM TypeCorrect == Spec => []TypeOK
  BY Invariance, PTL DEF IInv

(***************************************************************************)
(* lockAcquire and lockRelease exclude each other's callers whatever the   *)
(* timer does, also when the waiters list has been damaged.                *)
(***************************************************************************)
THEOREM MutualExclusion == Spec => []LockExclusion
  BY Invariance, PTL DEF IInv

(* The ASSERT on lock->holder in lockRelease never fails. *)
THEOREM HolderReleases == Spec => []ReleaseByHolder
<1>1. Init => ReleaseByHolder
  BY DEF Init, ThreadsInit, ReleaseByHolder
<1>2. IInv /\ ReleaseByHolder /\ [Next]_vars => ReleaseByHolder'
  <2> SUFFICES ASSUME IInv, ReleaseByHolder, [Next]_vars
               PROVE  ReleaseByHolder'
    OBVIOUS
  <2>1. ASSUME NEW st, schedule(heap, st) PROVE ReleaseByHolder'
    BY <2>1 DEF schedule, ReleaseByHolder
  <2>2. CASE (Timer \/ Boot) /\ UNCHANGED conVars
    <3>1. CASE Timer
      BY <3>1, <2>1 DEF Timer, TimerPreempts
    <3>2. CASE Boot
      BY <3>2 DEF Boot, threadStart, schedVars, ReleaseByHolder
    <3> QED BY <2>2, <3>1, <3>2
  <2>3. CASE \E c \in Ctx : lockAcquire(c)
    <3>1. ASSUME NEW c \in Ctx, AcquireBlock(c) PROVE ReleaseByHolder'
      BY <3>1, <2>1 DEF AcquireBlock
    <3> QED BY <2>3, <3>1 DEF lockAcquire, AcquireTry, AcquireSpin, AcquireAppend,
                              AcquireRecheck, AcquireRemove, AcquireUnspin,
                              schedVars, ReleaseByHolder
  <2>4. CASE \E c \in Ctx : lockRelease(c) /\ UNCHANGED conVars
    <3>1. ASSUME NEW c \in Ctx, ReleaseClear(c), UNCHANGED conVars
          PROVE  ReleaseByHolder'
      BY <3>1, ClearIInv DEF ReleaseByHolder
    <3>2. ASSUME NEW c \in Ctx, ReleaseWake(c) PROVE ReleaseByHolder'
      BY <3>2 DEF ReleaseWake, threadUnblock, schedVars, ReleaseByHolder
    <3> QED BY <2>4, <3>1, <3>2 DEF lockRelease, ReleaseSpin, ReleasePop,
                                    ReleaseUnspin, schedVars, ReleaseByHolder
  <2>5. CASE \E t \in Thread \ {Main} : consolePuts(t) \/ putchar(t) \/ Return(t)
    BY <2>5 DEF consolePuts, putchar, Return, schedVars, ReleaseByHolder
  <2>6. CASE UNCHANGED vars
    BY <2>6 DEF vars, schedVars, ReleaseByHolder
  <2> QED BY <2>2, <2>3, <2>4, <2>5, <2>6 DEF Next
<1> QED BY <1>1, <1>2, Invariance, PTL DEF Spec

(***************************************************************************)
(* A thread that the timer can take the CPU from is TASK_RUNNING: nobody   *)
(* else ever changes the status of the thread on the CPU, and lockAcquire  *)
(* does it with interrupts off up to the schedule that follows.            *)
(***************************************************************************)
THEOREM PreemptsTheRunning == Spec => []InterruptibleIsRunning
<1> DEFINE Running == panic = "none" => status[cur] = "running"
<1>1. Init => Running
  BY ThreadAssumption DEF Init, ThreadsInit
<1>2. IInv /\ Running /\ [Next]_vars => Running'
  <2> SUFFICES ASSUME IInv, Running, [Next]_vars, panic' = "none"
               PROVE  status'[cur'] = "running"
    OBVIOUS
  <2> USE DEF IInv, TypeOK, LocksTypeOK, ThreadsTypeOK
  <2>1. ASSUME NEW st \in [Thread -> Status], schedule(heap, st)
        PROVE  status'[cur'] = "running"
    BY <2>1 DEF schedule
  <2>2. CASE UNCHANGED <<status, cur, panic>>
    BY <2>2
  <2>3. CASE (Timer \/ Boot) /\ UNCHANGED conVars
    <3>1. CASE Timer
      BY <3>1, <2>1 DEF Timer, TimerPreempts
    <3>2. CASE Boot
      BY <3>2, <2>2 DEF Boot, At, threadStart, schedVars
    <3> QED BY <2>3, <3>1, <3>2
  <2>4. CASE \E c \in Ctx : lockAcquire(c)
    <3>1. ASSUME NEW c \in Ctx, AcquireBlock(c) PROVE status'[cur'] = "running"
      <4>1. [status EXCEPT ![cur] = "blocked"] \in [Thread -> Status]
        BY DEF Status
      <4> QED BY <3>1, <4>1, <2>1 DEF AcquireBlock
    <3> QED BY <2>4, <3>1, <2>2 DEF lockAcquire, AcquireTry, AcquireSpin, AcquireAppend,
                                    AcquireRecheck, AcquireRemove, AcquireUnspin,
                                    schedVars
  <2>5. CASE \E c \in Ctx : lockRelease(c)
    <3>1. ASSUME NEW c \in Ctx, ReleaseWake(c) PROVE status'[cur'] = "running"
      BY <3>1, <2>2 DEF ReleaseWake, At, threadUnblock, schedVars
    <3>2. ASSUME NEW c \in Ctx, ReleaseClear(c) \/ ReleasePop(c)
          PROVE  status'[cur'] = "running"
      BY <3>2 DEF ReleaseClear, ReleasePop, At
    <3> QED BY <2>5, <3>1, <3>2, <2>2 DEF lockRelease, ReleaseSpin, ReleaseUnspin,
                                          schedVars
  <2>6. CASE \E t \in Thread \ {Main} : consolePuts(t) \/ putchar(t) \/ Return(t)
    BY <2>6, <2>2 DEF consolePuts, putchar, Return, schedVars
  <2>7. CASE UNCHANGED vars
    BY <2>7, <2>2 DEF vars, schedVars
  <2> QED BY <2>3, <2>4, <2>5, <2>6, <2>7 DEF Next
<1>3. Running => InterruptibleIsRunning
  BY DEF InterruptibleIsRunning
<1> QED BY <1>1, <1>2, <1>3, Invariance, PTL DEF Spec

(***************************************************************************)
(* The console implements Lines: a string is never mixed with another.     *)
(***************************************************************************)
THEOREM Refinement == Spec => ImplementsLines
<1>1. Init => Screen!Init
  BY DEF Init, Screen!Init
<1>2. IInv /\ [Next]_vars => [Screen!Write \/ Screen!EndOfString]_line
  <2> SUFFICES ASSUME IInv, Next, line' # line
               PROVE  Screen!Write \/ Screen!EndOfString
    BY DEF vars
  <2>1. PICK t \in Thread \ {Main} : putchar(t)
    BY DEF Next, conVars, consolePuts, Return
  <2>2. /\ pc[Task(t)] = "puts"
        /\ Len(line) = printed[t] /\ printed[t] \in 0 .. StrLen
        /\ \A i \in 1 .. Len(line) : line[i] = t
    BY <2>1, OwnLine DEF putchar, At
  <2>3. CASE printed[t] < StrLen
    BY <2>1, <2>2, <2>3 DEF putchar, Screen!Write
  <2>4. CASE ~ (printed[t] < StrLen)
    BY <2>1, <2>2, <2>4, ConsoleAssumption DEF putchar, Screen!EndOfString
  <2> QED BY <2>3, <2>4
<1> QED BY <1>1, <1>2, Invariance, PTL DEF Spec, ImplementsLines, Screen!Spec

-----------------------------------------------------------------------------
(* Induction up to n: P is the set of the numbers the claim is true of. *)
LEMMA UpTo ==
  ASSUME NEW P, NEW n \in Nat, 0 \in P, \A i \in 0 .. n - 1 : i \in P => i + 1 \in P
  PROVE  \A i \in 0 .. n : i \in P
<1> SUFFICES ASSUME NEW k \in 0 .. n, k \notin P
             PROVE  FALSE
  OBVIOUS
<1> DEFINE R     == OpToRel(<, Nat)
           Lacks == {i \in 0 .. n : i \notin P}
<1>1. IsWellFoundedOn(R, Nat)
  BY NatLessThanWellFounded
<1>2. Lacks \in SUBSET Nat /\ Lacks # {}
  OBVIOUS
<1>3. PICK m \in Lacks : \A i \in Lacks : <<i, m>> \notin R
  <2> HIDE DEF R, Lacks
  <2> QED BY <1>1, <1>2, WFMin
<1>4. m \in 0 .. n /\ m \notin P /\ m # 0
  OBVIOUS
<1>5. m - 1 \in 0 .. n - 1 /\ m - 1 + 1 = m /\ m - 1 < m /\ m - 1 \in 0 .. n
  BY <1>4
<1>6. m - 1 \notin P
  BY <1>4, <1>5
<1>7. m - 1 \in Lacks
  BY <1>5, <1>6
<1>8. <<m - 1, m>> \notin R
  BY <1>3, <1>7
<1> QED BY <1>2, <1>5, <1>7, <1>8 DEF OpToRel

-----------------------------------------------------------------------------
High == SIZE \div BASE     \* the greatest high byte of a cursor: 7

(* The numbers of print.S: 2000, 2048, 8192, 32768 and 65536 in this order. *)
LEMMA Sizes ==
  /\ COLS \in Nat \ {0} /\ ROWS \in Nat /\ ROWS >= 2 /\ BASE \in Nat /\ BASE >= 2
  /\ SIZE \in Nat /\ SIZE - COLS \in Nat /\ SIZE - COLS < SIZE
  /\ High \in Nat /\ Limit \in Nat /\ Half \in Nat /\ Wide \in Nat /\ SEGMENT \in Nat
  /\ SIZE < Limit /\ Limit <= SEGMENT /\ SEGMENT < Half /\ Half < Wide
  /\ Limit + COLS < Half
  /\ High < BASE /\ Limit = (High + 1) * BASE
<1>1. /\ COLS \in Nat \ {0} /\ ROWS \in Nat /\ ROWS >= 2 /\ BASE \in Nat /\ BASE >= 2
      /\ SEGMENT \in Nat
      /\ Limit <= SEGMENT /\ SEGMENT < Half /\ Limit + COLS < Half
  BY ScreenAssumption
<1>2. PICK c \in Nat \ {0}, r \in Nat, b \in Nat :
        /\ c = COLS /\ r = ROWS /\ b = BASE /\ r >= 2 /\ b >= 2
  BY <1>1
<1>3. PICK z \in Nat : z = c * r /\ z = SIZE
  BY <1>2 DEF SIZE
<1>4. z >= 2 * c
  BY <1>2, <1>3
<1>5. PICK h \in Nat, m \in 0 .. b - 1 : h = z \div b /\ z = h * b + m
  BY <1>2, <1>3
<1>6. High = h /\ Limit = (h + 1) * b
  BY <1>2, <1>3, <1>5 DEF High, Limit
<1>7. PICK x \in Nat : x = h * b
  BY <1>2, <1>5
<1>8. (h + 1) * b = x + b
  BY <1>2, <1>5, <1>7
<1>9. z < Limit /\ Limit \in Nat
  BY <1>2, <1>3, <1>5, <1>6, <1>7, <1>8
<1>10. PICK w \in Nat : w = b * b /\ w = Wide
  BY <1>2 DEF Wide
<1>11. w >= 4
  BY <1>2, <1>10
<1>12. Half = w \div 2 /\ Half \in Nat /\ Half < w
  BY <1>10, <1>11 DEF Half
<1>13. h < b
  <2>1. SUFFICES ASSUME h >= b PROVE FALSE
    BY <1>2, <1>5
  <2>2. h * b >= b * b
    BY <1>2, <1>5, <2>1
  <2> QED BY <1>1, <1>2, <1>6, <1>7, <1>8, <1>10, <1>12, <2>2
<1> QED BY <1>1, <1>2, <1>3, <1>4, <1>6, <1>9, <1>10, <1>12, <1>13

(* A cursor is put together from its two bytes, and taken apart again. *)
LEMMA CursorBytes ==
  /\ \A h \in 0 .. High, l \in 0 .. BASE - 1 : h * BASE + l \in 0 .. Limit - 1
  /\ \A p \in 0 .. Limit - 1 : /\ p \div BASE \in 0 .. High
                               /\ p % BASE \in 0 .. BASE - 1
                               /\ (p \div BASE) * BASE + (p % BASE) = p
<1>1. PICK b \in Nat \ {0}, H \in Nat : b = BASE /\ H = High /\ Limit = (H + 1) * b
  BY Sizes
<1>2. PICK y \in Nat : y = H * b
  BY <1>1
<1>3. Limit = y + b
  BY <1>1, <1>2
<1>4. ASSUME NEW h \in 0 .. H, NEW l \in 0 .. b - 1
      PROVE  h * b + l \in 0 .. Limit - 1
  <2>1. h * b <= H * b /\ h * b >= 0
    BY <1>1
  <2>2. PICK x \in Int : x = h * b
    BY <1>1
  <2> QED BY <1>1, <1>2, <1>3, <2>1, <2>2
<1>5. ASSUME NEW p \in 0 .. Limit - 1
      PROVE  /\ p \div b \in 0 .. H
             /\ p % b \in 0 .. b - 1
             /\ (p \div b) * b + (p % b) = p
  <2>1. p \in Nat
    BY Sizes
  <2>2. PICK q \in Nat, m \in 0 .. b - 1 : q = p \div b /\ m = p % b /\ p = q * b + m
    BY <1>1, <2>1
  <2>3. q <= H
    <3>1. SUFFICES ASSUME q >= H + 1 PROVE FALSE
      BY <1>1, <2>2
    <3>2. q * b >= (H + 1) * b
      BY <1>1, <2>2, <3>1
    <3>3. PICK x \in Nat : x = q * b
      BY <1>1, <2>2
    <3> QED BY <1>1, <1>3, <2>2, <3>2, <3>3
  <2>4. q \in 0 .. H
    BY <2>2, <2>3
  <2>5. (p \div b) * b + (p % b) = p
    BY <2>2
  <2> QED BY <2>2, <2>4, <2>5
<1> QED BY <1>1, <1>4, <1>5

(* The smaller of the two terms of a division. *)
LEMMA RowStart ==
  ASSUME NEW p \in Nat
  PROVE  p - (p % COLS) \in Nat /\ p - (p % COLS) <= p
<1>1. PICK c \in Nat \ {0} : c = COLS
  BY Sizes
<1>2. PICK q \in Nat, m \in 0 .. c - 1 : q = p \div c /\ m = p % c /\ p = q * c + m
  BY <1>1
<1>3. PICK x \in Nat : x = q * c
  BY <1>1, <1>2
<1> QED BY <1>1, <1>2, <1>3

(* Where a character is stored, and which one is not. *)
LEMMA Stored ==
  ASSUME NEW p \in 0 .. Limit - 1, NEW ch
  PROVE  /\ Outside(p, ch) <=> ch = BS /\ p = 0
         /\ ch # BS => Target(p, ch) = p
         /\ ch = BS /\ p # 0 => Target(p, ch) = p - 1
<1>1. /\ p \in Nat /\ p < Half /\ p < SEGMENT /\ Half \in Nat \ {0} /\ SEGMENT \in Nat
      /\ SEGMENT <= Half - 1
  BY Sizes
<1>2. p % Half = p
  BY <1>1
<1>3. p # 0 => (p - 1) % Half = p - 1
  BY <1>1
<1>4. (0 - 1) % Half = Half - 1
  BY <1>1
<1>5. LF # BS
  BY ScreenAssumption
<1>6. ch # BS => Target(p, ch) = p
  BY <1>2 DEF Target
<1>7. ch = BS /\ p # 0 => Target(p, ch) = p - 1
  BY <1>3 DEF Target
<1>8. ch = BS /\ p = 0 => Target(p, ch) = Half - 1
  BY <1>4 DEF Target
<1> QED BY <1>1, <1>5, <1>6, <1>7, <1>8 DEF Outside

(* putchar leaves the cursor below the limit. *)
LEMMA PutcharInside ==
  ASSUME NEW c, NEW p \in 0 .. Limit - 1, NEW ch, ~ Outside(p, ch)
  PROVE  Putchar(c, p, ch).pos \in 0 .. Limit - 1
<1>1. ASSUME NEW q \in 0 .. Limit, NEW d PROVE LineFeed(d, q).pos \in 0 .. Limit - 1
  <2>1. q \in Nat /\ q - (q % COLS) \in Nat /\ q - (q % COLS) <= q
    BY Sizes, RowStart
  <2>2. PICK x \in Nat : x = q - (q % COLS)
    BY <2>1
  <2>3. x + COLS \in 0 .. Half - 1
    BY <2>1, <2>2, Sizes
  <2>4. Below(q) = x + COLS
    BY <2>2, <2>3, Sizes DEF Below
  <2>5. CASE OnScreen(Below(q))
    BY <2>3, <2>4, <2>5, Sizes DEF LineFeed, OnScreen
  <2>6. CASE ~ OnScreen(Below(q))
    BY <2>6, Sizes DEF LineFeed
  <2> QED BY <2>5, <2>6
<1>2. p \in Nat /\ p + 1 \in 0 .. Limit /\ p \in 0 .. Limit
  BY Sizes
<1>3. CASE ch = LF
  <2>1. Putchar(c, p, ch) = LineFeed(c, p)
    BY <1>3, ScreenAssumption DEF Putchar
  <2> QED BY <1>1, <1>2, <2>1
<1>4. CASE ch = BS
  <2>1. p # 0 /\ Target(p, ch) = p - 1
    BY <1>4, Stored
  <2>2. Putchar(c, p, ch).pos = p - 1
    BY <1>4, <2>1, ScreenAssumption DEF Putchar
  <2> QED BY <1>2, <2>1, <2>2, Sizes
<1>5. CASE ch # LF /\ ch # BS
  <2>1. Target(p, ch) = p
    BY <1>5, Stored
  <2> DEFINE d == [c EXCEPT ![p] = ch]
  <2>2. Putchar(c, p, ch) = IF OnScreen(p + 1) THEN [cells |-> d, pos |-> p + 1]
                              ELSE LineFeed(d, p + 1)
    BY <1>5, <2>1 DEF Putchar
  <2> HIDE DEF d
  <2>3. CASE OnScreen(p + 1)
    BY <1>2, <2>2, <2>3, Sizes DEF OnScreen
  <2>4. CASE ~ OnScreen(p + 1)
    BY <1>1, <1>2, <2>2, <2>4
  <2> QED BY <2>3, <2>4
<1> QED BY <1>3, <1>4, <1>5

-----------------------------------------------------------------------------
(***************************************************************************)
(* No putchar stores beyond the segment until one is interrupted where the *)
(* handler makes it read the low byte of the cursor for the high one.      *)
(***************************************************************************)
HaveBx == {"store", "selectHigh", "writeHigh", "selectLowAgain", "writeLow"}

InsideInv ==
  hit # "readHigh" =>
    /\ fault # "beyond"
    /\ cursor \in [{14, 15} -> Nat] /\ cursor[14] \in 0 .. High /\ cursor[15] \in 0 .. BASE - 1
    /\ stage = "readHigh" => index = 14
    /\ stage \in {"readLow", "writeLow"} => index = 15
    /\ stage = "writeHigh" => index \in {14, 15}
    /\ stage \in {"selectLow", "readLow"} => ah \in 0 .. High
    /\ stage \in HaveBx => bx \in 0 .. Limit - 1

(* puts of a text without backspaces keeps the cursor below the limit. *)
Fine(v) == v.fault = "none" /\ v.pos \in 0 .. Limit - 1

LEMMA PutAtOnceInside ==
  ASSUME NEW v, Fine(v), NEW ch \in Char \cup {LF}
  PROVE  Fine(PutAtOnce(v, ch))
<1>1. ch # BS
  BY ScreenAssumption
<1>2. ~ Outside(v.pos, ch)
  BY <1>1, Stored DEF Fine
<1> DEFINE new == Putchar(v.cells, v.pos, ch)
<1>3. PutAtOnce(v, ch) = [cells |-> new.cells, pos |-> new.pos, fault |-> "none"]
  BY <1>2 DEF PutAtOnce, Fine
<1>4. new.pos \in 0 .. Limit - 1
  BY <1>2, PutcharInside DEF Fine
<1> HIDE DEF new
<1> QED BY <1>3, <1>4 DEF Fine

(* What putchar has made of it after each character. *)
LEMMA PutAllSteps ==
  ASSUME NEW v, NEW S, NEW string \in Seq(S)
  PROVE  \E f : /\ f[0] = v /\ f[Len(string)] = PutAll(v, string)
                /\ \A i \in 0 .. Len(string) - 1 : f[i + 1] = PutAtOnce(f[i], string[i + 1])
<1> DEFINE N == Len(string)
           Rec(f, m) == f = [i \in 0 .. m |-> IF i = 0 THEN v
                                         ELSE PutAtOnce(f[i - 1], string[i])]
           P == {m \in Nat : \E f : Rec(f, m)}
<1>1. N \in Nat
  OBVIOUS
<1>2. 0 \in P
  <2>1. Rec([i \in 0 .. 0 |-> v], 0)
    OBVIOUS
  <2> QED BY <2>1
<1>3. ASSUME NEW m \in 0 .. N - 1, m \in P PROVE m + 1 \in P
  <2>1. PICK f : Rec(f, m)
    BY <1>3
  <2> DEFINE g == [i \in 0 .. m + 1 |-> IF i = m + 1 THEN PutAtOnce(f[m], string[m + 1])
                                        ELSE f[i]]
  <2>2. m \in Nat
    OBVIOUS
  <2>3. \A i \in 0 .. m : f[i] = IF i = 0 THEN v ELSE PutAtOnce(f[i - 1], string[i])
    BY <2>1
  <2>4. ASSUME NEW i \in 0 .. m + 1
        PROVE  g[i] = IF i = 0 THEN v ELSE PutAtOnce(g[i - 1], string[i])
    <3>1. i # 0 => i - 1 \in 0 .. m /\ g[i - 1] = f[i - 1]
      BY <2>2
    <3>2. CASE i = m + 1
      BY <2>2, <3>1, <3>2
    <3>3. CASE i \in 0 .. m
      BY <2>2, <2>3, <3>1, <3>3
    <3> QED BY <2>2, <3>2, <3>3
  <2>5. g = [i \in 0 .. m + 1 |-> g[i]]
    OBVIOUS
  <2>6. Rec(g, m + 1)
    <3> HIDE DEF g
    <3> QED BY <2>4, <2>5
  <2> HIDE DEF g, Rec
  <2> QED BY <2>2, <2>6
<1>4. N \in P
  <2> HIDE DEF P, N
  <2>1. \A i \in 0 .. N : i \in P
    BY <1>1, <1>2, <1>3, UpTo
  <2> QED BY <1>1, <2>1
<1> DEFINE F == CHOOSE f : Rec(f, N)
<1>5. Rec(F, N)
  <2> HIDE DEF Rec
  <2> QED BY <1>4
<1>6. F[N] = PutAll(v, string)
  BY DEF PutAll
<1> HIDE DEF F
<1>7. \A i \in 0 .. N : F[i] = IF i = 0 THEN v ELSE PutAtOnce(F[i - 1], string[i])
  BY <1>5
<1>8. \A i \in 0 .. N - 1 : i + 1 \in 0 .. N /\ i + 1 # 0 /\ i + 1 - 1 = i /\ 0 \in 0 .. N
  BY <1>1
<1>9. \A i \in 0 .. N - 1 : F[i + 1] = PutAtOnce(F[i], string[i + 1])
  BY <1>7, <1>8
<1>10. F[0] = v
  BY <1>1, <1>7
<1> QED BY <1>6, <1>9, <1>10

LEMMA PutAllInside ==
  ASSUME NEW v, Fine(v), NEW string \in Seq(Char \cup {LF})
  PROVE  Fine(PutAll(v, string))
<1>1. PICK f : /\ f[0] = v /\ f[Len(string)] = PutAll(v, string)
               /\ \A i \in 0 .. Len(string) - 1 : f[i + 1] = PutAtOnce(f[i], string[i + 1])
  BY PutAllSteps
<1> DEFINE P == {i \in Nat : Fine(f[i])}
<1>2. Len(string) \in Nat /\ \A i \in 0 .. Len(string) - 1 : string[i + 1] \in Char \cup {LF}
  OBVIOUS
<1>3. 0 \in P
  BY <1>1
<1>4. \A i \in 0 .. Len(string) - 1 : i \in P => i + 1 \in P
  BY <1>1, <1>2, PutAtOnceInside
<1>5. Len(string) \in P
  <2> HIDE DEF P
  <2>1. \A i \in 0 .. Len(string) : i \in P
    BY <1>2, <1>3, <1>4, UpTo
  <2> QED BY <1>2, <2>1
<1> QED BY <1>1, <1>5

-----------------------------------------------------------------------------
LEMMA InsideStarts == ScreenInit => InsideInv
  BY Sizes DEF ScreenInit, InsideInv, HaveBx

LEMMA InsideKeeps == ASSUME InsideInv, [ScreenNext]_screenVars PROVE InsideInv'
<1> USE DEF InsideInv, Go, video, HaveBx
<1>1. ASSUME Begin PROVE InsideInv'
  BY <1>1 DEF Begin
<1>2. ASSUME ReadHigh PROVE InsideInv'
  BY <1>2 DEF ReadHigh
<1>3. ASSUME ReadLow PROVE InsideInv'
  <2> SUFFICES ASSUME hit # "readHigh" PROVE InsideInv'
    BY <1>3 DEF ReadLow
  <2>1. bx' = ah * BASE + cursor[15] /\ ah \in 0 .. High /\ cursor[15] \in 0 .. BASE - 1
    BY <1>3 DEF ReadLow
  <2>2. bx' \in 0 .. Limit - 1
    BY <2>1, CursorBytes
  <2> QED BY <1>3, <2>2 DEF ReadLow
<1>4. ASSUME Store PROVE InsideInv'
  <2> SUFFICES ASSUME hit # "readHigh" PROVE InsideInv'
    BY <1>4 DEF Store
  <2>1. bx \in 0 .. Limit - 1
    BY <1>4 DEF Store
  <2>2. CASE Outside(bx, cl)
    <3>1. fault' = "backspace" /\ bx' = bx
      BY <1>4, <2>1, <2>2, Stored DEF Store
    <3> QED BY <1>4, <2>1, <3>1 DEF Store
  <2>3. CASE ~ Outside(bx, cl)
    <3>1. bx' = Putchar(cells, bx, cl).pos /\ fault' = fault
      BY <1>4, <2>3 DEF Store
    <3>2. bx' \in 0 .. Limit - 1
      BY <2>1, <2>3, <3>1, PutcharInside
    <3> QED BY <1>4, <3>1, <3>2 DEF Store
  <2> QED BY <2>2, <2>3
<1>5. ASSUME WriteHigh PROVE InsideInv'
  <2> SUFFICES ASSUME hit # "readHigh" PROVE InsideInv'
    BY <1>5 DEF WriteHigh
  <2>1. PICK h \in 0 .. High : h = bx \div BASE
    BY <1>5, CursorBytes DEF WriteHigh
  <2>2. h \in Nat /\ h \in 0 .. BASE - 1
    BY Sizes
  <2>3. cursor' = [cursor EXCEPT ![index] = h] /\ index \in {14, 15}
    BY <1>5, <2>1 DEF WriteHigh
  <2>4. /\ cursor' \in [{14, 15} -> Nat]
        /\ cursor'[14] \in 0 .. High /\ cursor'[15] \in 0 .. BASE - 1
    BY <2>2, <2>3
  <2> QED BY <1>5, <2>4 DEF WriteHigh
<1>6. ASSUME WriteLow PROVE InsideInv'
  <2> SUFFICES ASSUME hit # "readHigh" PROVE InsideInv'
    BY <1>6 DEF WriteLow
  <2>1. PICK l \in 0 .. BASE - 1 : l = bx % BASE
    BY <1>6, CursorBytes DEF WriteLow
  <2>2. l \in Nat
    BY Sizes
  <2>3. cursor' = [cursor EXCEPT ![15] = l]
    BY <1>6, <2>1 DEF WriteLow
  <2>4. /\ cursor' \in [{14, 15} -> Nat]
        /\ cursor'[14] \in 0 .. High /\ cursor'[15] \in 0 .. BASE - 1
    BY <2>2, <2>3
  <2> QED BY <1>6, <2>4 DEF WriteLow
<1>7. ASSUME \/ Select("selectLow", "readLow", 15)
             \/ Select("selectHigh", "writeHigh", 14)
             \/ Select("selectLowAgain", "writeLow", 15)
      PROVE  InsideInv'
  BY <1>7 DEF Select
<1>8. ASSUME unknownKey PROVE InsideInv'
  <2> SUFFICES ASSUME hit' # "readHigh" PROVE InsideInv'
    OBVIOUS
  <2> DEFINE v   == [cells |-> cells, pos |-> Cursor, fault |-> fault]
             new == PutAll(v, Unknown)
  <2>1. /\ fault = "none" /\ fault' = new.fault /\ index' = 15
        /\ cursor' = [r \in {14, 15} |-> IF r = 14 THEN new.pos \div BASE
                                         ELSE new.pos % BASE]
        /\ hit' = IF stage = "idle" \/ hit = "readHigh" THEN hit
                  ELSE IF stage = "readHigh" THEN stage ELSE "elsewhere"
        /\ stage' = stage /\ ah' = ah /\ bx' = bx
    BY <1>8 DEF unknownKey
  <2>2. hit # "readHigh" /\ stage # "readHigh"
    BY <2>1
  <2>3. Cursor \in 0 .. Limit - 1
    BY <2>2, CursorBytes DEF Cursor
  <2>4. Fine(v)
    BY <2>1, <2>3 DEF Fine
  <2>5. Unknown \in Seq(Char \cup {LF})
    BY ScreenAssumption
  <2> HIDE DEF v
  <2>6. Fine(new)
    BY <2>4, <2>5, PutAllInside
  <2> HIDE DEF new
  <2>7. PICK h \in 0 .. High, l \in 0 .. BASE - 1 :
          h = new.pos \div BASE /\ l = new.pos % BASE
    BY <2>6, CursorBytes DEF Fine
  <2>8. h \in Nat /\ l \in Nat
    BY Sizes
  <2>9. /\ cursor' \in [{14, 15} -> Nat]
        /\ cursor'[14] \in 0 .. High /\ cursor'[15] \in 0 .. BASE - 1
    BY <2>1, <2>7, <2>8
  <2>10. fault' = "none"
    BY <2>1, <2>6 DEF Fine
  <2> QED BY <2>1, <2>2, <2>9, <2>10
<1>9. CASE UNCHANGED screenVars
  BY <1>9 DEF screenVars
<1> QED BY <1>1, <1>2, <1>3, <1>4, <1>5, <1>6, <1>7, <1>8, <1>9 DEF ScreenNext

(***************************************************************************)
(* For screens, segments and texts of every size: as long as no handler    *)
(* came between the selection of register 14 and its reading, putchar      *)
(* stores nothing beyond the video segment, wherever else it is            *)
(* interrupted.                                                            *)
(***************************************************************************)
THEOREM ScreenStaysInside == ScreenSpec => []InterruptedStaysInside
<1>1. InsideInv => InterruptedStaysInside
  BY DEF InsideInv, InterruptedStaysInside
<1>2. ScreenInit => InsideInv
  BY InsideStarts
<1>3. InsideInv /\ [ScreenNext]_screenVars => InsideInv'
  BY InsideKeeps
<1> QED BY <1>1, <1>2, <1>3, PTL DEF ScreenSpec

-----------------------------------------------------------------------------
(* The cell of a row and a column of the screen, both counted from 0. *)
Cell(row, col) == row * COLS + col

(* Cells that follow each other, in a row and from one row to the next. *)
LEMMA CellSteps ==
  ASSUME NEW row \in Nat
  PROVE  /\ \A col \in Nat : /\ Cell(row, col) \in Nat
                             /\ Cell(row, col) + 1 = Cell(row, col + 1)
                             /\ Cell(row, col) + COLS = Cell(row + 1, col)
                             /\ Cell(row, col) = Cell(row, 0) + col
         /\ Cell(row, COLS) = Cell(row + 1, 0)
         /\ Cell(row, COLS - 1) + 1 = Cell(row + 1, 0)
         /\ row >= 1 => Cell(row, 0) >= COLS
<1>1. PICK c \in Nat \ {0} : c = COLS
  BY Sizes
<1>2. PICK x \in Nat : x = row * c
  BY <1>1
<1>3. (row + 1) * c = x + c
  BY <1>1, <1>2
<1>4. row >= 1 => x >= c
  <2>1. row >= 1 => row * c >= 1 * c
    BY <1>1
  <2> QED BY <1>1, <1>2, <2>1
<1> QED BY <1>1, <1>2, <1>3, <1>4 DEF Cell

(* The rows of cells are in order. *)
LEMMA RowsInOrder ==
  ASSUME NEW r \in Nat, NEW s \in Nat, r < s
  PROVE  Cell(r, 0) + COLS <= Cell(s, 0)
<1>1. PICK c \in Nat \ {0} : c = COLS
  BY Sizes
<1>2. PICK x \in Nat, y \in Nat : x = r * c /\ y = s * c
  BY <1>1
<1>3. (r + 1) * c <= s * c
  BY <1>1
<1>4. (r + 1) * c = x + c
  BY <1>1, <1>2
<1> QED BY <1>1, <1>2, <1>3, <1>4 DEF Cell

(* Each cell of the screen is of one row and one column. *)
LEMMA Grid ==
  ASSUME NEW r \in 0 .. ROWS - 1, NEW k \in 0 .. COLS - 1
  PROVE  /\ Cell(r, k) \in 0 .. SIZE - 1
         /\ \A s \in 0 .. ROWS - 1, m \in 0 .. COLS - 1 :
              Cell(r, k) = Cell(s, m) => r = s /\ k = m
         /\ Cell(ROWS, 0) = SIZE /\ Cell(ROWS - 1, 0) = SIZE - COLS
<1>1. /\ r \in Nat /\ k \in Nat /\ ROWS \in Nat /\ ROWS - 1 \in Nat
      /\ COLS \in Nat /\ SIZE \in Nat
  BY Sizes
<1>2. Cell(r, k) = Cell(r, 0) + k /\ Cell(r, 0) \in Nat
  BY <1>1, CellSteps
<1>3. Cell(ROWS, 0) = SIZE
  <2>1. PICK c \in Nat, n \in Nat : c = COLS /\ n = ROWS
    BY Sizes
  <2>2. n * c + 0 = c * n
    BY <2>1
  <2> QED BY <2>1, <2>2 DEF Cell, SIZE
<1>4. Cell(r, 0) + COLS <= SIZE
  BY <1>1, <1>3, RowsInOrder
<1>5. Cell(ROWS - 1, 0) + COLS = Cell(ROWS, 0) /\ Cell(ROWS - 1, 0) \in Nat
  BY <1>1, CellSteps
<1>6. ASSUME NEW s \in 0 .. ROWS - 1, NEW m \in 0 .. COLS - 1, Cell(r, k) = Cell(s, m)
      PROVE  r = s /\ k = m
  <2>1. s \in Nat /\ m \in Nat
    BY <1>1
  <2>2. Cell(s, m) = Cell(s, 0) + m /\ Cell(s, 0) \in Nat
    BY <2>1, CellSteps
  <2>3. ~ (r < s)
    BY <1>1, <1>2, <1>6, <2>1, <2>2, RowsInOrder
  <2>4. ~ (s < r)
    BY <1>1, <1>2, <1>6, <2>1, <2>2, RowsInOrder
  <2>5. r = s
    BY <1>1, <2>1, <2>3, <2>4
  <2> QED BY <1>1, <1>2, <1>6, <2>1, <2>2, <2>5
<1> QED BY <1>1, <1>2, <1>3, <1>4, <1>5, <1>6

(* A cell of the screen gives its row and column. *)
LEMMA RowAndColumn ==
  ASSUME NEW i \in 0 .. SIZE - 1
  PROVE  /\ i \div COLS \in 0 .. ROWS - 1 /\ i % COLS \in 0 .. COLS - 1
         /\ i = Cell(i \div COLS, i % COLS)
<1>1. PICK c \in Nat \ {0} : c = COLS
  BY Sizes
<1>2. i \in Nat /\ SIZE \in Nat /\ ROWS \in Nat /\ i < SIZE
  BY Sizes
<1>3. PICK q \in Nat, m \in 0 .. c - 1 : q = i \div c /\ m = i % c /\ i = q * c + m
  BY <1>1, <1>2
<1>4. i = Cell(q, m)
  BY <1>1, <1>3 DEF Cell
<1>7. m \in Nat /\ Cell(q, m) = Cell(q, 0) + m /\ Cell(q, 0) \in Nat
  <2>1. m \in Nat
    BY <1>1, <1>3
  <2> QED BY <1>3, <2>1, CellSteps
<1>5. ~ (q > ROWS)
  <2>1. q > ROWS => Cell(ROWS, 0) + COLS <= Cell(q, 0)
    BY <1>2, <1>3, RowsInOrder
  <2>2. Cell(ROWS, 0) = SIZE
    BY Grid, Sizes
  <2> QED BY <1>1, <1>2, <1>3, <1>4, <1>7, <2>1, <2>2
<1>6. q # ROWS
  <2> SUFFICES ASSUME q = ROWS PROVE FALSE
    OBVIOUS
  <2>1. Cell(q, 0) = SIZE
    BY Grid, Sizes
  <2>2. i = SIZE + m
    BY <1>4, <1>7, <2>1
  <2> QED BY <1>2, <1>7, <2>2
<1> QED BY <1>1, <1>2, <1>3, <1>4, <1>5, <1>6

(* div finds the beginning of the line, from which a line feed goes on. *)
LEMMA LineStart ==
  ASSUME NEW r \in 0 .. ROWS, NEW k \in 0 .. COLS - 1
  PROVE  Cell(r, k) - (Cell(r, k) % COLS) = Cell(r, 0)
<1>1. PICK c \in Nat \ {0} : c = COLS
  BY Sizes
<1>2. r \in Nat /\ k \in 0 .. c - 1
  BY <1>1, Sizes
<1>3. PICK x \in Nat : x = r * c
  BY <1>1, <1>2
<1>4. (r * c + k) % c = k
  BY <1>1, <1>2
<1> QED BY <1>1, <1>2, <1>3, <1>4 DEF Cell

(* The first cells of lines: only that of the line after the last is beyond. *)
LEMMA LineOnScreen ==
  ASSUME NEW r \in 0 .. ROWS
  PROVE  /\ Cell(r, 0) \in Nat
         /\ OnScreen(Cell(r, 0)) <=> r < ROWS
         /\ r \in 1 .. ROWS => Below(Cell(r - 1, 0)) = Cell(r, 0)
         /\ ~ OnScreen(Below(SIZE))
<1>1. ROWS \in Nat /\ r \in Nat /\ COLS \in Nat \ {0} /\ SIZE \in Nat /\ Half \in Nat
      /\ Wide \in Nat /\ SIZE + COLS < Half /\ Half < Wide
  BY Sizes
<1>2. Cell(ROWS, 0) = SIZE
  BY Grid, Sizes
<1>3. Cell(r, 0) \in Nat /\ Cell(r, 0) <= SIZE /\ (r < ROWS => Cell(r, 0) < SIZE)
  <2>1. Cell(r, 0) \in Nat
    BY <1>1, CellSteps
  <2>2. r < ROWS => Cell(r, 0) + COLS <= SIZE
    BY <1>1, <1>2, RowsInOrder
  <2>3. r = ROWS \/ r < ROWS
    BY <1>1
  <2> QED BY <1>1, <1>2, <2>1, <2>2, <2>3
<1>4. OnScreen(Cell(r, 0)) <=> r < ROWS
  BY <1>1, <1>2, <1>3 DEF OnScreen
<1>5. ASSUME r \in 1 .. ROWS PROVE Below(Cell(r - 1, 0)) = Cell(r, 0)
  <2>1. r - 1 \in Nat /\ r - 1 \in 0 .. ROWS /\ r - 1 + 1 = r
    BY <1>1, <1>5
  <2>2. Cell(r - 1, 0) + COLS = Cell(r, 0)
    BY <2>1, CellSteps
  <2>3. Cell(r - 1, 0) - (Cell(r - 1, 0) % COLS) = Cell(r - 1, 0)
    BY <1>1, <2>1, LineStart
  <2>4. Cell(r, 0) % Wide = Cell(r, 0)
    BY <1>1, <1>3
  <2> QED BY <2>2, <2>3, <2>4 DEF Below
<1>6. ~ OnScreen(Below(SIZE))
  <2>1. SIZE - (SIZE % COLS) = SIZE
    BY <1>1, <1>2, LineStart
  <2>2. (SIZE + COLS) % Wide = SIZE + COLS
    BY <1>1
  <2>3. Below(SIZE) = SIZE + COLS
    BY <2>1, <2>2 DEF Below
  <2> QED BY <1>1, <2>3 DEF OnScreen
<1> QED BY <1>3, <1>4, <1>5, <1>6

-----------------------------------------------------------------------------
(***************************************************************************)
(* The screen shows the end of a text: its last ROWS rows, in the cells of *)
(* the screen, and the cursor where the text goes on.                      *)
(***************************************************************************)
Row         == [1 .. COLS -> Char \cup {Blank}]
TopOf(rows) == IF Len(rows) > ROWS THEN Len(rows) - ROWS ELSE 0

TextOK(text) == /\ text \in [rows : Seq(Row), at : Nat \X Nat]
                /\ text.at[1] \in TopOf(text.rows) + 1 .. Len(text.rows)
                /\ text.at[2] \in 1 .. COLS

(* The character of the text that belongs at a row and column of the screen. *)
Due(rows, row, col) == IF TopOf(rows) + row < Len(rows)
                       THEN rows[TopOf(rows) + row + 1][col + 1] ELSE Blank

CellsShow(c, rows) == /\ DOMAIN c = 0 .. SEGMENT - 1
                      /\ \A row \in 0 .. ROWS - 1, col \in 0 .. COLS - 1 :
                           c[Cell(row, col)] = Due(rows, row, col)

Shows(c, p, text) == /\ TextOK(text)
                     /\ p = Cell(text.at[1] - TopOf(text.rows) - 1, text.at[2] - 1)
                     /\ CellsShow(c, text.rows)

(* The rows of a text that are on the screen. *)
LEMMA Tops ==
  ASSUME NEW rows \in Seq(Row)
  PROVE  /\ TopOf(rows) \in Nat /\ TopOf(rows) <= Len(rows) /\ Len(rows) <= TopOf(rows) + ROWS
         /\ TopOf(rows) # 0 => Len(rows) = TopOf(rows) + ROWS
         /\ Len(rows) \in Nat
<1>1. Len(rows) \in Nat /\ ROWS \in Nat
  BY Sizes
<1> QED BY <1>1 DEF TopOf

(* The row and column of the screen that the cursor is at. *)
LEMMA TextPlaces ==
  ASSUME NEW text, TextOK(text)
  PROVE  /\ text.rows \in Seq(Row) /\ text.at[1] \in Nat /\ text.at[2] \in Nat
         /\ text.at[1] \in 1 .. Len(text.rows)
         /\ text.at[1] - TopOf(text.rows) \in 1 .. ROWS
         /\ text.at[1] - TopOf(text.rows) - 1 \in 0 .. ROWS - 1
         /\ text.at[2] - 1 \in 0 .. COLS - 1
         /\ TopOf(text.rows) \in Nat
         /\ text = [rows |-> text.rows, at |-> <<text.at[1], text.at[2]>>]
<1>1. text.rows \in Seq(Row) /\ text.at \in Nat \X Nat
  BY DEF TextOK
<1>2. text.at[1] \in Nat /\ text.at[2] \in Nat /\ text.at = <<text.at[1], text.at[2]>>
  BY <1>1
<1>3. text = [rows |-> text.rows, at |-> text.at]
  BY DEF TextOK
<1>4. ROWS \in Nat /\ COLS \in Nat
  BY Sizes
<1> DEFINE r == text.at[1]
           T == TopOf(text.rows)
           n == Len(text.rows)
<1>5. r \in T + 1 .. n /\ text.at[2] \in 1 .. COLS
  BY DEF TextOK
<1>6. T \in Nat /\ T <= n /\ n <= T + ROWS /\ n \in Nat
  BY <1>1, Tops
<1>7. r \in Nat
  BY <1>2
<1>8. text.at[2] - 1 \in 0 .. COLS - 1
  BY <1>2, <1>4, <1>5
<1> HIDE DEF r, T, n
<1>9. r - T \in 1 .. ROWS /\ r - T - 1 \in 0 .. ROWS - 1 /\ r \in 1 .. n
  BY <1>4, <1>5, <1>6, <1>7
<1> QED BY <1>1, <1>2, <1>3, <1>6, <1>8, <1>9 DEF r, T, n

(* The next position is where the screen shows the next line to begin. *)
LEMMA DownShows ==
  ASSUME NEW text, TextOK(text), NEW c, CellsShow(c, text.rows),
         text.at[1] - TopOf(text.rows) < ROWS
  PROVE  Shows(c, Cell(text.at[1] - TopOf(text.rows), 0), Down(text))
<1> DEFINE rows == text.rows
           r    == text.at[1]
           T    == TopOf(rows)
<1>1. /\ rows \in Seq(Row) /\ r \in 1 .. Len(rows) /\ r - T \in 1 .. ROWS - 1 /\ T \in Nat
      /\ Len(rows) \in Nat /\ ROWS \in Nat /\ r \in Nat /\ COLS \in Nat \ {0}
      /\ text = [rows |-> rows, at |-> <<r, text.at[2]>>]
  <2>1. /\ rows \in Seq(Row) /\ r \in Nat /\ r \in 1 .. Len(rows) /\ T \in Nat
        /\ r - T \in 1 .. ROWS /\ text = [rows |-> rows, at |-> <<r, text.at[2]>>]
    BY TextPlaces
  <2>2. Len(rows) \in Nat
    BY <2>1
  <2>3. ROWS \in Nat /\ COLS \in Nat \ {0}
    BY Sizes
  <2>4. r - T \in 1 .. ROWS - 1
    BY <2>1, <2>3
  <2> QED BY <2>1, <2>2, <2>3, <2>4
<1>2. T # 0 => Len(rows) = T + ROWS
  BY <1>1, Tops
<1>3. BlankRow \in Row
  BY DEF BlankRow, Row
<1>4. CASE r = Len(rows)
  <2>1. T = 0 /\ Len(rows) < ROWS
    BY <1>1, <1>2, <1>4
  <2> DEFINE more == Append(rows, BlankRow)
  <2>2. more \in Seq(Row) /\ Len(more) = Len(rows) + 1
    BY <1>1, <1>3
  <2>3. TopOf(more) = 0
    BY <1>1, <2>1, <2>2 DEF TopOf
  <2>4. Down(text) = [rows |-> more, at |-> <<r + 1, 1>>]
    BY <1>4 DEF Down
  <2>5. TextOK(Down(text))
    BY <1>1, <1>4, <2>2, <2>3, <2>4 DEF TextOK
  <2>6. ASSUME NEW row \in 0 .. ROWS - 1, NEW col \in 0 .. COLS - 1
        PROVE  Due(more, row, col) = Due(rows, row, col)
    <3>1. row \in Nat /\ col + 1 \in 1 .. COLS
      BY <1>1
    <3>2. CASE row < Len(rows)
      <4>1. more[row + 1] = rows[row + 1]
        BY <1>1, <3>1, <3>2
      <4>2. 0 + row < Len(more) /\ 0 + row < Len(rows)
        BY <1>1, <2>2, <3>1, <3>2
      <4> QED BY <2>1, <2>3, <3>1, <4>1, <4>2 DEF Due
    <3>3. CASE row = Len(rows)
      <4>1. more[row + 1] = BlankRow
        BY <1>1, <3>3
      <4>2. BlankRow[col + 1] = Blank
        BY <3>1 DEF BlankRow
      <4>3. Due(rows, row, col) = Blank
        BY <1>1, <2>1, <3>1, <3>3 DEF Due
      <4>4. 0 + row < Len(more) /\ 0 + row + 1 = row + 1
        BY <1>1, <2>2, <3>1, <3>3
      <4>5. Due(more, row, col) = more[row + 1][col + 1]
        BY <2>3, <4>4 DEF Due
      <4> QED BY <4>1, <4>2, <4>3, <4>5
    <3>4. CASE row > Len(rows)
      BY <1>1, <2>1, <2>2, <2>3, <3>1, <3>4 DEF Due
    <3> QED BY <1>1, <3>1, <3>2, <3>3, <3>4
  <2>7. CellsShow(c, more)
    <3> HIDE DEF more
    <3> QED BY <2>6 DEF CellsShow
  <2>8. Down(text).at[1] - TopOf(Down(text).rows) - 1 = r - T /\ Down(text).at[2] - 1 = 0
    BY <1>1, <2>1, <2>3, <2>4
  <2>9. Down(text).rows = more
    BY <2>4
  <2> QED BY <2>5, <2>7, <2>8, <2>9 DEF Shows
<1>5. CASE r # Len(rows)
  <2>1. Down(text) = [text EXCEPT !.at = <<r + 1, 1>>]
    BY <1>5 DEF Down
  <2>2. Down(text) = [rows |-> rows, at |-> <<r + 1, 1>>]
    BY <1>1, <2>1
  <2>3. TextOK(Down(text))
    BY <1>1, <1>5, <2>2 DEF TextOK
  <2>4. r + 1 - T - 1 = r - T /\ 1 - 1 = 0
    BY <1>1
  <2>5. Down(text).rows = rows /\ Down(text).at[1] = r + 1 /\ Down(text).at[2] = 1
    BY <2>2
  <2>6. TopOf(Down(text).rows) = T
    BY <2>5
  <2>7. /\ Down(text).rows = rows
        /\ Down(text).at[1] - TopOf(Down(text).rows) - 1 = r - T /\ Down(text).at[2] - 1 = 0
    BY <1>1, <2>4, <2>5, <2>6
  <2> QED BY <2>3, <2>7 DEF Shows
<1> QED BY <1>4, <1>5

(* From the last line, the screen scrolls up and the top row of it is lost. *)
LEMMA DownScrolls ==
  ASSUME NEW text, TextOK(text), NEW c, CellsShow(c, text.rows),
         ~ (text.at[1] - TopOf(text.rows) < ROWS)
  PROVE  Shows(scrollUp(c), SIZE - COLS, Down(text))
<1> DEFINE rows == text.rows
           r    == text.at[1]
           T    == TopOf(rows)
           more == Append(rows, BlankRow)
<1>1. /\ rows \in Seq(Row) /\ r \in 1 .. Len(rows) /\ r - T = ROWS /\ T \in Nat
      /\ Len(rows) \in Nat /\ ROWS \in Nat /\ ROWS >= 2 /\ r \in Nat /\ COLS \in Nat \ {0}
      /\ SIZE \in Nat /\ SEGMENT \in Nat /\ SIZE < SEGMENT /\ SIZE - COLS \in Nat
      /\ Len(rows) <= T + ROWS
  <2>1. /\ rows \in Seq(Row) /\ r \in Nat /\ r \in 1 .. Len(rows) /\ T \in Nat
        /\ r - T \in 1 .. ROWS
    BY TextPlaces
  <2>2. Len(rows) \in Nat /\ Len(rows) <= T + ROWS
    BY <2>1, Tops
  <2>3. /\ ROWS \in Nat /\ ROWS >= 2 /\ COLS \in Nat \ {0} /\ SIZE \in Nat
        /\ SEGMENT \in Nat /\ SIZE < SEGMENT /\ SIZE - COLS \in Nat
    BY Sizes
  <2>4. r - T = ROWS
    BY <2>1, <2>3
  <2> QED BY <2>1, <2>2, <2>3, <2>4
<1>2. r = Len(rows) /\ Len(rows) = T + ROWS
  BY <1>1
<1>3. BlankRow \in Row
  BY DEF BlankRow, Row
<1>4. more \in Seq(Row) /\ Len(more) = Len(rows) + 1
  BY <1>1, <1>3
<1>5. TopOf(more) = T + 1
  BY <1>1, <1>2, <1>4 DEF TopOf
<1>6. Down(text) = [rows |-> more, at |-> <<r + 1, 1>>]
  BY <1>2 DEF Down
<1>7. TextOK(Down(text))
  BY <1>1, <1>2, <1>4, <1>5, <1>6 DEF TextOK
<1>8. DOMAIN scrollUp(c) = 0 .. SEGMENT - 1
  BY DEF scrollUp, CellsShow
<1>9. ASSUME NEW row \in 0 .. ROWS - 1, NEW col \in 0 .. COLS - 1
      PROVE  scrollUp(c)[Cell(row, col)] = Due(more, row, col)
  <2>1. row \in Nat /\ col \in Nat /\ col + 1 \in 1 .. COLS /\ ROWS - 1 \in Nat
    <3>1. ROWS \in Nat /\ ROWS >= 2 /\ COLS \in Nat
      BY Sizes
    <3> HIDE DEF more, rows, r, T
    <3> QED BY <3>1
  <2>2. Cell(row, col) \in 0 .. SIZE - 1 /\ Cell(ROWS - 1, 0) = SIZE - COLS
    BY Grid
  <2>3. Cell(row, col) \in DOMAIN c
    BY <1>1, <2>2 DEF CellsShow
  <2>4. /\ Cell(row, col) = Cell(row, 0) + col /\ Cell(row, 0) \in Nat
        /\ Cell(row, col) + COLS = Cell(row + 1, col)
    BY <2>1, CellSteps
  <2>5. Due(more, row, col) = more[T + 1 + row + 1][col + 1]
    <3>1. T + 1 + row < Len(more)
      BY <1>1, <1>2, <1>4, <2>1
    <3> QED BY <1>5, <3>1 DEF Due
  <2>6. CASE row < ROWS - 1
    <3>1. Cell(row, 0) + COLS <= Cell(ROWS - 1, 0)
      BY <2>1, <2>6, RowsInOrder
    <3>2. Cell(row, col) < SIZE - COLS
      <4>1. col \in Nat /\ COLS \in Nat /\ col < COLS /\ SIZE \in Nat
        BY <1>1, <2>1
      <4>2. Cell(row, 0) + COLS <= SIZE - COLS
        BY <2>2, <3>1
      <4> QED BY <2>4, <4>1, <4>2
    <3>3. scrollUp(c)[Cell(row, col)] = c[Cell(row + 1, col)]
      BY <2>3, <2>4, <3>2 DEF scrollUp
    <3>4. row + 1 \in 0 .. ROWS - 1
      BY <1>1, <2>1, <2>6
    <3>5. c[Cell(row + 1, col)] = Due(rows, row + 1, col)
      BY <3>4 DEF CellsShow
    <3>6. T + (row + 1) < Len(rows) /\ T + (row + 1) + 1 = T + 1 + row + 1
      BY <1>1, <1>2, <2>1, <2>6
    <3>7. more[T + 1 + row + 1] = rows[T + 1 + row + 1]
      BY <1>1, <3>6
    <3>8. Due(rows, row + 1, col) = rows[T + 1 + row + 1][col + 1]
      BY <3>6 DEF Due
    <3> HIDE DEF more
    <3> QED BY <2>5, <3>3, <3>5, <3>7, <3>8
  <2>7. CASE row = ROWS - 1
    <3>1. Cell(row, col) >= SIZE - COLS
      BY <1>1, <2>1, <2>2, <2>4, <2>7
    <3>2. scrollUp(c)[Cell(row, col)] = Blank
      BY <1>1, <2>2, <2>3, <3>1 DEF scrollUp
    <3>3. T + 1 + row + 1 = Len(rows) + 1
      BY <1>1, <1>2, <2>7
    <3>4. more[T + 1 + row + 1] = BlankRow
      BY <1>1, <3>3
    <3>5. BlankRow[col + 1] = Blank
      BY <2>1 DEF BlankRow
    <3> HIDE DEF more
    <3> QED BY <2>5, <3>2, <3>4, <3>5
  <2> QED BY <1>1, <2>1, <2>6, <2>7
<1>10. /\ Down(text).rows = more
       /\ Down(text).at[1] - TopOf(Down(text).rows) - 1 = ROWS - 1
       /\ Down(text).at[2] - 1 = 0
  <2>1. Down(text).rows = more /\ Down(text).at[1] = r + 1 /\ Down(text).at[2] = 1
    BY <1>6
  <2>2. TopOf(Down(text).rows) = T + 1
    BY <1>5, <2>1
  <2>3. r + 1 - (T + 1) - 1 = ROWS - 1
    BY <1>1
  <2> HIDE DEF rows, r, T, more
  <2> QED BY <1>1, <2>1, <2>2, <2>3
<1>11. SIZE - COLS = Cell(ROWS - 1, 0)
  <2>1. 0 \in 0 .. ROWS - 1 /\ 0 \in 0 .. COLS - 1
    BY <1>1
  <2> QED BY <2>1, Grid
<1> HIDE DEF more
<1> QED BY <1>7, <1>8, <1>9, <1>10, <1>11 DEF Shows, CellsShow

(* A character that is put in a row of the text and in its cell. *)
Inked(rows, r, k, ch) == [rows EXCEPT ![r][k] = ch]
Lit(c, at, ch)        == [c EXCEPT ![at] = ch]

(* Both at the same place: the screen still shows the text. *)
LEMMA PutShows ==
  ASSUME NEW rows \in Seq(Row), NEW c, CellsShow(c, rows),
         NEW r \in Nat, r - TopOf(rows) - 1 \in 0 .. ROWS - 1, r <= Len(rows),
         NEW k \in 1 .. COLS, NEW ch \in Char \cup {Blank},
         NEW at, at = Cell(r - TopOf(rows) - 1, k - 1)
  PROVE  /\ Inked(rows, r, k, ch) \in Seq(Row)
         /\ Len(Inked(rows, r, k, ch)) = Len(rows)
         /\ CellsShow(Lit(c, at, ch), Inked(rows, r, k, ch))
<1> DEFINE T   == TopOf(rows)
           put == [rows EXCEPT ![r][k] = ch]
           d   == [c EXCEPT ![at] = ch]
<1>1. /\ ROWS \in Nat /\ COLS \in Nat /\ SIZE \in Nat /\ SEGMENT \in Nat /\ SIZE < SEGMENT
      /\ T \in Nat /\ Len(rows) \in Nat
  BY Sizes, Tops
<1>2. r \in 1 .. Len(rows) /\ k - 1 \in 0 .. COLS - 1
  BY <1>1
<1>3. rows[r] \in Row /\ rows \in [1 .. Len(rows) -> Row]
  BY <1>2
<1>4. [rows[r] EXCEPT ![k] = ch] \in Row
  BY <1>3 DEF Row
<1>5. put = [rows EXCEPT ![r] = [rows[r] EXCEPT ![k] = ch]]
  BY <1>2, <1>3
<1>6. put \in Seq(Row) /\ Len(put) = Len(rows)
  BY <1>2, <1>3, <1>4, <1>5
<1>7. TopOf(put) = T
  BY <1>6 DEF TopOf
<1>8. at \in 0 .. SIZE - 1 /\ at \in DOMAIN c /\ DOMAIN d = DOMAIN c
  BY <1>1, <1>2, Grid DEF CellsShow
<1>9. ASSUME NEW row \in 0 .. ROWS - 1, NEW col \in 0 .. COLS - 1
      PROVE  d[Cell(row, col)] = Due(put, row, col)
  <2>1. row \in Nat /\ col \in Nat /\ col + 1 \in 1 .. COLS /\ k \in Nat
    BY <1>1
  <2>2. Cell(row, col) \in DOMAIN c
    <3>1. Cell(row, col) \in 0 .. SIZE - 1
      BY Grid
    <3> QED BY <1>1, <3>1 DEF CellsShow
  <2>3. c[Cell(row, col)] = Due(rows, row, col)
    BY DEF CellsShow
  <2>4. CASE row = r - T - 1 /\ col = k - 1
    <3>1. T + row = r - 1 /\ T + row + 1 = r /\ T + row < Len(rows) /\ col + 1 = k
      BY <1>1, <1>2, <2>1, <2>4
    <3>2. put[r][k] = ch
      BY <1>2, <1>3, <1>5 DEF Row
    <3>3. d[Cell(row, col)] = ch
      BY <2>2, <2>4
    <3>4. Due(put, row, col) = put[T + row + 1][col + 1]
      BY <1>6, <1>7, <3>1 DEF Due
    <3> HIDE DEF put, d
    <3> QED BY <3>1, <3>2, <3>3, <3>4
  <2>5. CASE ~ (row = r - T - 1 /\ col = k - 1)
    <3>1. Cell(row, col) # at
      BY <1>2, <2>5, Grid
    <3>2. d[Cell(row, col)] = Due(rows, row, col)
      BY <2>2, <2>3, <3>1
    <3>3. ASSUME T + row < Len(rows)
          PROVE  put[T + row + 1][col + 1] = rows[T + row + 1][col + 1]
      <4>1. T + row + 1 \in 1 .. Len(rows)
        BY <1>1, <2>1, <3>3
      <4>2. CASE T + row + 1 = r
        <5>1. col + 1 # k
          BY <1>1, <2>1, <2>5, <4>2
        <5>2. put[r] = [rows[r] EXCEPT ![k] = ch]
          BY <1>2, <1>3, <1>5
        <5>3. rows[r] \in [1 .. COLS -> Char \cup {Blank}]
          BY <1>3 DEF Row
        <5>4. put[r][col + 1] = rows[r][col + 1]
          BY <2>1, <5>1, <5>2, <5>3
        <5> HIDE DEF put
        <5> QED BY <4>2, <5>4
      <4>3. CASE T + row + 1 # r
        BY <1>3, <1>5, <4>1, <4>3
      <4> QED BY <4>2, <4>3
    <3> HIDE DEF put, d
    <3> QED BY <1>6, <1>7, <3>2, <3>3 DEF Due
  <2> QED BY <2>4, <2>5
<1> HIDE DEF put, d
<1>10. CellsShow(d, put)
  BY <1>8, <1>9 DEF CellsShow
<1> QED BY <1>6, <1>10 DEF put, d, Inked, Lit

(* A text and the screen that shows it, put together from their parts. *)
LEMMA ShowsText ==
  ASSUME NEW rows \in Seq(Row), NEW r \in Nat, NEW k \in 1 .. COLS,
         TopOf(rows) + 1 <= r, r <= Len(rows),
         NEW c, CellsShow(c, rows), NEW p, p = Cell(r - TopOf(rows) - 1, k - 1)
  PROVE  Shows(c, p, [rows |-> rows, at |-> <<r, k>>])
<1>1. k \in Nat /\ Len(rows) \in Nat /\ TopOf(rows) \in Nat
  BY Sizes, Tops
<1> DEFINE text == [rows |-> rows, at |-> <<r, k>>]
<1>2. text.rows = rows /\ text.at[1] = r /\ text.at[2] = k
  OBVIOUS
<1>3. text \in [rows : Seq(Row), at : Nat \X Nat]
  BY <1>1
<1>4. r \in TopOf(rows) + 1 .. Len(rows)
  BY <1>1
<1> HIDE DEF text
<1>5. TextOK(text)
  BY <1>2, <1>3, <1>4 DEF TextOK
<1>6. Shows(c, p, text)
  BY <1>2, <1>5 DEF Shows
<1> QED BY <1>6 DEF text

(* .isLineFeed, at the cursor q or beyond the end of the screen. *)
LEMMA LineFeedShows ==
  ASSUME NEW text, TextOK(text), NEW c, CellsShow(c, text.rows), NEW q,
         \/ Below(q) = Cell(text.at[1] - TopOf(text.rows), 0)
         \/ ~ OnScreen(Below(q)) /\ ~ (text.at[1] - TopOf(text.rows) < ROWS)
  PROVE  Shows(LineFeed(c, q).cells, LineFeed(c, q).pos, Down(text))
<1> DEFINE n == text.at[1] - TopOf(text.rows)
<1>1. n \in 0 .. ROWS
  <2>1. n \in 1 .. ROWS
    BY TextPlaces
  <2> QED BY <2>1, Sizes
<1>2. OnScreen(Below(q)) <=> n < ROWS
  BY <1>1, LineOnScreen
<1>3. CASE n < ROWS
  <2>1. LineFeed(c, q) = [cells |-> c, pos |-> Cell(n, 0)]
    BY <1>2, <1>3 DEF LineFeed
  <2>2. Shows(c, Cell(n, 0), Down(text))
    BY <1>3, DownShows
  <2> HIDE DEF n
  <2> QED BY <2>1, <2>2
<1>4. CASE ~ (n < ROWS)
  <2>1. LineFeed(c, q) = [cells |-> scrollUp(c), pos |-> SIZE - COLS]
    BY <1>2, <1>4 DEF LineFeed
  <2>2. Shows(scrollUp(c), SIZE - COLS, Down(text))
    BY <1>4, DownScrolls
  <2> QED BY <2>1, <2>2
<1> QED BY <1>3, <1>4

(***************************************************************************)
(* What putchar does to the cells is what typing does to the text: it puts *)
(* the character, wraps at the end of a line, scrolls at the end of the    *)
(* screen, and erases backwards over the end of a line.                    *)
(***************************************************************************)
LEMMA PutcharTypes ==
  ASSUME NEW c, NEW p, NEW text, Shows(c, p, text),
         NEW ch \in Char \cup {LF, BS}, ~ Outside(p, ch)
  PROVE  Shows(Putchar(c, p, ch).cells, Putchar(c, p, ch).pos, Typed(text, ch))
<1> DEFINE rows == text.rows
           r    == text.at[1]
           k    == text.at[2]
           T    == TopOf(rows)
<1>1. /\ rows \in Seq(Row) /\ r \in Nat /\ k \in Nat /\ T \in Nat /\ r \in 1 .. Len(rows)
      /\ r - T \in 1 .. ROWS /\ r - T - 1 \in 0 .. ROWS - 1 /\ k - 1 \in 0 .. COLS - 1
      /\ text = [rows |-> rows, at |-> <<r, k>>]
  BY TextPlaces DEF Shows
<1>2. /\ TextOK(text) /\ p = Cell(r - T - 1, k - 1) /\ CellsShow(c, rows)
  BY DEF Shows
<1>3. /\ ROWS \in Nat /\ ROWS >= 2 /\ COLS \in Nat \ {0} /\ SIZE \in Nat /\ SIZE < Limit
      /\ Limit \in Nat
  BY Sizes
<1>4. p \in 0 .. SIZE - 1 /\ p \in 0 .. Limit - 1
  <2>1. p \in 0 .. SIZE - 1
    BY <1>1, <1>2, Grid
  <2> QED BY <1>3, <2>1
<1>5. /\ LF \notin Char /\ BS \notin Char /\ Blank \notin Char /\ LF # BS
  BY ScreenAssumption
<1> HIDE DEF rows, r, k, T
<1>6. Len(rows) \in Nat /\ k \in 1 .. COLS
  BY <1>1, <1>3
<1>7. CASE ch = LF
  <2>1. Putchar(c, p, ch) = LineFeed(c, p) /\ Typed(text, ch) = Down(text)
    BY <1>5, <1>7 DEF Putchar, Typed
  <2>2. r - T - 1 \in 0 .. ROWS /\ r - T - 1 \in Nat /\ r - T - 1 + 1 = r - T
    BY <1>1, <1>3
  <2>3. p - (p % COLS) = Cell(r - T - 1, 0)
    BY <1>1, <1>2, <2>2, LineStart
  <2>4. Cell(r - T - 1, 0) - (Cell(r - T - 1, 0) % COLS) = Cell(r - T - 1, 0)
    BY <1>3, <2>2, LineStart
  <2>5. Below(p) = Below(Cell(r - T - 1, 0))
    BY <2>3, <2>4 DEF Below
  <2>6. Below(p) = Cell(r - T, 0)
    <3>1. r - T \in 0 .. ROWS /\ r - T \in 1 .. ROWS
      BY <1>1, <1>3
    <3> QED BY <2>5, <3>1, LineOnScreen
  <2>7. Shows(LineFeed(c, p).cells, LineFeed(c, p).pos, Down(text))
    BY <1>2, <2>6, LineFeedShows DEF rows, r, T
  <2> QED BY <2>1, <2>7
<1>8. CASE ch = BS
  <2>1. p # 0 /\ Target(p, ch) = p - 1
    BY <1>4, <1>8, Stored
  <2>2. Putchar(c, p, ch) = [cells |-> Lit(c, p - 1, Blank), pos |-> p - 1]
    BY <1>5, <1>8, <2>1 DEF Putchar, Lit
  <2>3. ASSUME NEW br \in Nat, NEW bk \in 1 .. COLS,
               br - T - 1 \in 0 .. ROWS - 1, br <= Len(rows), br >= T + 1,
               p - 1 = Cell(br - T - 1, bk - 1),
               Typed(text, ch) = [rows |-> Inked(rows, br, bk, Blank), at |-> <<br, bk>>]
        PROVE  Shows(Putchar(c, p, ch).cells, Putchar(c, p, ch).pos, Typed(text, ch))
    <3> DEFINE put == Inked(rows, br, bk, Blank)
    <3>1. put \in Seq(Row) /\ Len(put) = Len(rows) /\ CellsShow(Lit(c, p - 1, Blank), put)
      <4>1. Blank \in Char \cup {Blank}
        OBVIOUS
      <4> QED BY <1>1, <1>2, <2>3, <4>1, PutShows DEF T
    <3> HIDE DEF put
    <3>2. TopOf(put) = T
      BY <3>1 DEF TopOf, T
    <3>3. Typed(text, ch) = [rows |-> put, at |-> <<br, bk>>]
      BY <2>3 DEF put
    <3>4. p - 1 = Cell(br - TopOf(put) - 1, bk - 1) /\ br >= TopOf(put) + 1 /\ br <= Len(put)
      BY <2>3, <3>1, <3>2
    <3>5. TopOf(put) + 1 <= br
      BY <1>1, <2>3, <3>2
    <3>6. Shows(Lit(c, p - 1, Blank), p - 1, [rows |-> put, at |-> <<br, bk>>])
      BY <2>3, <3>1, <3>4, <3>5, ShowsText
    <3> QED BY <2>2, <3>3, <3>6
  <2>4. CASE k > 1
    <3>1. Typed(text, ch) = [rows |-> Inked(rows, r, k - 1, Blank), at |-> <<r, k - 1>>]
      BY <1>5, <1>8, <2>4 DEF Typed, Inked, rows, r, k
    <3>2. p - 1 = Cell(r - T - 1, k - 1 - 1)
      <4>1. k - 2 \in Nat /\ k - 1 \in Nat /\ r - T - 1 \in Nat /\ k - 1 - 1 = k - 2
        BY <1>1, <1>3, <2>4
      <4>2. /\ Cell(r - T - 1, k - 1) = Cell(r - T - 1, 0) + (k - 1)
            /\ Cell(r - T - 1, k - 2) = Cell(r - T - 1, 0) + (k - 2)
            /\ Cell(r - T - 1, 0) \in Nat
        BY <4>1, CellSteps
      <4> QED BY <1>2, <4>1, <4>2
    <3>3. k - 1 \in 1 .. COLS /\ r <= Len(rows) /\ r >= T + 1
      BY <1>1, <1>3, <1>6, <2>4
    <3> QED BY <1>1, <2>3, <3>1, <3>2, <3>3
  <2>5. CASE ~ (k > 1)
    <3>1. k = 1
      BY <1>6, <2>5
    <3>2. Typed(text, ch) = [rows |-> Inked(rows, r - 1, COLS, Blank),
                               at |-> <<r - 1, COLS>>]
      BY <1>5, <1>8, <3>1 DEF Typed, Inked, rows, r, k
    <3>3. r - T - 1 >= 1
      <4>1. r - T - 1 \in Nat
        BY <1>1, <1>3
      <4>2. r - T - 1 # 0
        <5>1. Cell(0, 0) = 0
          BY <1>3 DEF Cell
        <5>2. p = Cell(r - T - 1, 0)
          BY <1>2, <3>1
        <5> QED BY <2>1, <5>1, <5>2
      <4> QED BY <1>1, <4>1, <4>2
    <3>4. /\ r - 1 - T - 1 \in Nat /\ r - 1 - T - 1 + 1 = r - T - 1
          /\ r - 1 - T - 1 \in 0 .. ROWS - 1
      BY <1>1, <1>3, <3>3
    <3>5. p - 1 = Cell(r - 1 - T - 1, COLS - 1)
      <4>1. Cell(r - 1 - T - 1, COLS - 1) + 1 = Cell(r - T - 1, 0)
        BY <3>4, CellSteps
      <4>2. Cell(r - 1 - T - 1, COLS - 1) \in Nat
        <5>1. COLS - 1 \in Nat
          BY <1>3
        <5> QED BY <3>4, <5>1, CellSteps
      <4>3. p = Cell(r - T - 1, 0)
        BY <1>2, <3>1
      <4> QED BY <4>1, <4>2, <4>3
    <3>6. r - 1 \in Nat /\ COLS \in 1 .. COLS /\ r - 1 <= Len(rows) /\ r - 1 >= T + 1
      BY <1>1, <1>3, <1>6, <3>3
    <3> QED BY <2>3, <3>2, <3>4, <3>5, <3>6
  <2> QED BY <2>4, <2>5
<1>9. CASE ch # LF /\ ch # BS
  <2>1. ch \in Char /\ ch \in Char \cup {Blank}
    BY <1>9
  <2>2. Target(p, ch) = p
    BY <1>4, <1>9, Stored
  <2> DEFINE put   == Inked(rows, r, k, ch)
             d     == Lit(c, p, ch)
             text1 == [rows |-> put, at |-> <<r, k>>]
  <2>3. Putchar(c, p, ch) = IF OnScreen(p + 1) THEN [cells |-> d, pos |-> p + 1]
                              ELSE LineFeed(d, p + 1)
    BY <1>9, <2>2 DEF Putchar, Lit
  <2>4. put \in Seq(Row) /\ Len(put) = Len(rows) /\ CellsShow(d, put)
    <3>1. r <= Len(rows)
      BY <1>1, <1>6
    <3> QED BY <1>1, <1>2, <1>6, <2>1, <3>1, PutShows DEF T
  <2>5. Typed(text, ch) = IF k < COLS THEN [rows |-> put, at |-> <<r, k + 1>>]
                            ELSE Down(text1)
    <3>1. [text EXCEPT !.rows[r][k] = ch] = text1
      <4>1. text \in [rows : Seq(Row), at : Nat \X Nat] /\ text.at = <<r, k>>
        BY <1>2 DEF TextOK, rows, r, k
      <4>2. [text EXCEPT !.rows[r][k] = ch] = [text EXCEPT !.rows = put]
        BY <4>1 DEF Inked, rows, r, k
      <4>3. [text EXCEPT !.rows = put] = [rows |-> put, at |-> text.at]
        <5> HIDE DEF put
        <5> QED BY <4>1
      <4> QED BY <4>1, <4>2, <4>3
    <3>2. [text1 EXCEPT !.at = <<r, k + 1>>] = [rows |-> put, at |-> <<r, k + 1>>]
      OBVIOUS
    <3>3. Typed(text, ch) = IF k < COLS
            THEN [[text EXCEPT !.rows[r][k] = ch] EXCEPT !.at = <<r, k + 1>>]
            ELSE Down([text EXCEPT !.rows[r][k] = ch])
      BY <1>9 DEF Typed, rows, r, k
    <3> HIDE DEF text1, put
    <3> QED BY <3>1, <3>2, <3>3
  <2> HIDE DEF put, d
  <2>6. TopOf(put) = T
    BY <2>4 DEF TopOf, T
  <2>7. CASE k < COLS
    <3>1. p + 1 = Cell(r - T - 1, k)
      <4>1. r - T - 1 \in Nat /\ k - 1 \in Nat /\ k - 1 + 1 = k
        BY <1>1, <1>3
      <4>2. Cell(r - T - 1, k - 1) + 1 = Cell(r - T - 1, k - 1 + 1)
        BY <4>1, CellSteps
      <4> QED BY <1>2, <4>1, <4>2
    <3>2. p + 1 \in 0 .. SIZE - 1
      <4>1. k \in 0 .. COLS - 1
        BY <1>1, <1>3, <2>7
      <4> QED BY <1>1, <3>1, <4>1, Grid
    <3>3. OnScreen(p + 1)
      BY <1>3, <3>2 DEF OnScreen
    <3>4. Putchar(c, p, ch).cells = d /\ Putchar(c, p, ch).pos = p + 1
      BY <2>3, <3>3
    <3>5. Typed(text, ch) = [rows |-> put, at |-> <<r, k + 1>>]
      BY <2>5, <2>7
    <3>6. k + 1 \in 1 .. COLS /\ k + 1 - 1 = k /\ r <= Len(put) /\ TopOf(put) + 1 <= r
      <4>1. k + 1 \in 1 .. COLS /\ k + 1 - 1 = k
        BY <1>1, <1>3, <2>7
      <4>2. T + 1 <= r /\ r <= Len(rows)
        BY <1>1, <1>3, <1>6
      <4> QED BY <2>4, <2>6, <4>1, <4>2
    <3>7. p + 1 = Cell(r - TopOf(put) - 1, k + 1 - 1)
      BY <2>6, <3>1, <3>6
    <3>8. Shows(d, p + 1, [rows |-> put, at |-> <<r, k + 1>>])
      BY <1>1, <2>4, <3>6, <3>7, ShowsText
    <3> QED BY <3>4, <3>5, <3>8
  <2>8. CASE ~ (k < COLS)
    <3>1. k = COLS
      BY <1>6, <1>3, <2>8
    <3>2. Typed(text, ch) = Down(text1)
      BY <2>5, <2>8
    <3>3. TextOK(text1)
      <4>1. r \in Nat /\ k \in Nat /\ r \in T + 1 .. Len(rows) /\ k \in 1 .. COLS
        BY <1>1, <1>3, <1>6
      <4>2. text1 \in [rows : Seq(Row), at : Nat \X Nat]
        BY <2>4, <4>1
      <4>3. text1.rows = put /\ text1.at[1] = r /\ text1.at[2] = k
        OBVIOUS
      <4> HIDE DEF text1
      <4> QED BY <2>4, <2>6, <4>1, <4>2, <4>3 DEF TextOK
    <3>4. text1.rows = put /\ text1.at[1] = r
      OBVIOUS
    <3> HIDE DEF text1
    <3>5. p + 1 = Cell(r - T, 0)
      <4>1. r - T - 1 \in Nat /\ r - T - 1 + 1 = r - T
        BY <1>1, <1>3
      <4>2. Cell(r - T - 1, COLS - 1) + 1 = Cell(r - T - 1 + 1, 0)
        BY <4>1, CellSteps
      <4> QED BY <1>2, <3>1, <4>1, <4>2
    <3>6. r - T \in 0 .. ROWS
      BY <1>1, <1>3
    <3>7. CASE r - T < ROWS
      <4>1. OnScreen(p + 1)
        BY <3>5, <3>6, <3>7, LineOnScreen
      <4>2. Putchar(c, p, ch).cells = d /\ Putchar(c, p, ch).pos = Cell(r - T, 0)
        BY <2>3, <3>5, <4>1
      <4>3. Shows(d, Cell(r - T, 0), Down(text1))
        BY <2>4, <2>6, <3>3, <3>4, <3>7, DownShows
      <4> QED BY <3>2, <4>2, <4>3
    <3>8. CASE ~ (r - T < ROWS)
      <4>1. r - T = ROWS
        BY <1>3, <3>6, <3>8
      <4>2. ~ OnScreen(p + 1)
        BY <3>5, <3>6, <3>8, LineOnScreen
      <4>3. p + 1 = SIZE
        BY <1>1, <3>5, <4>1, Grid
      <4>4. ~ OnScreen(Below(p + 1))
        BY <3>6, <4>3, LineOnScreen
      <4>5. Shows(LineFeed(d, p + 1).cells, LineFeed(d, p + 1).pos, Down(text1))
        BY <2>4, <2>6, <3>3, <3>4, <3>8, <4>4, LineFeedShows
      <4> QED BY <2>3, <3>2, <4>2, <4>5
    <3> QED BY <3>7, <3>8
  <2> QED BY <2>7, <2>8
<1> QED BY <1>7, <1>8, <1>9

-----------------------------------------------------------------------------
(* The text after each character of what is typed. *)
LEMMA TypedAllSteps ==
  ASSUME NEW text, NEW S, NEW string \in Seq(S)
  PROVE  \E f : /\ f[0] = text /\ f[Len(string)] = TypedAll(text, string)
                /\ \A i \in 0 .. Len(string) - 1 : f[i + 1] = Typed(f[i], string[i + 1])
<1> DEFINE N == Len(string)
           Rec(f, m) == f = [i \in 0 .. m |-> IF i = 0 THEN text
                                         ELSE Typed(f[i - 1], string[i])]
           P == {m \in Nat : \E f : Rec(f, m)}
<1>1. N \in Nat
  OBVIOUS
<1>2. 0 \in P
  <2>1. Rec([i \in 0 .. 0 |-> text], 0)
    OBVIOUS
  <2> QED BY <2>1
<1>3. ASSUME NEW m \in 0 .. N - 1, m \in P PROVE m + 1 \in P
  <2>1. PICK f : Rec(f, m)
    BY <1>3
  <2> DEFINE g == [i \in 0 .. m + 1 |-> IF i = m + 1 THEN Typed(f[m], string[m + 1])
                                        ELSE f[i]]
  <2>2. m \in Nat
    OBVIOUS
  <2>3. \A i \in 0 .. m : f[i] = IF i = 0 THEN text ELSE Typed(f[i - 1], string[i])
    BY <2>1
  <2>4. ASSUME NEW i \in 0 .. m + 1
        PROVE  g[i] = IF i = 0 THEN text ELSE Typed(g[i - 1], string[i])
    <3>1. i # 0 => i - 1 \in 0 .. m /\ g[i - 1] = f[i - 1]
      BY <2>2
    <3>2. CASE i = m + 1
      BY <2>2, <3>1, <3>2
    <3>3. CASE i \in 0 .. m
      BY <2>2, <2>3, <3>1, <3>3
    <3> QED BY <2>2, <3>2, <3>3
  <2>5. g = [i \in 0 .. m + 1 |-> g[i]]
    OBVIOUS
  <2>6. Rec(g, m + 1)
    <3> HIDE DEF g
    <3> QED BY <2>4, <2>5
  <2> HIDE DEF g, Rec
  <2> QED BY <2>2, <2>6
<1>4. N \in P
  <2> HIDE DEF P, N
  <2>1. \A i \in 0 .. N : i \in P
    BY <1>1, <1>2, <1>3, UpTo
  <2> QED BY <1>1, <2>1
<1> DEFINE F == CHOOSE f : Rec(f, N)
<1>5. Rec(F, N)
  <2> HIDE DEF Rec
  <2> QED BY <1>4
<1>6. F[N] = TypedAll(text, string)
  BY DEF TypedAll
<1> HIDE DEF F
<1>7. \A i \in 0 .. N : F[i] = IF i = 0 THEN text ELSE Typed(F[i - 1], string[i])
  BY <1>5
<1>8. \A i \in 0 .. N - 1 : i + 1 \in 0 .. N /\ i + 1 # 0 /\ i + 1 - 1 = i /\ 0 \in 0 .. N
  BY <1>1
<1>9. \A i \in 0 .. N - 1 : F[i + 1] = Typed(F[i], string[i + 1])
  BY <1>7, <1>8
<1>10. F[0] = text
  BY <1>1, <1>7
<1> QED BY <1>6, <1>9, <1>10

(* What puts shows of a text, while none of it is stored beyond the segment. *)
ShownBy(v, text) == v.fault = "none" /\ Shows(v.cells, v.pos, text)

(* The cursor of a text that is shown is in a cell of the screen. *)
LEMMA ShownInside ==
  ASSUME NEW c, NEW p, NEW text, Shows(c, p, text)
  PROVE  p \in 0 .. SIZE - 1 /\ p \in 0 .. Limit - 1
<1>1. text.at[1] - TopOf(text.rows) - 1 \in 0 .. ROWS - 1 /\ text.at[2] - 1 \in 0 .. COLS - 1
  BY TextPlaces DEF Shows
<1>2. p \in 0 .. SIZE - 1
  BY <1>1, Grid DEF Shows
<1> QED BY <1>2, Sizes

(* One character of a text without backspaces. *)
LEMMA PutAtOnceShows ==
  ASSUME NEW v, NEW text, ShownBy(v, text), NEW ch \in Char \cup {LF}
  PROVE  ShownBy(PutAtOnce(v, ch), Typed(text, ch))
<1> DEFINE new == Putchar(v.cells, v.pos, ch)
<1>1. ch # BS /\ ch \in Char \cup {LF, BS}
  BY ScreenAssumption
<1>2. Shows(v.cells, v.pos, text) /\ v.fault = "none"
  BY DEF ShownBy
<1>3. ~ Outside(v.pos, ch)
  BY <1>1, <1>2, ShownInside, Stored
<1>4. Shows(new.cells, new.pos, Typed(text, ch))
  BY <1>1, <1>2, <1>3, PutcharTypes
<1>5. PutAtOnce(v, ch) = [cells |-> new.cells, pos |-> new.pos, fault |-> "none"]
  BY <1>2, <1>3 DEF PutAtOnce
<1> HIDE DEF new
<1> QED BY <1>4, <1>5 DEF ShownBy

(* The whole text of the handler. *)
LEMMA PutAllShows ==
  ASSUME NEW v, NEW text, ShownBy(v, text), NEW string \in Seq(Char \cup {LF})
  PROVE  ShownBy(PutAll(v, string), TypedAll(text, string))
<1>1. PICK f : /\ f[0] = v /\ f[Len(string)] = PutAll(v, string)
               /\ \A i \in 0 .. Len(string) - 1 : f[i + 1] = PutAtOnce(f[i], string[i + 1])
  BY PutAllSteps
<1>2. PICK g : /\ g[0] = text /\ g[Len(string)] = TypedAll(text, string)
               /\ \A i \in 0 .. Len(string) - 1 : g[i + 1] = Typed(g[i], string[i + 1])
  BY TypedAllSteps
<1> DEFINE P == {i \in Nat : ShownBy(f[i], g[i])}
<1>3. Len(string) \in Nat /\ \A i \in 0 .. Len(string) - 1 : string[i + 1] \in Char \cup {LF}
  OBVIOUS
<1>4. 0 \in P
  BY <1>1, <1>2
<1>5. \A i \in 0 .. Len(string) - 1 : i \in P => i + 1 \in P
  BY <1>1, <1>2, <1>3, PutAtOnceShows
<1>6. Len(string) \in P
  <2> HIDE DEF P
  <2>1. \A i \in 0 .. Len(string) : i \in P
    BY <1>3, <1>4, <1>5, UpTo
  <2> QED BY <1>3, <2>1
<1> QED BY <1>1, <1>2, <1>6

-----------------------------------------------------------------------------
(***************************************************************************)
(* The inductive invariant of an uninterrupted putchar.  Up to the store   *)
(* the screen shows the text, with the cursor of the registers, and each   *)
(* register of the processor holds what is read so far of it.  After the   *)
(* store the screen shows the text with the character typed, with the      *)
(* cursor in bx, of which the controller gets one byte and then the other. *)
(***************************************************************************)
Reading == {"idle", "readHigh", "selectLow", "readLow", "store"}
Writing == {"selectHigh", "writeHigh", "selectLowAgain", "writeLow"}

TextInv ==
  hit = "nowhere" =>
    /\ stage \in Reading => fault = "none"
    /\ fault = "none" =>
         /\ cursor \in [{14, 15} -> Nat]
         /\ stage # "idle" => cl \in Char \cup {LF, BS}
         /\ stage \in Reading => Shows(cells, Cursor, Printed)
         /\ stage = "readHigh" => index = 14
         /\ stage \in {"selectLow", "readLow"} => ah = cursor[14]
         /\ stage = "readLow" => index = 15
         /\ stage = "store" => bx = Cursor
         /\ stage \in Writing => Shows(cells, bx, Typed(Printed, cl))
         /\ stage = "writeHigh" => index = 14
         /\ stage \in {"selectLowAgain", "writeLow"} => cursor[14] = bx \div BASE
         /\ stage = "writeLow" => index = 15

LEMMA TextStarts == ScreenInit => TextInv
<1> SUFFICES ASSUME ScreenInit PROVE TextInv
  OBVIOUS
<1>1. /\ COLS \in Nat \ {0} /\ ROWS \in Nat /\ ROWS >= 2 /\ SIZE \in Nat /\ SEGMENT \in Nat
      /\ SIZE < SEGMENT /\ BASE \in Nat
  BY Sizes
<1>2. cursor \in [{14, 15} -> Nat] /\ Cursor = 0
  <2>1. cursor[14] = 0 /\ cursor[15] = 0 /\ cursor \in [{14, 15} -> Nat]
    BY DEF ScreenInit
  <2> QED BY <1>1, <2>1 DEF Cursor
<1>3. BlankRow \in Row
  BY DEF BlankRow, Row
<1>4. <<BlankRow>> \in Seq(Row) /\ Len(<<BlankRow>>) = 1
  BY <1>3
<1>5. TopOf(<<BlankRow>>) = 0
  BY <1>1, <1>4 DEF TopOf
<1>6. CellsShow(cells, <<BlankRow>>)
  <2>1. ASSUME NEW row \in 0 .. ROWS - 1, NEW col \in 0 .. COLS - 1
        PROVE  cells[Cell(row, col)] = Due(<<BlankRow>>, row, col)
    <3>1. Cell(row, col) \in 0 .. SEGMENT - 1
      <4>1. Cell(row, col) \in 0 .. SIZE - 1
        BY Grid
      <4> QED BY <1>1, <4>1
    <3>2. cells[Cell(row, col)] = Blank
      BY <3>1 DEF ScreenInit
    <3>3. row \in Nat /\ col + 1 \in 1 .. COLS
      BY <1>1
    <3>4. BlankRow[col + 1] = Blank
      BY <3>3 DEF BlankRow
    <3>5. 0 + row < 1 => row = 0 /\ <<BlankRow>>[0 + row + 1] = BlankRow
      BY <3>3
    <3> HIDE DEF ScreenInit
    <3> QED BY <1>4, <1>5, <3>2, <3>4, <3>5 DEF Due
  <2> QED BY <2>1 DEF CellsShow, ScreenInit
<1>7. Cell(1 - TopOf(<<BlankRow>>) - 1, 1 - 1) = 0
  BY <1>1, <1>5 DEF Cell
<1>8. Printed = [rows |-> <<BlankRow>>, at |-> <<1, 1>>]
  BY DEF Printed, ScreenInit
<1>9. Shows(cells, Cursor, Printed)
  <2>1. 1 \in 1 .. COLS /\ 1 \in Nat /\ TopOf(<<BlankRow>>) + 1 <= 1
    BY <1>1, <1>5
  <2>2. 1 <= Len(<<BlankRow>>)
    BY <1>4
  <2>3. Cursor = Cell(1 - TopOf(<<BlankRow>>) - 1, 1 - 1)
    BY <1>2, <1>7
  <2> QED BY <1>4, <1>6, <1>8, <2>1, <2>2, <2>3, ShowsText
<1> QED BY <1>2, <1>9 DEF TextInv, ScreenInit, Reading, Writing

(* The two bytes of a cursor that is shown are put together to it. *)
LEMMA CursorOf ==
  ASSUME NEW p \in 0 .. Limit - 1
  PROVE  /\ p \div BASE \in Nat /\ p % BASE \in Nat
         /\ (p \div BASE) * BASE + (p % BASE) = p
<1>1. p \div BASE \in 0 .. High /\ p % BASE \in 0 .. BASE - 1
  BY CursorBytes
<1>2. (p \div BASE) * BASE + (p % BASE) = p
  BY CursorBytes
<1>3. High \in Nat /\ BASE \in Nat
  BY Sizes
<1> QED BY <1>1, <1>2, <1>3

LEMMA TextKeeps == ASSUME TextInv, [ScreenNext]_screenVars PROVE TextInv'
<1> USE DEF Go, video, Reading, Writing
<1>1. ASSUME Begin PROVE TextInv'
  <2>1. Cursor' = Cursor /\ Printed' = Printed
    BY <1>1 DEF Begin, Cursor, Printed
  <2> QED BY <1>1, <2>1 DEF Begin, TextInv
<1>2. ASSUME ReadHigh PROVE TextInv'
  <2>1. Cursor' = Cursor /\ Printed' = Printed
    BY <1>2 DEF ReadHigh, Cursor, Printed
  <2> QED BY <1>2, <2>1 DEF ReadHigh, TextInv
<1>3. ASSUME ReadLow PROVE TextInv'
  <2>1. Cursor' = Cursor /\ Printed' = Printed
    BY <1>3 DEF ReadLow, Cursor, Printed
  <2>2. hit = "nowhere" => bx' = Cursor
    BY <1>3 DEF ReadLow, TextInv, Cursor
  <2> QED BY <1>3, <2>1, <2>2 DEF ReadLow, TextInv
<1>4. ASSUME Store PROVE TextInv'
  <2>1. Cursor' = Cursor /\ Printed' = Printed /\ fault = "none" /\ cl' = cl
    BY <1>4 DEF Store, Cursor, Printed
  <2>2. CASE Outside(bx, cl)
    <3>1. fault' # "none" /\ stage' = "selectHigh"
      BY <1>4, <2>2 DEF Store
    <3> QED BY <3>1 DEF TextInv
  <2>3. CASE ~ Outside(bx, cl)
    <3> SUFFICES ASSUME hit = "nowhere" PROVE TextInv'
      BY <1>4 DEF Store, TextInv
    <3> DEFINE new == Putchar(cells, bx, cl)
    <3>1. cells' = new.cells /\ bx' = new.pos /\ fault' = fault
      BY <1>4, <2>3 DEF Store
    <3>2. Shows(cells, bx, Printed) /\ cl \in Char \cup {LF, BS}
      BY <1>4 DEF Store, TextInv
    <3>3. Shows(new.cells, new.pos, Typed(Printed, cl))
      BY <2>3, <3>2, PutcharTypes
    <3> HIDE DEF new
    <3>4. Shows(cells', bx', Typed(Printed', cl'))
      BY <2>1, <3>1, <3>3
    <3> QED BY <1>4, <3>1, <3>2, <3>4 DEF Store, TextInv
  <2> QED BY <2>2, <2>3
<1>5. ASSUME WriteHigh PROVE TextInv'
  <2> SUFFICES ASSUME hit = "nowhere" PROVE TextInv'
    BY <1>5 DEF WriteHigh, TextInv
  <2>1. Printed' = Printed /\ fault = "none" /\ index = 14 /\ cursor \in [{14, 15} -> Nat]
    BY <1>5 DEF WriteHigh, Printed, TextInv
  <2>2. Shows(cells, bx, Typed(Printed, cl))
    BY <1>5 DEF WriteHigh, TextInv
  <2>3. PICK h \in Nat : h = bx \div BASE
    BY <2>2, ShownInside, CursorOf
  <2>4. cursor' = [cursor EXCEPT ![14] = h] /\ bx' = bx
    BY <1>5, <2>1, <2>3 DEF WriteHigh
  <2>5. cursor' \in [{14, 15} -> Nat] /\ cursor'[14] = h
    BY <2>1, <2>4
  <2> QED BY <1>5, <2>1, <2>2, <2>3, <2>4, <2>5 DEF WriteHigh, TextInv
<1>6. ASSUME WriteLow PROVE TextInv'
  <2> SUFFICES ASSUME hit = "nowhere" PROVE TextInv'
    BY <1>6 DEF WriteLow, TextInv
  <2>1. /\ fault = "none" /\ index = 15 /\ cursor \in [{14, 15} -> Nat]
        /\ cursor[14] = bx \div BASE
    BY <1>6 DEF WriteLow, TextInv
  <2>2. Shows(cells, bx, Typed(Printed, cl))
    BY <1>6 DEF WriteLow, TextInv
  <2>3. bx \in 0 .. Limit - 1
    BY <2>2, ShownInside
  <2>4. PICK l \in Nat : l = bx % BASE
    BY <2>3, CursorOf
  <2>5. cursor' = [cursor EXCEPT ![15] = l]
    BY <1>6, <2>1, <2>4 DEF WriteLow
  <2>6. /\ cursor' \in [{14, 15} -> Nat]
        /\ cursor'[14] = bx \div BASE /\ cursor'[15] = l
    BY <2>1, <2>5
  <2>7. Cursor' = bx
    BY <2>3, <2>4, <2>6, CursorOf DEF Cursor
  <2>8. Printed' = Typed(Printed, cl)
    <3>1. paper' = Typed(Printed, cl).rows /\ place' = Typed(Printed, cl).at
      BY <1>6 DEF WriteLow, OnPaper
    <3>2. Typed(Printed, cl) = [rows |-> Typed(Printed, cl).rows, at |-> Typed(Printed, cl).at]
      BY <2>2 DEF Shows, TextOK
    <3> QED BY <3>1, <3>2 DEF Printed
  <2>9. Shows(cells', Cursor', Printed')
    BY <1>6, <2>2, <2>7, <2>8 DEF WriteLow
  <2> QED BY <1>6, <2>1, <2>6, <2>9 DEF WriteLow, TextInv
<1>7. ASSUME Select("selectLow", "readLow", 15) PROVE TextInv'
  <2>1. Cursor' = Cursor /\ Printed' = Printed
    BY <1>7 DEF Select, Cursor, Printed
  <2> QED BY <1>7, <2>1 DEF Select, TextInv
<1>8. ASSUME \/ Select("selectHigh", "writeHigh", 14)
             \/ Select("selectLowAgain", "writeLow", 15)
      PROVE  TextInv'
  <2>1. Cursor' = Cursor /\ Printed' = Printed
    BY <1>8 DEF Select, Cursor, Printed
  <2> QED BY <1>8, <2>1 DEF Select, TextInv
<1>9. ASSUME unknownKey PROVE TextInv'
  <2> SUFFICES ASSUME hit' = "nowhere" PROVE TextInv'
    BY DEF TextInv
  <2> DEFINE v   == [cells |-> cells, pos |-> Cursor, fault |-> fault]
             new == PutAll(v, Unknown)
  <2>1. /\ fault = "none" /\ fault' = new.fault /\ cells' = new.cells
        /\ cursor' = [r \in {14, 15} |-> IF r = 14 THEN new.pos \div BASE
                                         ELSE new.pos % BASE]
        /\ hit' = IF stage = "idle" \/ hit = "readHigh" THEN hit
                  ELSE IF stage = "readHigh" THEN stage ELSE "elsewhere"
        /\ stage' = stage
        /\ OnPaper(TypedAll(Printed, Unknown))
    BY <1>9 DEF unknownKey
  <2>2. hit = "nowhere" /\ stage = "idle"
    BY <2>1
  <2>3. ShownBy(v, Printed)
    BY <2>1, <2>2 DEF TextInv, ShownBy
  <2>4. Unknown \in Seq(Char \cup {LF})
    BY ScreenAssumption
  <2> HIDE DEF v
  <2>5. ShownBy(new, TypedAll(Printed, Unknown))
    BY <2>3, <2>4, PutAllShows
  <2> HIDE DEF new
  <2>6. new.fault = "none" /\ Shows(new.cells, new.pos, TypedAll(Printed, Unknown))
    BY <2>5 DEF ShownBy
  <2>7. new.pos \in 0 .. Limit - 1
    BY <2>6, ShownInside
  <2>8. PICK h \in Nat, l \in Nat :
          h = new.pos \div BASE /\ l = new.pos % BASE /\ h * BASE + l = new.pos
    BY <2>7, CursorOf
  <2>9. cursor' \in [{14, 15} -> Nat] /\ cursor'[14] = h /\ cursor'[15] = l
    BY <2>1, <2>8
  <2>10. Cursor' = new.pos
    BY <2>8, <2>9 DEF Cursor
  <2>11. Printed' = TypedAll(Printed, Unknown)
    <3>1. /\ paper' = TypedAll(Printed, Unknown).rows
          /\ place' = TypedAll(Printed, Unknown).at
      BY <2>1 DEF OnPaper
    <3>2. TypedAll(Printed, Unknown) = [rows |-> TypedAll(Printed, Unknown).rows,
                                        at |-> TypedAll(Printed, Unknown).at]
      BY <2>6 DEF Shows, TextOK
    <3> QED BY <3>1, <3>2 DEF Printed
  <2>12. Shows(cells', Cursor', Printed')
    BY <2>1, <2>6, <2>10, <2>11
  <2> QED BY <2>1, <2>2, <2>6, <2>9, <2>12 DEF TextInv
<1>10. CASE UNCHANGED screenVars
  <2>1. Cursor' = Cursor /\ Printed' = Printed
    BY <1>10 DEF screenVars, Cursor, Printed
  <2> QED BY <1>10, <2>1 DEF screenVars, TextInv
<1> QED BY <1>1, <1>2, <1>3, <1>4, <1>5, <1>6, <1>7, <1>8, <1>9, <1>10 DEF ScreenNext

(* Between two putchars the cells of the screen are the end of the text. *)
LEMMA TextShown == TextInv => ShowsLastRows
<1> SUFFICES ASSUME TextInv, stage = "idle", hit = "nowhere"
             PROVE  /\ Cursor = (place[1] - Top - 1) * COLS + place[2] - 1
                    /\ \A i \in 0 .. SIZE - 1 :
                         cells[i] = IF Top + i \div COLS < Len(paper)
                                    THEN paper[Top + i \div COLS + 1][(i % COLS) + 1]
                                    ELSE Blank
  BY DEF ShowsLastRows
<1>1. Shows(cells, Cursor, Printed)
  BY DEF TextInv, Reading
<1>2. Printed.rows = paper /\ Printed.at = place /\ TopOf(paper) = Top
  BY DEF Printed, TopOf, Top
<1>3. Cursor = (place[1] - Top - 1) * COLS + place[2] - 1
  <2>1. Cursor = (place[1] - Top - 1) * COLS + (place[2] - 1)
    BY <1>1, <1>2 DEF Shows, Cell
  <2>2. /\ place[1] - Top - 1 \in 0 .. ROWS - 1 /\ place[2] \in Nat /\ COLS \in Nat
        /\ ROWS \in Nat
    BY <1>1, <1>2, TextPlaces, Sizes DEF Shows
  <2>3. PICK x \in Nat : x = (place[1] - Top - 1) * COLS
    BY <2>2
  <2> QED BY <2>1, <2>2, <2>3
<1>4. ASSUME NEW i \in 0 .. SIZE - 1
      PROVE  cells[i] = IF Top + i \div COLS < Len(paper)
                        THEN paper[Top + i \div COLS + 1][(i % COLS) + 1] ELSE Blank
  <2>1. /\ i \div COLS \in 0 .. ROWS - 1 /\ i % COLS \in 0 .. COLS - 1
        /\ i = Cell(i \div COLS, i % COLS)
    BY RowAndColumn
  <2>2. CellsShow(cells, paper)
    BY <1>1, <1>2 DEF Shows
  <2>3. cells[i] = Due(paper, i \div COLS, i % COLS)
    BY <2>1, <2>2 DEF CellsShow
  <2> QED BY <1>2, <2>3 DEF Due
<1> QED BY <1>3, <1>4

(***************************************************************************)
(* For screens and texts of every size: as long as no putchar has been     *)
(* interrupted, the screen shows the last rows of all that is printed, and *)
(* the cursor is where it goes on.                                         *)
(***************************************************************************)
THEOREM ScreenShowsText == ScreenSpec => []ShowsLastRows
<1>1. ScreenInit => TextInv
  BY TextStarts
<1>2. TextInv /\ [ScreenNext]_screenVars => TextInv'
  BY TextKeeps
<1>3. TextInv => ShowsLastRows
  BY TextShown
<1> QED BY <1>1, <1>2, <1>3, PTL DEF ScreenSpec

-----------------------------------------------------------------------------
(***************************************************************************)
(* The loops of string.c.  Each goes through numbers up or down, to the    *)
(* first at which it stops, or counts what it meets on its way.  The loops *)
(* are given by functions: where they stop, and with which result.         *)
(***************************************************************************)
(* The loop that starts at p stops first at q. *)
First(stop, p, q) == stop[q] /\ p <= q /\ \A r \in p .. q - 1 : ~ stop[r]

(* A loop that is sure to stop stops somewhere first. *)
LEMMA FirstStop ==
  ASSUME NEW lo \in Nat, NEW hi \in Nat, NEW stop \in [lo .. hi -> BOOLEAN],
         stop[hi], NEW p \in lo .. hi
  PROVE  \E q \in lo .. hi : First(stop, p, q)
<1> SUFFICES ASSUME \A q \in lo .. hi : ~ First(stop, p, q)
             PROVE  FALSE
  OBVIOUS
<1> DEFINE P == {i \in Nat : \A r \in p .. p + i - 1 : ~ stop[r]}
<1>1. p \in Nat /\ hi - p + 1 \in Nat
  OBVIOUS
<1>2. 0 \in P
  BY <1>1
<1>3. ASSUME NEW i \in 0 .. hi - p, i \in P PROVE i + 1 \in P
  <2>1. p + i \in lo .. hi /\ p <= p + i /\ i + 1 \in Nat
    BY <1>1
  <2>2. \A r \in p .. p + i - 1 : ~ stop[r]
    BY <1>3
  <2>3. ~ stop[p + i]
    BY <2>1, <2>2 DEF First
  <2>4. \A r \in p .. p + (i + 1) - 1 : r \in p .. p + i - 1 \/ r = p + i
    BY <1>1, <2>1
  <2> QED BY <2>1, <2>2, <2>3, <2>4
<1>4. hi - p + 1 \in P
  <2> HIDE DEF P
  <2>1. \A i \in 0 .. (hi - p + 1) - 1 : i \in P => i + 1 \in P
    BY <1>1, <1>3
  <2>2. \A i \in 0 .. hi - p + 1 : i \in P
    BY <1>1, <1>2, <2>1, UpTo
  <2> QED BY <1>1, <2>2
<1>5. hi \in p .. p + (hi - p + 1) - 1
  BY <1>1
<1> QED BY <1>4, <1>5

(* It cannot stop first in two places. *)
LEMMA FirstOnce ==
  ASSUME NEW stop, NEW p \in Nat, NEW q \in Nat, NEW r \in Nat, First(stop, p, q), First(stop, p, r)
  PROVE  q = r
<1>1. CASE q < r
  <2>1. q \in p .. r - 1
    BY <1>1 DEF First
  <2> QED BY <2>1 DEF First
<1>2. CASE r < q
  <2>1. r \in p .. q - 1
    BY <1>2 DEF First
  <2> QED BY <2>1 DEF First
<1> QED BY <1>1, <1>2

(* f is what a loop upwards, or downwards, computes from each place. *)
IsUp(f, lo, hi, stop, val)   == f = [p \in lo .. hi |-> IF stop[p] THEN val[p] ELSE f[p + 1]]
IsDown(f, lo, hi, stop, val) == f = [p \in lo .. hi |-> IF stop[p] THEN val[p] ELSE f[p - 1]]

(* f is one if each of its values is what the next turn says. *)
LEMMA LoopUpFrom ==
  ASSUME NEW f, NEW lo, NEW hi, NEW stop, NEW val, f = [p \in lo .. hi |-> f[p]],
         \A p \in lo .. hi : f[p] = IF stop[p] THEN val[p] ELSE f[p + 1]
  PROVE  IsUp(f, lo, hi, stop, val)
  BY DEF IsUp

LEMMA LoopDownFrom ==
  ASSUME NEW f, NEW lo, NEW hi, NEW stop, NEW val, f = [p \in lo .. hi |-> f[p]],
         \A p \in lo .. hi : f[p] = IF stop[p] THEN val[p] ELSE f[p - 1]
  PROVE  IsDown(f, lo, hi, stop, val)
  BY DEF IsDown

(* There is the function that a loop upwards computes, *)
LEMMA LoopUpIs ==
  ASSUME NEW lo \in Nat, NEW hi \in Nat, NEW stop \in [lo .. hi -> BOOLEAN],
         stop[hi], NEW val
  PROVE  \E f : IsUp(f, lo, hi, stop, val)
<1> DEFINE Stop(p) == CHOOSE q \in lo .. hi : First(stop, p, q)
           f     == [p \in lo .. hi |-> val[Stop(p)]]
<1>1. ASSUME NEW p \in lo .. hi PROVE Stop(p) \in lo .. hi /\ First(stop, p, Stop(p))
  BY FirstStop
<1>2. ASSUME NEW p \in lo .. hi, stop[p] PROVE Stop(p) = p
  <2>1. p \in Nat /\ Stop(p) \in Nat /\ First(stop, p, Stop(p))
    BY <1>1
  <2>2. First(stop, p, p)
    BY <1>2, <2>1 DEF First
  <2> QED BY <2>1, <2>2, FirstOnce
<1>3. ASSUME NEW p \in lo .. hi, ~ stop[p] PROVE p + 1 \in lo .. hi /\ Stop(p + 1) = Stop(p)
  <2>1. p \in Nat /\ Stop(p) \in lo .. hi /\ First(stop, p, Stop(p)) /\ Stop(p) \in Nat
    BY <1>1
  <2> HIDE DEF Stop
  <2>2. Stop(p) # p
    BY <1>3, <2>1 DEF First
  <2>3. p + 1 \in lo .. hi /\ p + 1 <= Stop(p)
    BY <2>1, <2>2 DEF First
  <2>4. \A r \in p + 1 .. Stop(p) - 1 : r \in p .. Stop(p) - 1
    BY <2>1
  <2>5. First(stop, p + 1, Stop(p))
    BY <2>1, <2>3, <2>4 DEF First
  <2>6. /\ Stop(p + 1) \in lo .. hi /\ First(stop, p + 1, Stop(p + 1))
        /\ Stop(p + 1) \in Nat /\ p + 1 \in Nat
    BY <1>1, <2>3
  <2> QED BY <2>1, <2>3, <2>5, <2>6, FirstOnce
<1> HIDE DEF Stop
<1>4. \A p \in lo .. hi : f[p] = IF stop[p] THEN val[p] ELSE f[p + 1]
  BY <1>2, <1>3
<1>5. f = [p \in lo .. hi |-> f[p]]
  OBVIOUS
<1> HIDE DEF f
<1>6. IsUp(f, lo, hi, stop, val)
  BY <1>4, <1>5 DEF IsUp
<1> QED BY <1>6

(* and its value is that at the first stop. *)
LEMMA LoopUpEnds ==
  ASSUME NEW lo \in Nat, NEW hi \in Nat, NEW stop, NEW val, NEW f,
         IsUp(f, lo, hi, stop, val), NEW q \in lo .. hi, First(stop, lo, q)
  PROVE  f[lo] = val[q]
<1> DEFINE P == {i \in Nat : f[lo] = f[lo + i]}
<1>0. \A p \in lo .. hi : f[p] = IF stop[p] THEN val[p] ELSE f[p + 1]
  BY DEF IsUp
<1>1. q - lo \in Nat /\ lo + 0 = lo
  OBVIOUS
<1>2. 0 \in P
  BY <1>1
<1>3. ASSUME NEW i \in 0 .. q - lo - 1, i \in P PROVE i + 1 \in P
  <2>1. lo + i \in lo .. q - 1 /\ lo + i \in lo .. hi /\ lo + i + 1 = lo + (i + 1) /\ i + 1 \in Nat
    BY <1>1
  <2>2. f[lo + i] = f[lo + i + 1]
    BY <1>0, <2>1 DEF First
  <2> QED BY <1>3, <2>1, <2>2
<1>4. q - lo \in P
  <2> HIDE DEF P
  <2>1. \A i \in 0 .. q - lo : i \in P
    BY <1>1, <1>2, <1>3, UpTo
  <2> QED BY <1>1, <2>1
<1>5. lo + (q - lo) = q
  BY <1>1
<1> QED BY <1>0, <1>4, <1>5 DEF First

(* The same downwards. *)
LEMMA LoopDownIs ==
  ASSUME NEW lo \in Nat, NEW hi \in Nat, lo <= hi, NEW stop \in [lo .. hi -> BOOLEAN],
         stop[lo], NEW val
  PROVE  \E f : IsDown(f, lo, hi, stop, val)
<1> DEFINE other(p) == lo + hi - p
           stop2    == [p \in lo .. hi |-> stop[other(p)]]
           val2     == [p \in lo .. hi |-> val[other(p)]]
<1>1. \A p \in lo .. hi : other(p) \in lo .. hi /\ other(other(p)) = p
  OBVIOUS
<1>2. stop2 \in [lo .. hi -> BOOLEAN] /\ stop2[hi]
  BY <1>1
<1>3. PICK g : IsUp(g, lo, hi, stop2, val2)
  <2> HIDE DEF stop2, val2, other
  <2> QED BY <1>2, LoopUpIs
<1> DEFINE f == [p \in lo .. hi |-> g[other(p)]]
<1>4. ASSUME NEW p \in lo .. hi PROVE f[p] = IF stop[p] THEN val[p] ELSE f[p - 1]
  <2>1. g[other(p)] = IF stop2[other(p)] THEN val2[other(p)] ELSE g[other(p) + 1]
    BY <1>1, <1>3 DEF IsUp
  <2>2. stop2[other(p)] = stop[p] /\ val2[other(p)] = val[p]
    BY <1>1
  <2>3. ~ stop[p] => p - 1 \in lo .. hi /\ other(p) + 1 = other(p - 1)
    OBVIOUS
  <2> HIDE DEF other, stop2, val2
  <2>4. f[p] = g[other(p)] /\ (p - 1 \in lo .. hi => f[p - 1] = g[other(p - 1)])
    OBVIOUS
  <2> HIDE DEF f
  <2> QED BY <2>1, <2>2, <2>3, <2>4
<1>5. f = [p \in lo .. hi |-> f[p]]
  OBVIOUS
<1> HIDE DEF f
<1>6. IsDown(f, lo, hi, stop, val)
  BY <1>4, <1>5 DEF IsDown
<1> QED BY <1>6

(* and its value, from wherever the loop starts, is that at its first stop. *)
LEMMA LoopDownEnds ==
  ASSUME NEW lo \in Nat, NEW hi \in Nat, NEW stop, NEW val, NEW f,
         IsDown(f, lo, hi, stop, val),
         NEW k \in lo .. hi, NEW q \in lo .. k, stop[q], \A r \in q + 1 .. k : ~ stop[r]
  PROVE  f[k] = val[q]
<1> DEFINE P == {i \in Nat : f[k] = f[k - i]}
<1>0. \A p \in lo .. hi : f[p] = IF stop[p] THEN val[p] ELSE f[p - 1]
  BY DEF IsDown
<1>1. k - q \in Nat /\ k - 0 = k /\ q \in lo .. hi
  OBVIOUS
<1>2. 0 \in P
  BY <1>1
<1>3. ASSUME NEW i \in 0 .. k - q - 1, i \in P PROVE i + 1 \in P
  <2>1. k - i \in q + 1 .. k /\ k - i \in lo .. hi /\ k - i - 1 = k - (i + 1) /\ i + 1 \in Nat
    BY <1>1
  <2>2. f[k - i] = f[k - i - 1]
    BY <1>0, <2>1
  <2> QED BY <1>3, <2>1, <2>2
<1>4. k - q \in P
  <2> HIDE DEF P
  <2>1. \A i \in 0 .. k - q : i \in P
    BY <1>1, <1>2, <1>3, UpTo
  <2> QED BY <1>1, <2>1
<1>5. k - (k - q) = q
  BY <1>1
<1> QED BY <1>0, <1>1, <1>4, <1>5

(* A loop that counts on its way downwards, and what it has met. *)
Counts(f, hi, is) ==
  f = [p \in 0 .. hi |-> IF p < 1 THEN 0 ELSE f[p - 1] + (IF is[p] THEN 1 ELSE 0)]
Met(is, p) == {r \in 1 .. p : is[r]}

(* One step of the count: Met(is, p) has one member more if is[p]. *)
LEMMA MetNext ==
  ASSUME NEW is, NEW p \in Nat \ {0}
  PROVE  /\ Cardinality(Met(is, p)) = Cardinality(Met(is, p - 1)) + (IF is[p] THEN 1 ELSE 0)
         /\ Cardinality(Met(is, p - 1)) \in Nat
<1>1. IsFiniteSet(Met(is, p - 1)) /\ p \notin Met(is, p - 1)
  <2>1. IsFiniteSet(1 .. p - 1)
    BY FS_Interval
  <2>2. Met(is, p - 1) \subseteq 1 .. p - 1 /\ p \notin 1 .. p - 1
    BY DEF Met
  <2> QED BY <2>1, <2>2, FS_Subset
<1>2. Cardinality(Met(is, p - 1)) \in Nat
  BY <1>1, FS_CardinalityType
<1>3. 1 .. p = (1 .. p - 1) \cup {p}
  OBVIOUS
<1>4. CASE is[p]
  <2>1. Met(is, p) = Met(is, p - 1) \cup {p}
    BY <1>3, <1>4 DEF Met
  <2> QED BY <1>1, <1>2, <1>4, <2>1, FS_AddElement
<1>5. CASE ~ is[p]
  <2>1. Met(is, p) = Met(is, p - 1)
    BY <1>3, <1>5 DEF Met
  <2> QED BY <1>2, <1>5, <2>1
<1> QED BY <1>4, <1>5

(* There is the function that a counting loop computes, *)
LEMMA CountIs ==
  ASSUME NEW hi \in Nat, NEW is
  PROVE  \E f : Counts(f, hi, is)
<1> DEFINE f == [p \in 0 .. hi |-> Cardinality(Met(is, p))]
<1>1. f[0] = 0
  <2>1. Met(is, 0) = {}
    BY DEF Met
  <2> QED BY <2>1, FS_EmptySet
<1>2. ASSUME NEW p \in 0 .. hi, ~ (p < 1) PROVE f[p] = f[p - 1] + (IF is[p] THEN 1 ELSE 0)
  <2>1. p \in Nat \ {0} /\ p - 1 \in 0 .. hi
    BY <1>2
  <2> QED BY <2>1, MetNext
<1>3. \A p \in 0 .. hi : p < 1 => p = 0
  OBVIOUS
<1>4. f = [p \in 0 .. hi |-> f[p]]
  OBVIOUS
<1> HIDE DEF f
<1>5. Counts(f, hi, is)
  <2>1. \A p \in 0 .. hi : f[p] = IF p < 1 THEN 0 ELSE f[p - 1] + (IF is[p] THEN 1 ELSE 0)
    BY <1>1, <1>2, <1>3
  <2> QED BY <1>4, <2>1 DEF Counts
<1> QED BY <1>5

(* and it counts what the loop has met. *)
LEMMA CountEnds ==
  ASSUME NEW hi \in Nat, NEW is, NEW f, Counts(f, hi, is), NEW k \in 0 .. hi
  PROVE  f[k] = Cardinality(Met(is, k))
<1> DEFINE P == {i \in Nat : f[i] = Cardinality(Met(is, i))}
<1>1. 0 \in P
  <2>1. Met(is, 0) = {} /\ f[0] = 0
    BY DEF Met, Counts
  <2> QED BY <2>1, FS_EmptySet
<1>2. ASSUME NEW i \in 0 .. k - 1, i \in P PROVE i + 1 \in P
  <2>1. i + 1 \in 0 .. hi /\ i + 1 \in Nat \ {0} /\ ~ (i + 1 < 1) /\ i + 1 - 1 = i
    OBVIOUS
  <2>2. f[i + 1] = f[i] + (IF is[i + 1] THEN 1 ELSE 0)
    BY <2>1 DEF Counts
  <2> QED BY <1>2, <2>1, <2>2, MetNext
<1>3. k \in P
  <2> HIDE DEF P
  <2>1. k \in Nat /\ \A i \in 0 .. k : i \in P
    BY <1>1, <1>2, UpTo
  <2> QED BY <2>1
<1> QED BY <1>3

-----------------------------------------------------------------------------
(* The functions of string.c, by where their loops stop. *)
LEMMA EndIs ==
  ASSUME NEW m, Len(m) \in Nat, NEW str \in Nat, NEW e \in str .. Len(m), m[Len(m)] = 0,
         m[e] = 0, \A p \in str .. e - 1 : m[p] # 0
  PROVE  End(m, str) = e
<1> DEFINE Rec(f) == f = [p \in str .. Len(m) |-> IF m[p] = 0 THEN p ELSE f[p + 1]]
           stop == [p \in str .. Len(m) |-> m[p] = 0]
           val  == [p \in str .. Len(m) |-> p]
<1>1. stop \in [str .. Len(m) -> BOOLEAN] /\ stop[Len(m)]
  <2>1. Len(m) \in str .. Len(m)
    OBVIOUS
  <2> QED BY <2>1
<1>2. \A p \in str .. Len(m) : (stop[p] <=> m[p] = 0) /\ val[p] = p
  OBVIOUS
<1>3. \E f : Rec(f)
  <2> HIDE DEF stop, val
  <2>1. PICK f : IsUp(f, str, Len(m), stop, val)
    BY <1>1, LoopUpIs
  <2>2. Rec(f)
    BY <1>2, <2>1 DEF IsUp
  <2> QED BY <2>2
<1> DEFINE F == CHOOSE f : Rec(f)
<1>4. Rec(F)
  <2> HIDE DEF Rec
  <2> QED BY <1>3
<1>5. End(m, str) = F[str]
  BY DEF End
<1> HIDE DEF F
<1>6. First(stop, str, e)
  BY <1>2 DEF First
<1> HIDE DEF stop, val
<1>7. IsUp(F, str, Len(m), stop, val)
  BY <1>2, <1>4 DEF IsUp
<1>8. F[str] = val[e]
  BY <1>6, <1>7, LoopUpEnds
<1> QED BY <1>2, <1>5, <1>8

(* memcmp answers by the first difference, if one comes in time. *)
LEMMA memcmpIs ==
  ASSUME NEW m, NEW a, NEW b, NEW size \in Nat, NEW q \in 0 .. size,
         \A i \in 0 .. size - 1 : m[a + i] \in Int /\ m[b + i] \in Int,
         \A i \in 0 .. q - 1 : m[a + i] = m[b + i],
         q < size => m[a + q] # m[b + q]
  PROVE  memcmp(m, a, b, size) = IF q = size THEN 0 ELSE IF m[a + q] > m[b + q] THEN 1 ELSE -1
<1> DEFINE Rec(f) == f = [i \in 0 .. size |-> IF i = size THEN 0
                                             ELSE IF m[a + i] > m[b + i] THEN 1
                                             ELSE IF m[a + i] < m[b + i] THEN -1 ELSE f[i + 1]]
           stop == [i \in 0 .. size |-> i = size \/ m[a + i] > m[b + i] \/ m[a + i] < m[b + i]]
           val  == [i \in 0 .. size |-> IF i = size THEN 0
                                        ELSE IF m[a + i] > m[b + i] THEN 1 ELSE -1]
<1>1. stop \in [0 .. size -> BOOLEAN] /\ stop[size]
  <2>1. size \in 0 .. size
    OBVIOUS
  <2> QED BY <2>1
<1>2. \A i \in 0 .. size :
        /\ stop[i] <=> i = size \/ m[a + i] > m[b + i] \/ m[a + i] < m[b + i]
        /\ val[i] = IF i = size THEN 0 ELSE IF m[a + i] > m[b + i] THEN 1 ELSE -1
  OBVIOUS
<1>3. \E f : Rec(f)
  <2> HIDE DEF stop, val
  <2>1. PICK f : IsUp(f, 0, size, stop, val)
    BY <1>1, LoopUpIs
  <2>2. Rec(f)
    BY <1>2, <2>1 DEF IsUp
  <2> QED BY <2>2
<1> DEFINE F == CHOOSE f : Rec(f)
<1>4. Rec(F)
  <2> HIDE DEF Rec
  <2> QED BY <1>3
<1>5. memcmp(m, a, b, size) = F[0]
  BY DEF memcmp
<1> HIDE DEF F
<1>6. First(stop, 0, q)
  <2> HIDE DEF stop
  <2>1. q < size => q \in 0 .. size - 1
    OBVIOUS
  <2>2. stop[q]
    BY <1>2, <2>1
  <2>3. \A i \in 0 .. q - 1 : i \in 0 .. size - 1 /\ i \in 0 .. size /\ i # size
    OBVIOUS
  <2>4. \A i \in 0 .. q - 1 : ~ stop[i]
    BY <1>2, <2>3
  <2> QED BY <2>2, <2>4 DEF First
<1> HIDE DEF stop, val
<1>7. IsUp(F, 0, size, stop, val)
  BY <1>2, <1>4 DEF IsUp
<1> HIDE DEF Rec
<1>8. F[0] = val[q]
  <2>1. 0 \in Nat
    OBVIOUS
  <2>2. \A f : IsUp(f, 0, size, stop, val) => f[0] = val[q]
    BY <1>6, <2>1, LoopUpEnds
  <2> QED BY <1>7, <2>2
<1> QED BY <1>2, <1>5, <1>8

(* strcmp answers by where its loop stops: at a difference or a terminator. *)
LEMMA strcmpIs ==
  ASSUME NEW m, Len(m) \in Nat, NEW str1, NEW str2 \in 1 .. Len(m), m[Len(m)] = 0,
         NEW q \in 0 .. Len(m) - str2,
         \A i \in 0 .. q - 1 : m[str1 + i] # 0 /\ m[str1 + i] = m[str2 + i],
         ~ (m[str1 + q] # 0 /\ m[str1 + q] = m[str2 + q])
  PROVE  strcmp(m, str1, str2) =
           IF m[str1 + q] = 0 /\ m[str2 + q] = 0 THEN 0
           ELSE IF char(m[str1 + q]) > char(m[str2 + q]) THEN 1 ELSE -1
<1> DEFINE hi     == Len(m) - str2
           Rec(f) == f = [i \in 0 .. hi |->
                            IF m[str1 + i] # 0 /\ m[str1 + i] = m[str2 + i] THEN f[i + 1] ELSE i]
           stop == [i \in 0 .. hi |-> ~ (m[str1 + i] # 0 /\ m[str1 + i] = m[str2 + i])]
           val  == [i \in 0 .. hi |-> i]
<1>1. hi \in Nat /\ str2 + hi = Len(m) /\ hi \in 0 .. hi /\ 0 \in 0 .. hi
  OBVIOUS
<1>2. \A i \in 0 .. hi : /\ stop[i] <=> ~ (m[str1 + i] # 0 /\ m[str1 + i] = m[str2 + i])
                         /\ val[i] = i
  OBVIOUS
<1>3. stop \in [0 .. hi -> BOOLEAN] /\ stop[hi]
  <2>1. stop \in [0 .. hi -> BOOLEAN]
    OBVIOUS
  <2> HIDE DEF stop, hi
  <2> QED BY <1>1, <1>2, <2>1
<1>4. \E f : Rec(f)
  <2> HIDE DEF stop, val, hi
  <2>1. PICK f : IsUp(f, 0, hi, stop, val)
    BY <1>1, <1>3, LoopUpIs
  <2>2. \A i \in 0 .. hi : (IF stop[i] THEN val[i] ELSE f[i + 1]) =
          (IF m[str1 + i] # 0 /\ m[str1 + i] = m[str2 + i] THEN f[i + 1] ELSE i)
    BY <1>2
  <2>3. f = [i \in 0 .. hi |-> IF stop[i] THEN val[i] ELSE f[i + 1]]
    BY <2>1 DEF IsUp
  <2>4. /\ f = [i \in 0 .. hi |-> f[i]]
        /\ \A i \in 0 .. hi : f[i] = IF stop[i] THEN val[i] ELSE f[i + 1]
    BY <2>3
  <2>5. \A i \in 0 .. hi :
          f[i] = IF m[str1 + i] # 0 /\ m[str1 + i] = m[str2 + i] THEN f[i + 1] ELSE i
    BY <2>2, <2>4
  <2>6. Rec(f)
    BY <2>4, <2>5
  <2> QED BY <2>6
<1> DEFINE F == CHOOSE f : Rec(f)
<1>5. Rec(F)
  <2> HIDE DEF Rec
  <2> QED BY <1>4
<1> DEFINE c1 == m[str1 + F[0]]
           c2 == m[str2 + F[0]]
<1>6. strcmp(m, str1, str2) = IF c1 = 0 /\ c2 = 0 THEN 0 ELSE IF char(c1) > char(c2) THEN 1 ELSE -1
  BY DEF strcmp
<1> HIDE DEF F, stop, val, hi
<1>7. First(stop, 0, q)
  <2>1. q \in 0 .. hi /\ \A i \in 0 .. q - 1 : i \in 0 .. hi
    BY <1>1 DEF hi
  <2> QED BY <1>2, <2>1 DEF First
<1>8. IsUp(F, 0, hi, stop, val)
  <2>1. /\ F = [i \in 0 .. hi |-> F[i]]
        /\ \A i \in 0 .. hi : F[i] =
             IF m[str1 + i] # 0 /\ m[str1 + i] = m[str2 + i] THEN F[i + 1] ELSE i
    <3> HIDE DEF c1, c2
    <3>1. F = [i \in 0 .. hi |->
                 IF m[str1 + i] # 0 /\ m[str1 + i] = m[str2 + i] THEN F[i + 1] ELSE i]
      BY <1>5
    <3> HIDE DEF Rec
    <3>2. \A i \in 0 .. hi : F[i] =
            IF m[str1 + i] # 0 /\ m[str1 + i] = m[str2 + i] THEN F[i + 1] ELSE i
      BY <3>1
    <3> QED BY <3>1, <3>2
  <2> HIDE DEF Rec, c1, c2
  <2>2. \A i \in 0 .. hi : (IF stop[i] THEN val[i] ELSE F[i + 1]) =
          (IF m[str1 + i] # 0 /\ m[str1 + i] = m[str2 + i] THEN F[i + 1] ELSE i)
    BY <1>2
  <2>3. \A i \in 0 .. hi : F[i] = IF stop[i] THEN val[i] ELSE F[i + 1]
    BY <2>1, <2>2
  <2> QED BY <2>1, <2>3, LoopUpFrom
<1>9. F[0] = q
  <2>1. q \in 0 .. hi
    BY DEF hi
  <2>2. F[0] = val[q]
    BY <1>1, <1>7, <1>8, <2>1, LoopUpEnds
  <2> QED BY <1>2, <2>1, <2>2
<1> QED BY <1>6, <1>9

(* strchr stops at the terminator or at the first place of the character. *)
LEMMA strchrIs ==
  ASSUME NEW m, Len(m) \in Nat, NEW ch, NEW str \in Nat, NEW q \in str .. Len(m), m[Len(m)] = 0,
         m[q] = 0 \/ char(m[q]) = ch,
         \A p \in str .. q - 1 : m[p] # 0 /\ char(m[p]) # ch
  PROVE  strchr(m, str, ch) = IF m[q] = 0 THEN NoPlace ELSE q
<1> DEFINE Rec(f) == f = [p \in str .. Len(m) |-> IF m[p] = 0 THEN NoPlace
                                                 ELSE IF char(m[p]) = ch THEN p ELSE f[p + 1]]
           stop == [p \in str .. Len(m) |-> m[p] = 0 \/ char(m[p]) = ch]
           val  == [p \in str .. Len(m) |-> IF m[p] = 0 THEN NoPlace ELSE p]
<1>1. stop \in [str .. Len(m) -> BOOLEAN] /\ stop[Len(m)]
  <2>1. Len(m) \in str .. Len(m)
    OBVIOUS
  <2> QED BY <2>1
<1>2. \A p \in str .. Len(m) : /\ stop[p] <=> m[p] = 0 \/ char(m[p]) = ch
                               /\ val[p] = IF m[p] = 0 THEN NoPlace ELSE p
  OBVIOUS
<1>3. \E f : Rec(f)
  <2> HIDE DEF stop, val
  <2>1. PICK f : IsUp(f, str, Len(m), stop, val)
    BY <1>1, LoopUpIs
  <2>2. Rec(f)
    BY <1>2, <2>1 DEF IsUp
  <2> QED BY <2>2
<1> DEFINE F == CHOOSE f : Rec(f)
<1>4. Rec(F)
  <2> HIDE DEF Rec
  <2> QED BY <1>3
<1>5. strchr(m, str, ch) = F[str]
  BY DEF strchr
<1> HIDE DEF F, stop, val
<1>6. First(stop, str, q)
  <2>1. \A p \in str .. q - 1 : p \in str .. Len(m)
    OBVIOUS
  <2> QED BY <1>2, <2>1 DEF First
<1>7. IsUp(F, str, Len(m), stop, val)
  BY <1>2, <1>4 DEF IsUp
<1>8. F[str] = val[q]
  BY <1>6, <1>7, LoopUpEnds
<1> QED BY <1>2, <1>5, <1>8

(* strrchr goes back from the terminator to the last place of the character. *)
LEMMA strrchrIs ==
  ASSUME NEW m, Len(m) \in Nat, NEW ch, NEW str \in Nat \ {0}, NEW e \in str .. Len(m),
         End(m, str) = e, NEW q \in str - 1 .. e - 1,
         q >= str => char(m[q]) = ch,
         \A p \in q + 1 .. e - 1 : char(m[p]) # ch
  PROVE  strrchr(m, str, ch) = IF q < str THEN NoPlace ELSE q
<1> DEFINE lo     == str - 1
           Rec(f) == f = [p \in lo .. Len(m) |->
                            IF p < str THEN NoPlace ELSE IF char(m[p]) = ch THEN p ELSE f[p - 1]]
           stop == [p \in lo .. Len(m) |-> p < str \/ char(m[p]) = ch]
           val  == [p \in lo .. Len(m) |-> IF p < str THEN NoPlace ELSE p]
<1>1. lo \in Nat /\ lo <= Len(m) /\ lo < str /\ lo \in lo .. Len(m)
  OBVIOUS
<1>2. \A p \in lo .. Len(m) : /\ stop[p] <=> p < str \/ char(m[p]) = ch
                              /\ val[p] = IF p < str THEN NoPlace ELSE p
  OBVIOUS
<1>3. stop \in [lo .. Len(m) -> BOOLEAN] /\ stop[lo]
  <2>1. stop \in [lo .. Len(m) -> BOOLEAN]
    OBVIOUS
  <2> HIDE DEF stop, lo
  <2> QED BY <1>1, <1>2, <2>1
<1>4. \E f : Rec(f)
  <2> HIDE DEF stop, val, lo
  <2>1. PICK f : IsDown(f, lo, Len(m), stop, val)
    BY <1>1, <1>3, LoopDownIs
  <2>2. /\ f = [p \in lo .. Len(m) |-> f[p]]
        /\ \A p \in lo .. Len(m) : f[p] = IF stop[p] THEN val[p] ELSE f[p - 1]
    BY <2>1 DEF IsDown
  <2>3. \A p \in lo .. Len(m) :
          f[p] = IF p < str THEN NoPlace ELSE IF char(m[p]) = ch THEN p ELSE f[p - 1]
    BY <1>2, <2>2
  <2>4. Rec(f)
    BY <2>2, <2>3
  <2> QED BY <2>4
<1> DEFINE F == CHOOSE f : Rec(f)
<1>5. Rec(F)
  <2> HIDE DEF Rec
  <2> QED BY <1>4
<1>6. strrchr(m, str, ch) = F[e - 1]
  BY DEF strrchr
<1> HIDE DEF F, stop, val
<1>7. /\ e - 1 \in lo .. Len(m) /\ q \in lo .. e - 1 /\ q \in lo .. Len(m)
      /\ \A p \in q + 1 .. e - 1 : p \in lo .. Len(m) /\ ~ (p < str)
  OBVIOUS
<1> HIDE DEF lo
<1>8. stop[q] /\ \A p \in q + 1 .. e - 1 : ~ stop[p]
  BY <1>2, <1>7
<1>9. IsDown(F, lo, Len(m), stop, val)
  <2>1. /\ F = [p \in lo .. Len(m) |-> F[p]]
        /\ \A p \in lo .. Len(m) :
             F[p] = IF p < str THEN NoPlace ELSE IF char(m[p]) = ch THEN p ELSE F[p - 1]
    BY <1>5
  <2> HIDE DEF Rec
  <2>2. \A p \in lo .. Len(m) : F[p] = IF stop[p] THEN val[p] ELSE F[p - 1]
    BY <1>2, <2>1
  <2> QED BY <2>1, <2>2, LoopDownFrom
<1>10. F[e - 1] = val[q]
  BY <1>1, <1>7, <1>8, <1>9, LoopDownEnds
<1> QED BY <1>2, <1>6, <1>7, <1>10

(* strchrs counts the places of the character before the terminator. *)
LEMMA strchrsIs ==
  ASSUME NEW m, Len(m) \in Nat, NEW ch, NEW e \in 1 .. Len(m), End(m, 1) = e
  PROVE  strchrs(m, 1, ch) = Cardinality({p \in 1 .. e - 1 : char(m[p]) = ch})
<1> DEFINE is     == [p \in 0 .. Len(m) |-> char(m[p]) = ch]
           Rec(f) == f = [p \in 1 - 1 .. Len(m) |->
                            IF p < 1 THEN 0 ELSE f[p - 1] + (IF char(m[p]) = ch THEN 1 ELSE 0)]
<1>1. \A p \in 0 .. Len(m) : is[p] <=> char(m[p]) = ch
  OBVIOUS
<1>2. e - 1 \in 0 .. Len(m) /\ \A p \in 1 .. e - 1 : p \in 0 .. Len(m)
  OBVIOUS
<1> HIDE DEF is
<1>3. \E f : Rec(f)
  <2>1. PICK f : Counts(f, Len(m), is)
    BY CountIs
  <2>2. \A p \in 0 .. Len(m) : (IF is[p] THEN 1 ELSE 0) = (IF char(m[p]) = ch THEN 1 ELSE 0)
    BY <1>1
  <2>3. 1 - 1 = 0
    OBVIOUS
  <2>4. Rec(f)
    BY <2>1, <2>2, <2>3 DEF Counts
  <2> QED BY <2>4
<1> DEFINE F == CHOOSE f : Rec(f)
<1>4. Rec(F)
  <2> HIDE DEF Rec
  <2> QED BY <1>3
<1>5. strchrs(m, 1, ch) = F[e - 1]
  BY DEF strchrs
<1> HIDE DEF F
<1>6. Counts(F, Len(m), is)
  <2>1. \A p \in 0 .. Len(m) : (IF is[p] THEN 1 ELSE 0) = (IF char(m[p]) = ch THEN 1 ELSE 0)
    BY <1>1
  <2>2. 1 - 1 = 0
    OBVIOUS
  <2> QED BY <1>4, <2>1, <2>2 DEF Counts
<1>7. F[e - 1] = Cardinality(Met(is, e - 1))
  BY <1>2, <1>6, CountEnds
<1>8. Met(is, e - 1) = {p \in 1 .. e - 1 : char(m[p]) = ch}
  BY <1>1, <1>2 DEF Met
<1> QED BY <1>5, <1>7, <1>8

-----------------------------------------------------------------------------
(* The least and the greatest of some numbers. *)
LEMMA LeastIs ==
  ASSUME NEW S \in SUBSET Nat, S # {}
  PROVE  Min(S) \in S /\ \A y \in S : Min(S) <= y
<1>1. IsWellFoundedOn(OpToRel(<, Nat), Nat)
  BY NatLessThanWellFounded
<1> DEFINE R == OpToRel(<, Nat)
<1>2. PICK x \in S : \A y \in S : <<y, x>> \notin R
  <2> HIDE DEF R
  <2> QED BY <1>1, WFMin DEF R
<1>3. \A y \in S : ~ (y < x)
  BY <1>2 DEF OpToRel
<1>4. \A y \in S : x <= y
  BY <1>3
<1> QED BY <1>4 DEF Min

(* The greatest of numbers that are bounded. *)
LEMMA GreatestIs ==
  ASSUME NEW n \in Nat, NEW S \in SUBSET (0 .. n), S # {}
  PROVE  Max(S) \in S /\ \A y \in S : y <= Max(S)
<1> DEFINE U == {n - x : x \in S}
<1>1. U \in SUBSET Nat /\ U # {}
  <2>1. \A x \in S : n - x \in Nat
    OBVIOUS
  <2>2. PICK x \in S : TRUE
    OBVIOUS
  <2>3. n - x \in U
    BY <2>2
  <2> QED BY <2>1, <2>3
<1>2. PICK u \in U : \A v \in U : u <= v
  <2> HIDE DEF U
  <2> QED BY <1>1, LeastIs
<1>3. PICK x \in S : u = n - x
  OBVIOUS
<1>4. \A y \in S : y <= x
  BY <1>2, <1>3
<1> QED BY <1>4 DEF Max

(* There is one least number. *)
LEMMA MinIs ==
  ASSUME NEW S \in SUBSET Nat, NEW x \in S, \A y \in S : x <= y
  PROVE  Min(S) = x
<1>1. Min(S) \in S /\ \A y \in S : Min(S) <= y
  BY LeastIs
<1>2. Min(S) \in Nat /\ x \in Nat /\ x <= Min(S) /\ Min(S) <= x
  BY <1>1
<1> QED BY <1>2

(***************************************************************************)
(* Texts as C strings.                                                     *)
(***************************************************************************)
LEMMA TextIs ==
  ASSUME NEW s \in Text
  PROVE  /\ s \in Seq(1 .. 255) /\ Len(s) \in Nat /\ DOMAIN s = 1 .. Len(s)
         /\ \A i \in 1 .. Len(s) : s[i] \in 1 .. 255
<1>1. PICK n \in 0 .. MaxLength : s \in [1 .. n -> Byte \ {0}]
  BY DEF Text
<1>2. n \in Nat /\ Byte \ {0} \subseteq 1 .. 255
  BY <1>1, StringsAssumption
<1>3. s \in Seq(1 .. 255)
  <2>1. s \in [1 .. n -> 1 .. 255]
    BY <1>1, <1>2
  <2> QED BY <1>2, <2>1
<1>4. Len(s) \in Nat /\ DOMAIN s = 1 .. Len(s)
  BY <1>3
<1>5. ASSUME NEW i \in 1 .. Len(s) PROVE s[i] \in 1 .. 255
  <2>1. i \in 1 .. n
    BY <1>1, <1>2, <1>4
  <2>2. s[i] \in Byte \ {0}
    BY <1>1, <2>1
  <2> QED BY <1>2, <2>2
<1> QED BY <1>3, <1>4, <1>5

(* A text and its terminator. *)
LEMMA CIs ==
  ASSUME NEW s \in Text
  PROVE  /\ C(s) \in Seq(0 .. 255) /\ Len(C(s)) = Len(s) + 1 /\ DOMAIN C(s) = 1 .. Len(s) + 1
         /\ \A i \in 1 .. Len(s) : C(s)[i] = s[i] /\ C(s)[i] \in 1 .. 255
         /\ C(s)[Len(s) + 1] = 0
         /\ \A i \in 1 .. Len(s) + 1 : C(s)[i] \in 0 .. 255
<1>1. s \in Seq(0 .. 255) /\ Len(s) \in Nat /\ \A i \in 1 .. Len(s) : s[i] \in 1 .. 255
  <2>1. s \in Seq(1 .. 255) /\ 1 .. 255 \subseteq 0 .. 255
    BY TextIs
  <2> QED BY <2>1, TextIs
<1>2. 0 \in 0 .. 255
  OBVIOUS
<1>3. C(s) \in Seq(0 .. 255) /\ Len(C(s)) = Len(s) + 1
  BY <1>1, <1>2 DEF C
<1>4. C(s)[Len(s) + 1] = 0
  BY <1>1 DEF C
<1>5. \A i \in 1 .. Len(s) : C(s)[i] = s[i]
  BY <1>1 DEF C
<1>6. ASSUME NEW i \in 1 .. Len(s) + 1 PROVE C(s)[i] \in 0 .. 255
  <2>1. CASE i \in 1 .. Len(s)
    <3>1. C(s)[i] \in 1 .. 255
      BY <1>1, <1>5, <2>1
    <3> QED BY <3>1
  <2>2. CASE i = Len(s) + 1
    BY <1>2, <1>4, <2>2
  <2>3. Len(s) \in Nat
    BY <1>1
  <2>4. i \in 1 .. Len(s) \/ i = Len(s) + 1
    BY <2>3
  <2> QED BY <2>1, <2>2, <2>4
<1>7. DOMAIN C(s) = 1 .. Len(s) + 1
  BY <1>3
<1> QED BY <1>1, <1>3, <1>4, <1>5, <1>6, <1>7

(* Two of them in memory. *)
LEMMA PairIs ==
  ASSUME NEW s \in Text, NEW t \in Text
  PROVE  /\ Len(C(s) \o C(t)) = Len(s) + Len(t) + 2
         /\ Len(s) \in Nat /\ Len(t) \in Nat
         /\ \A i \in 0 .. Len(s) : (C(s) \o C(t))[1 + i] = C(s)[i + 1]
         /\ \A i \in 0 .. Len(t) : (C(s) \o C(t))[Len(s) + 2 + i] = C(t)[i + 1]
         /\ (C(s) \o C(t))[Len(C(s) \o C(t))] = 0
<1> DEFINE m == C(s) \o C(t)
<1>1. /\ C(s) \in Seq(0 .. 255) /\ C(t) \in Seq(0 .. 255) /\ Len(s) \in Nat /\ Len(t) \in Nat
      /\ Len(C(s)) = Len(s) + 1 /\ Len(C(t)) = Len(t) + 1 /\ C(t)[Len(t) + 1] = 0
  BY CIs, TextIs
<1>2. Len(m) = Len(s) + Len(t) + 2
  BY <1>1
<1>3. \A p \in 1 .. Len(m) : m[p] = IF p <= Len(C(s)) THEN C(s)[p] ELSE C(t)[p - Len(C(s))]
  BY <1>1, <1>2
<1> HIDE DEF m
<1>4. ASSUME NEW i \in 0 .. Len(s) PROVE m[1 + i] = C(s)[i + 1]
  <2>1. 1 + i \in 1 .. Len(m) /\ 1 + i <= Len(C(s)) /\ 1 + i = i + 1
    BY <1>1, <1>2
  <2> QED BY <1>3, <2>1
<1>5. ASSUME NEW i \in 0 .. Len(t) PROVE m[Len(s) + 2 + i] = C(t)[i + 1]
  <2>1. /\ Len(s) + 2 + i \in 1 .. Len(m) /\ ~ (Len(s) + 2 + i <= Len(C(s)))
        /\ Len(s) + 2 + i - Len(C(s)) = i + 1
    BY <1>1, <1>2
  <2> QED BY <1>3, <2>1
<1>6. m[Len(m)] = 0
  <2>1. Len(t) \in 0 .. Len(t) /\ Len(s) + 2 + Len(t) = Len(m)
    BY <1>1, <1>2
  <2>2. m[Len(s) + 2 + Len(t)] = C(t)[Len(t) + 1]
    BY <1>5, <2>1
  <2> QED BY <1>1, <2>1, <2>2
<1> QED BY <1>1, <1>2, <1>4, <1>5, <1>6 DEF m

(* A char is a byte with a sign. *)
LEMMA charIs ==
  ASSUME NEW x \in 0 .. 255
  PROVE  /\ char(x) \in Int
         /\ \A y \in 0 .. 255 : char(x) = char(y) => x = y
         /\ \A ch \in 1 .. 255 : char(x) = ch <=> x = ch /\ ch < 128
  BY DEF char

-----------------------------------------------------------------------------
(* Where two different strings differ first. *)
Differ(s, t, d) ==
  /\ d \in 1 .. Len(s) + 1 /\ d \in 1 .. Len(t) + 1 /\ C(s)[d] # C(t)[d]
  /\ \A i \in 1 .. d - 1 : C(s)[i] = C(t)[i]

(* Different texts have a first difference, if only in their terminators. *)
LEMMA FirstDiffers ==
  ASSUME NEW s \in Text, NEW t \in Text, s # t
  PROVE  Differ(s, t, FirstDifference(C(s), C(t)))
<1> DEFINE S == {i \in DOMAIN C(s) \cap DOMAIN C(t) : C(s)[i] # C(t)[i]}
<1>1. /\ DOMAIN C(s) = 1 .. Len(s) + 1 /\ DOMAIN C(t) = 1 .. Len(t) + 1
      /\ Len(s) \in Nat /\ Len(t) \in Nat
      /\ DOMAIN s = 1 .. Len(s) /\ DOMAIN t = 1 .. Len(t)
  BY CIs, TextIs
<1>2. S \in SUBSET Nat
  BY <1>1
<1>3. S # {}
  <2>1. CASE Len(s) = Len(t)
    <3>1. s \in Seq(1 .. 255) /\ t \in Seq(1 .. 255)
      BY TextIs
    <3>2. PICK i \in 1 .. Len(s) : s[i] # t[i]
      BY <2>1, <3>1
    <3>3. i \in 1 .. Len(s) + 1 /\ i \in 1 .. Len(t) + 1 /\ i \in 1 .. Len(t)
      BY <1>1, <2>1, <3>2
    <3>4. C(s)[i] = s[i] /\ C(t)[i] = t[i]
      BY <3>3, CIs
    <3>5. i \in S
      BY <1>1, <3>2, <3>3, <3>4
    <3> QED BY <3>5
  <2>2. ASSUME NEW n \in Nat, n \in DOMAIN C(s), n \in DOMAIN C(t),
               \/ C(s)[n] = 0 /\ C(t)[n] \in 1 .. 255
               \/ C(t)[n] = 0 /\ C(s)[n] \in 1 .. 255
        PROVE  S # {}
    <3>1. C(s)[n] # C(t)[n]
      BY <2>2
    <3>2. n \in S
      BY <2>2, <3>1
    <3> QED BY <3>2
  <2>3. CASE Len(s) < Len(t)
    <3>1. /\ Len(s) + 1 \in Nat /\ Len(s) + 1 \in 1 .. Len(s) + 1
          /\ Len(s) + 1 \in 1 .. Len(t) /\ Len(s) + 1 \in 1 .. Len(t) + 1
      BY <1>1, <2>3
    <3>2. C(s)[Len(s) + 1] = 0 /\ C(t)[Len(s) + 1] \in 1 .. 255
      BY <3>1, CIs
    <3> HIDE DEF S
    <3> QED BY <1>1, <2>2, <3>1, <3>2
  <2>4. CASE Len(t) < Len(s)
    <3>1. /\ Len(t) + 1 \in Nat /\ Len(t) + 1 \in 1 .. Len(t) + 1
          /\ Len(t) + 1 \in 1 .. Len(s) /\ Len(t) + 1 \in 1 .. Len(s) + 1
      BY <1>1, <2>4
    <3>2. C(t)[Len(t) + 1] = 0 /\ C(s)[Len(t) + 1] \in 1 .. 255
      BY <3>1, CIs
    <3> HIDE DEF S
    <3> QED BY <1>1, <2>2, <3>1, <3>2
  <2>5. Len(s) = Len(t) \/ Len(s) < Len(t) \/ Len(t) < Len(s)
    <3>1. Len(s) \in Nat /\ Len(t) \in Nat
      BY <1>1
    <3> QED BY <3>1
  <2> HIDE DEF S
  <2> QED BY <2>1, <2>3, <2>4, <2>5
<1> DEFINE d == Min(S)
<1>4. FirstDifference(C(s), C(t)) = d
  BY DEF FirstDifference
<1>5. d \in S /\ \A y \in S : d <= y
  <2> HIDE DEF S
  <2> QED BY <1>2, <1>3, LeastIs
<1> HIDE DEF d
<1>6. d \in 1 .. Len(s) + 1 /\ d \in 1 .. Len(t) + 1 /\ C(s)[d] # C(t)[d]
  BY <1>1, <1>5
<1>7. ASSUME NEW i \in 1 .. d - 1 PROVE C(s)[i] = C(t)[i]
  <2>1. i \in 1 .. Len(s) + 1 /\ i \in 1 .. Len(t) + 1 /\ ~ (d <= i)
    BY <1>1, <1>6
  <2> QED BY <1>1, <1>5, <2>1
<1> QED BY <1>4, <1>6, <1>7 DEF Differ

(* strcmp of two texts goes by it, *)
LEMMA strcmpDiffers ==
  ASSUME NEW s \in Text, NEW t \in Text, NEW d, Differ(s, t, d)
  PROVE  strcmp(C(s) \o C(t), 1, Len(s) + 2) =
           IF char(C(s)[d]) > char(C(t)[d]) THEN 1 ELSE -1
<1> DEFINE m    == C(s) \o C(t)
           str2 == Len(s) + 2
           q    == d - 1
<1>1. /\ d \in 1 .. Len(s) + 1 /\ d \in 1 .. Len(t) + 1 /\ C(s)[d] # C(t)[d]
      /\ \A i \in 1 .. d - 1 : C(s)[i] = C(t)[i]
  BY DEF Differ
<1>2. /\ Len(m) = Len(s) + Len(t) + 2 /\ Len(s) \in Nat /\ Len(t) \in Nat
      /\ \A i \in 0 .. Len(s) : m[1 + i] = C(s)[i + 1]
      /\ \A i \in 0 .. Len(t) : m[str2 + i] = C(t)[i + 1]
      /\ m[Len(m)] = 0
  BY PairIs
<1> HIDE DEF m
<1>3. /\ Len(m) \in Nat /\ str2 \in 1 .. Len(m) /\ Len(m) - str2 = Len(t)
      /\ q \in 0 .. Len(t) /\ q \in 0 .. Len(s) /\ q + 1 = d
  BY <1>1, <1>2
<1> HIDE DEF str2, q
<1>4. m[1 + q] = C(s)[d] /\ m[str2 + q] = C(t)[d]
  BY <1>2, <1>3
<1>5. ASSUME NEW i \in 0 .. q - 1 PROVE m[1 + i] # 0 /\ m[1 + i] = m[str2 + i]
  <2>1. i \in 0 .. Len(s) /\ i \in 0 .. Len(t) /\ i + 1 \in 1 .. d - 1 /\ i + 1 \in 1 .. Len(s)
    BY <1>2, <1>3
  <2>2. m[1 + i] = C(s)[i + 1] /\ m[str2 + i] = C(t)[i + 1]
    BY <1>2, <2>1
  <2>3. C(s)[i + 1] = C(t)[i + 1]
    BY <1>1, <2>1
  <2>4. C(s)[i + 1] \in 1 .. 255
    BY <2>1, CIs
  <2>5. C(s)[i + 1] # 0
    BY <2>4
  <2> QED BY <2>2, <2>3, <2>5
<1>6. q \in 0 .. Len(m) - str2
  BY <1>3
<1>7. ~ (m[1 + q] # 0 /\ m[1 + q] = m[str2 + q])
  BY <1>1, <1>4
<1>8. strcmp(m, 1, str2) = IF m[1 + q] = 0 /\ m[str2 + q] = 0 THEN 0
                           ELSE IF char(m[1 + q]) > char(m[str2 + q]) THEN 1 ELSE -1
  <2>1. \A i \in 0 .. q - 1 : m[1 + i] # 0 /\ m[1 + i] = m[str2 + i]
    BY <1>5
  <2>2. Len(m) \in Nat /\ str2 \in 1 .. Len(m) /\ m[Len(m)] = 0
    BY <1>2, <1>3
  <2> QED BY <1>6, <1>7, <2>1, <2>2, strcmpIs
<1>9. ~ (C(s)[d] = 0 /\ C(t)[d] = 0)
  BY <1>1
<1> QED BY <1>4, <1>8, <1>9 DEF m, str2

(* and is 0 of equal texts. *)
LEMMA strcmpSame ==
  ASSUME NEW s \in Text PROVE strcmp(C(s) \o C(s), 1, Len(s) + 2) = 0
<1> DEFINE m    == C(s) \o C(s)
           str2 == Len(s) + 2
           q    == Len(s)
<1>1. /\ Len(m) = Len(s) + Len(s) + 2 /\ Len(s) \in Nat
      /\ \A i \in 0 .. Len(s) : m[1 + i] = C(s)[i + 1]
      /\ \A i \in 0 .. Len(s) : m[str2 + i] = C(s)[i + 1]
      /\ m[Len(m)] = 0
  BY PairIs
<1> HIDE DEF m
<1>2. /\ Len(m) \in Nat /\ str2 \in 1 .. Len(m) /\ Len(m) - str2 = q /\ q \in 0 .. q
      /\ q \in Nat /\ q \in 0 .. Len(m) - str2
  BY <1>1
<1>3. C(s)[q + 1] = 0
  BY CIs
<1> HIDE DEF str2
<1>4. m[1 + q] = 0 /\ m[str2 + q] = 0
  BY <1>1, <1>2, <1>3
<1>5. ASSUME NEW i \in 0 .. q - 1 PROVE m[1 + i] # 0 /\ m[1 + i] = m[str2 + i]
  <2>1. i \in 0 .. Len(s) /\ i + 1 \in 1 .. Len(s)
    BY <1>1
  <2>2. m[1 + i] = C(s)[i + 1] /\ m[str2 + i] = C(s)[i + 1]
    BY <1>1, <2>1
  <2>3. C(s)[i + 1] \in 1 .. 255
    BY <2>1, CIs
  <2>4. \A x \in 1 .. 255 : x # 0
    OBVIOUS
  <2> QED BY <2>2, <2>3, <2>4
<1>6. ~ (m[1 + q] # 0 /\ m[1 + q] = m[str2 + q])
  BY <1>4
<1> HIDE DEF q
<1>7. strcmp(m, 1, str2) = IF m[1 + q] = 0 /\ m[str2 + q] = 0 THEN 0
                           ELSE IF char(m[1 + q]) > char(m[str2 + q]) THEN 1 ELSE -1
  <2>1. \A i \in 0 .. q - 1 : m[1 + i] # 0 /\ m[1 + i] = m[str2 + i]
    BY <1>5
  <2>2. Len(m) \in Nat /\ str2 \in 1 .. Len(m) /\ m[Len(m)] = 0 /\ q \in 0 .. Len(m) - str2
    BY <1>1, <1>2
  <2> QED BY <1>6, <2>1, <2>2, strcmpIs
<1> QED BY <1>4, <1>7 DEF m, str2

(* The beginning of a text. *)
LEMMA BeginIs ==
  ASSUME NEW s \in Text, NEW n \in Nat, n <= Len(s)
  PROVE  /\ SubSeq(s, 1, n) \in Seq(1 .. 255) /\ Len(SubSeq(s, 1, n)) = n
         /\ DOMAIN SubSeq(s, 1, n) = 1 .. n
         /\ \A i \in 1 .. n : SubSeq(s, 1, n)[i] = s[i]
<1> DEFINE p == SubSeq(s, 1, n)
<1>1. s \in Seq(1 .. 255) /\ Len(s) \in Nat
  BY TextIs
<1>2. \A i \in 1 .. n : s[i] \in 1 .. 255
  BY <1>1, TextIs
<1>3. /\ p \in Seq(1 .. 255) /\ Len(p) = IF 1 <= n THEN n - 1 + 1 ELSE 0
      /\ \A i \in 1 .. n - 1 + 1 : p[i] = s[1 + i - 1]
  <2>1. 1 \in Int /\ n \in Int
    OBVIOUS
  <2> QED BY <1>2, <2>1, SubSeqProperties
<1> HIDE DEF p
<1>4. Len(p) = n /\ n - 1 + 1 = n
  BY <1>3
<1>5. \A i \in 1 .. n : 1 + i - 1 = i
  OBVIOUS
<1>6. \A i \in 1 .. n : p[i] = s[i]
  BY <1>3, <1>4, <1>5
<1>7. DOMAIN p = 1 .. Len(p)
  BY <1>3
<1> QED BY <1>3, <1>4, <1>6, <1>7 DEF p

(* memcmp of the beginnings of two texts goes by their first difference, unsigned. *)
LEMMA memcmpTexts ==
  ASSUME NEW s \in Text, NEW t \in Text, NEW n \in Nat, n <= Len(s), n <= Len(t)
  PROVE  LET p == SubSeq(s, 1, n)
             r == SubSeq(t, 1, n)
         IN  memcmp(C(s) \o C(t), 1, Len(s) + 2, n) =
               IF p = r THEN 0
               ELSE IF s[FirstDifference(p, r)] < t[FirstDifference(p, r)] THEN -1 ELSE 1
<1> DEFINE m  == C(s) \o C(t)
           p  == SubSeq(s, 1, n)
           r  == SubSeq(t, 1, n)
           st == Len(s) + 2
<1>1. /\ Len(s) \in Nat /\ Len(t) \in Nat
      /\ \A i \in 0 .. Len(s) : m[1 + i] = C(s)[i + 1]
      /\ \A i \in 0 .. Len(t) : m[st + i] = C(t)[i + 1]
  BY PairIs
<1>2. /\ p \in Seq(1 .. 255) /\ r \in Seq(1 .. 255) /\ Len(p) = n /\ Len(r) = n
      /\ DOMAIN p = 1 .. n /\ DOMAIN r = 1 .. n
      /\ \A i \in 1 .. n : p[i] = s[i] /\ r[i] = t[i]
  BY BeginIs
<1> HIDE DEF m, p, r
<1>3. ASSUME NEW i \in 0 .. n - 1
      PROVE  /\ m[1 + i] = s[i + 1] /\ m[st + i] = t[i + 1]
             /\ s[i + 1] \in 1 .. 255 /\ t[i + 1] \in 1 .. 255
             /\ s[i + 1] = p[i + 1] /\ t[i + 1] = r[i + 1]
  <2>1. /\ i \in 0 .. Len(s) /\ i \in 0 .. Len(t) /\ i + 1 \in 1 .. Len(s) /\ i + 1 \in 1 .. Len(t)
        /\ i + 1 \in 1 .. n
    BY <1>1
  <2>2. m[1 + i] = C(s)[i + 1] /\ m[st + i] = C(t)[i + 1]
    BY <1>1, <2>1
  <2>3. C(s)[i + 1] = s[i + 1] /\ C(t)[i + 1] = t[i + 1]
    BY <2>1, CIs
  <2>4. s[i + 1] \in 1 .. 255 /\ t[i + 1] \in 1 .. 255
    BY <2>1, TextIs
  <2> QED BY <1>2, <2>1, <2>2, <2>3, <2>4
<1> HIDE DEF st
<1>4. \A i \in 0 .. n - 1 : m[1 + i] \in Int /\ m[st + i] \in Int
  <2>1. \A x \in 1 .. 255 : x \in Int
    OBVIOUS
  <2> QED BY <1>3, <2>1
<1>5. CASE p = r
  <2>1. \A i \in 0 .. n - 1 : m[1 + i] = m[st + i]
    BY <1>3, <1>5
  <2>2. n \in 0 .. n /\ ~ (n < n)
    OBVIOUS
  <2>3. memcmp(m, 1, st, n) = 0
    BY <1>4, <2>1, <2>2, memcmpIs
  <2> QED BY <1>5, <2>3 DEF m, p, r, st
<1>6. CASE p # r
  <2> DEFINE S == {i \in DOMAIN p \cap DOMAIN r : p[i] # r[i]}
             d == Min(S)
  <2>1. S \in SUBSET Nat
    BY <1>2
  <2>2. PICK j \in 1 .. n : p[j] # r[j]
    BY <1>2, <1>6
  <2>3. j \in S
    BY <1>2, <2>2
  <2>4. FirstDifference(p, r) = d
    BY DEF FirstDifference
  <2>5. d \in S /\ \A y \in S : d <= y
    <3> HIDE DEF S
    <3> QED BY <2>1, <2>3, LeastIs
  <2> HIDE DEF d
  <2>6. d \in 1 .. n /\ p[d] # r[d]
    BY <1>2, <2>5
  <2> DEFINE q == d - 1
  <2>7. q \in 0 .. n /\ q \in 0 .. n - 1 /\ q + 1 = d /\ q < n /\ q # n
    BY <2>6
  <2>8. ASSUME NEW i \in 0 .. q - 1 PROVE m[1 + i] = m[st + i]
    <3>1. i \in 0 .. n - 1 /\ i + 1 \in 1 .. n /\ ~ (d <= i + 1)
      BY <2>6
    <3>2. p[i + 1] = r[i + 1]
      BY <1>2, <2>5, <3>1
    <3> QED BY <1>3, <3>1, <3>2
  <2> HIDE DEF q, S
  <2>9. /\ m[1 + q] = s[d] /\ m[st + q] = t[d] /\ s[d] \in 1 .. 255 /\ t[d] \in 1 .. 255
        /\ s[d] # t[d]
    BY <1>3, <2>6, <2>7
  <2>10. m[1 + q] # m[st + q]
    BY <2>9
  <2>11. memcmp(m, 1, st, n) = IF q = n THEN 0 ELSE IF m[1 + q] > m[st + q] THEN 1 ELSE -1
    BY <1>4, <2>7, <2>8, <2>10, memcmpIs
  <2>12. PICK x \in 1 .. 255, y \in 1 .. 255 : x = s[d] /\ y = t[d]
    BY <2>9
  <2>13. (IF x > y THEN 1 ELSE -1) = (IF x < y THEN -1 ELSE 1)
    BY <2>9, <2>12
  <2>14. memcmp(m, 1, st, n) = IF s[d] < t[d] THEN -1 ELSE 1
    BY <2>7, <2>9, <2>11, <2>12, <2>13
  <2> QED BY <1>6, <2>4, <2>14 DEF m, p, r, st
<1> QED BY <1>5, <1>6

(* Hence the comparisons are what the comments of string.c say, *)
LEMMA Compares == ASSUME NEW s \in Text, NEW t \in Text PROVE ComparesRight(s, t)
<1> DEFINE m  == C(s) \o C(t)
           r  == strcmp(m, 1, Len(s) + 2)
           r2 == strcmp(C(t) \o C(s), 1, Len(t) + 2)
           n  == IF Len(s) < Len(t) THEN Len(s) ELSE Len(t)
           i  == FirstDifference(C(s), C(t))
<1>1. n \in Nat /\ n <= Len(s) /\ n <= Len(t)
  <2>1. Len(s) \in Nat /\ Len(t) \in Nat
    BY TextIs
  <2> QED BY <2>1
<1>2. LET p == SubSeq(s, 1, n)
          q == SubSeq(t, 1, n)
      IN  memcmp(m, 1, Len(s) + 2, n) =
            IF p = q THEN 0
            ELSE IF s[FirstDifference(p, q)] < t[FirstDifference(p, q)] THEN -1 ELSE 1
  <2> HIDE DEF n
  <2> QED BY <1>1, memcmpTexts
<1>3. CASE s = t
  <2>1. r = 0 /\ r2 = 0
    BY <1>3, strcmpSame
  <2> HIDE DEF r, r2
  <2>2. r = 0 <=> s = t
    BY <1>3, <2>1
  <2>3. r = - r2
    <3>1. \A x, y \in Int : x + y = 0 => x = - y
      OBVIOUS
    <3>2. r \in Int /\ r2 \in Int /\ r + r2 = 0
      BY <2>1
    <3> QED BY <3>1, <3>2
  <2> QED BY <1>2, <1>3, <2>2, <2>3 DEF ComparesRight, r, r2
<1>4. CASE s # t
  <2>1. Differ(s, t, i)
    BY <1>4, FirstDiffers
  <2> HIDE DEF i
  <2>2. Differ(t, s, i)
    BY <2>1 DEF Differ
  <2> DEFINE x == char(C(s)[i])
             y == char(C(t)[i])
  <2>3. r = IF x > y THEN 1 ELSE -1
    BY <2>1, strcmpDiffers
  <2>4. r2 = IF y > x THEN 1 ELSE -1
    BY <2>2, strcmpDiffers
  <2>5. x \in Int /\ y \in Int /\ x # y
    <3>1. C(s)[i] \in 0 .. 255 /\ C(t)[i] \in 0 .. 255 /\ C(s)[i] # C(t)[i]
      BY <2>1, CIs DEF Differ
    <3> QED BY <3>1, charIs
  <2> HIDE DEF r, r2, x, y
  <2>6. r # 0 /\ r = - r2 /\ r = IF x < y THEN -1 ELSE 1
    BY <2>3, <2>4, <2>5
  <2> QED BY <1>2, <1>4, <2>6 DEF ComparesRight, r, r2, x, y, i
<1> QED BY <1>3, <1>4

-----------------------------------------------------------------------------
(* The end of a C string. *)
LEMMA EndOfC == ASSUME NEW s \in Text PROVE End(C(s), 1) = Len(s) + 1
<1> DEFINE m == C(s)
           e == Len(s) + 1
<1>1. Len(m) = e /\ Len(s) \in Nat /\ m[e] = 0 /\ \A i \in 1 .. Len(s) : m[i] \in 1 .. 255
  BY CIs, TextIs
<1> HIDE DEF m
<1>2. Len(m) \in Nat /\ 1 \in Nat /\ e \in 1 .. Len(m) /\ m[Len(m)] = 0
  BY <1>1
<1>3. \A p \in 1 .. e - 1 : m[p] # 0
  <2>1. \A p \in 1 .. e - 1 : p \in 1 .. Len(s)
    BY <1>1
  <2>2. \A x \in 1 .. 255 : x # 0
    OBVIOUS
  <2> QED BY <1>1, <2>1, <2>2
<1> HIDE DEF e
<1>4. End(m, 1) = e
  BY <1>1, <1>2, <1>3, EndIs
<1> QED BY <1>4 DEF m, e

(* so are the searches, by the places of an ASCII character, *)
LEMMA Finds == ASSUME NEW s \in Text, NEW ch \in 1 .. 255 PROVE FindsRight(s, ch)
<1> DEFINE m      == C(s)
           L      == Len(s)
           places == Places(s, ch)
<1>1. /\ Len(m) = L + 1 /\ L \in Nat /\ m[L + 1] = 0
      /\ \A i \in 1 .. L : m[i] = s[i] /\ m[i] \in 1 .. 255
      /\ DOMAIN s = 1 .. L
  BY CIs, TextIs
<1>2. End(m, 1) = L + 1
  BY EndOfC
<1>3. /\ places \subseteq 1 .. L
      /\ \A i \in 1 .. L : i \in places <=> char(m[i]) = ch
  <2>1. \A i \in 1 .. L : i \in places <=> s[i] = ch /\ ch < 128
    BY <1>1 DEF Places
  <2>2. \A i \in 1 .. L : m[i] = s[i] /\ m[i] \in 0 .. 255
    <3>1. \A x \in 1 .. 255 : x \in 0 .. 255
      OBVIOUS
    <3> QED BY <1>1, <3>1
  <2>3. places \subseteq 1 .. L
    BY <1>1 DEF Places
  <2> HIDE DEF m, places, L
  <2>4. ASSUME NEW i \in 1 .. L PROVE i \in places <=> char(m[i]) = ch
    <3>1. m[i] \in 0 .. 255 /\ m[i] = s[i]
      BY <2>2
    <3>2. char(m[i]) = ch <=> m[i] = ch /\ ch < 128
      BY <3>1, charIs
    <3> QED BY <2>1, <3>1, <3>2
  <2> QED BY <2>3, <2>4
<1> HIDE DEF m, L, places
<1>4. Len(m) \in Nat /\ m[Len(m)] = 0 /\ 1 \in Nat /\ 1 \in Nat \ {0} /\ L + 1 \in 1 .. Len(m)
  BY <1>1
<1>5. \A i \in 1 .. L : m[i] # 0
  <2>1. \A x \in 1 .. 255 : x # 0
    OBVIOUS
  <2> QED BY <1>1, <2>1
<1>6. strchr(m, 1, ch) = IF places = {} THEN NoPlace ELSE Min(places)
  <2>1. CASE places = {}
    <3>1. \A p \in 1 .. (L + 1) - 1 : m[p] # 0 /\ char(m[p]) # ch
      <4>1. \A p \in 1 .. (L + 1) - 1 : p \in 1 .. L
        BY <1>1
      <4> QED BY <1>3, <1>5, <2>1, <4>1
    <3>2. m[L + 1] = 0
      BY <1>1
    <3> QED BY <1>4, <2>1, <3>1, <3>2, strchrIs
  <2>2. CASE places # {}
    <3>1. places \in SUBSET Nat
      BY <1>3
    <3>2. Min(places) \in places /\ \A y \in places : Min(places) <= y
      BY <2>2, <3>1, LeastIs
    <3> DEFINE q == Min(places)
    <3> HIDE DEF q
    <3>3. q \in 1 .. L /\ q \in places /\ \A y \in places : q <= y
      BY <1>3, <3>2 DEF q
    <3>4. \A p \in 1 .. q - 1 : m[p] # 0 /\ char(m[p]) # ch
      <4>1. \A p \in 1 .. q - 1 : p \in 1 .. L /\ ~ (q <= p)
        BY <1>1, <3>3
      <4> QED BY <1>3, <1>5, <3>3, <4>1
    <3>5. char(m[q]) = ch /\ m[q] # 0 /\ q \in 1 .. Len(m)
      BY <1>1, <1>3, <1>5, <3>3
    <3>6. strchr(m, 1, ch) = IF m[q] = 0 THEN NoPlace ELSE q
      BY <1>4, <3>4, <3>5, strchrIs
    <3> QED BY <2>2, <3>5, <3>6 DEF q
  <2> QED BY <2>1, <2>2
<1>7. strrchr(m, 1, ch) = IF places = {} THEN NoPlace ELSE Max(places)
  <2> DEFINE e == L + 1
  <2>1. e \in 1 .. Len(m) /\ End(m, 1) = e /\ e - 1 = L /\ 1 - 1 = 0
    BY <1>1, <1>2, <1>4
  <2> HIDE DEF e
  <2>2. CASE places = {}
    <3>1. 0 \in 1 - 1 .. e - 1 /\ ~ (0 >= 1) /\ 0 < 1
      BY <1>1, <2>1
    <3>2. \A p \in 0 + 1 .. e - 1 : char(m[p]) # ch
      <4>1. \A p \in 0 + 1 .. e - 1 : p \in 1 .. L
        BY <1>1, <2>1
      <4> QED BY <1>3, <2>2, <4>1
    <3>3. strrchr(m, 1, ch) = IF 0 < 1 THEN NoPlace ELSE 0
      BY <1>4, <2>1, <3>1, <3>2, strrchrIs
    <3> QED BY <2>2, <3>1, <3>3
  <2>3. CASE places # {}
    <3>1. places \in SUBSET (0 .. L)
      BY <1>1, <1>3
    <3>2. Max(places) \in places /\ \A y \in places : y <= Max(places)
      BY <1>1, <2>3, <3>1, GreatestIs
    <3> DEFINE q == Max(places)
    <3> HIDE DEF q
    <3>3. q \in 1 .. L /\ q \in places /\ \A y \in places : y <= q
      BY <1>3, <3>2 DEF q
    <3>4. \A p \in q + 1 .. e - 1 : char(m[p]) # ch
      <4>1. \A p \in q + 1 .. e - 1 : p \in 1 .. L /\ ~ (p <= q)
        BY <1>1, <2>1, <3>3
      <4> QED BY <1>3, <3>3, <4>1
    <3>5. q \in 1 - 1 .. e - 1 /\ char(m[q]) = ch /\ ~ (q < 1)
      BY <1>1, <1>3, <2>1, <3>3
    <3>6. strrchr(m, 1, ch) = IF q < 1 THEN NoPlace ELSE q
      BY <1>4, <2>1, <3>4, <3>5, strrchrIs
    <3> QED BY <2>3, <3>5, <3>6 DEF q
  <2> QED BY <2>2, <2>3
<1>8. strchrs(m, 1, ch) = Cardinality(places)
  <2>1. {p \in 1 .. (L + 1) - 1 : char(m[p]) = ch} = places
    <3>1. (L + 1) - 1 = L
      BY <1>1
    <3> QED BY <1>3, <3>1
  <2> QED BY <1>2, <1>4, <2>1, strchrsIs
<1> QED BY <1>6, <1>7, <1>8 DEF FindsRight, m, places

-----------------------------------------------------------------------------
(* and strcat, whose result ends where the second string does. *)
LEMMA Joins ==
  ASSUME NEW s \in Text, NEW t \in Text, NEW byte \in Byte
  PROVE  JoinsRight(s, t, byte)
<1> DEFINE a      == Len(s)
           b      == Len(t)
           n      == a + b + 2
           m      == C(s) \o C(t)
           room   == memset(m, a + 2, byte, b)
           joined == memcpy(room, a + 1, C(t), 1, b)
           J      == strcat(room, 1, C(t), 1)
           both   == s \o t
<1>1. /\ a \in Nat /\ b \in Nat /\ s \in Seq(1 .. 255) /\ t \in Seq(1 .. 255)
      /\ \A i \in 1 .. a : s[i] \in 1 .. 255
      /\ \A i \in 1 .. b : t[i] \in 1 .. 255
  BY TextIs
<1>2. /\ C(s)[a + 1] = 0
      /\ \A i \in 1 .. a : C(s)[i] = s[i]
      /\ \A i \in 1 .. b : C(t)[i] = t[i]
  BY CIs
<1>3. /\ both \in Seq(1 .. 255) /\ Len(both) = a + b /\ DOMAIN both = 1 .. a + b
      /\ \A i \in 1 .. a + b : both[i] = IF i <= a THEN s[i] ELSE t[i - a]
  BY <1>1
<1> HIDE DEF both
<1>4. \A i \in 1 .. a + b : both[i] # 0
  <2>1. ASSUME NEW i \in 1 .. a + b PROVE both[i] # 0
    <3>1. \A x \in 1 .. 255 : x # 0
      OBVIOUS
    <3>2. CASE i <= a
      <4>1. i \in 1 .. a
        BY <1>1, <3>2
      <4>2. both[i] = s[i]
        BY <1>3, <3>2
      <4>3. s[i] \in 1 .. 255
        BY <1>1, <4>1
      <4> QED BY <3>1, <4>2, <4>3
    <3>3. CASE ~ (i <= a)
      <4>1. i - a \in 1 .. b
        BY <1>1, <3>3
      <4>2. both[i] = t[i - a]
        BY <1>3, <3>3
      <4>3. t[i - a] \in 1 .. 255
        BY <1>1, <4>1
      <4> QED BY <3>1, <4>2, <4>3
    <3> QED BY <3>2, <3>3
  <2> QED BY <2>1
<1>5. /\ DOMAIN m = 1 .. n /\ n \in Nat /\ m[n] = 0
      /\ \A i \in 0 .. a : m[1 + i] = C(s)[i + 1]
  <2>1. C(s) \in Seq(0 .. 255) /\ C(t) \in Seq(0 .. 255)
    BY CIs
  <2>2. m \in Seq(0 .. 255)
    BY <2>1
  <2>3. Len(m) = n /\ m[Len(m)] = 0 /\ \A i \in 0 .. a : m[1 + i] = C(s)[i + 1]
    BY PairIs
  <2> HIDE DEF m, n
  <2>4. DOMAIN m = 1 .. Len(m)
    BY <2>2
  <2>5. n \in Nat
    BY <1>1 DEF n
  <2> QED BY <2>3, <2>4, <2>5
<1> HIDE DEF m
<1>6. /\ room = [p \in 1 .. n |-> room[p]] /\ room[n] = 0
      /\ \A p \in 1 .. a : room[p] = s[p]
      /\ room[a + 1] = 0
  <2>1. room = [p \in 1 .. n |-> IF p \in a + 2 .. a + 2 + b - 1 THEN byte ELSE m[p]]
    BY <1>5 DEF memset
  <2>2. ASSUME NEW p \in 1 .. a + 1
        PROVE  /\ p \in 1 .. n /\ p \notin a + 2 .. a + 2 + b - 1
               /\ p - 1 \in 0 .. a /\ 1 + (p - 1) = p /\ (p - 1) + 1 = p
    BY <1>1
  <2>3. n \in 1 .. n /\ n \notin a + 2 .. a + 2 + b - 1
    BY <1>1
  <2> HIDE DEF room, n
  <2>4. ASSUME NEW p \in 1 .. a + 1 PROVE room[p] = C(s)[p]
    <3>1. m[1 + (p - 1)] = C(s)[(p - 1) + 1]
      BY <1>5, <2>2
    <3> QED BY <2>1, <2>2, <3>1
  <2>5. a + 1 \in 1 .. a + 1 /\ \A p \in 1 .. a : p \in 1 .. a + 1
    BY <1>1
  <2> QED BY <1>2, <1>5, <2>1, <2>3, <2>4, <2>5
<1> HIDE DEF room
<1>7. Len(room) = n /\ DOMAIN room = 1 .. n
  BY <1>5, <1>6
<1>8. End(room, 1) = a + 1
  <2>1. Len(room) \in Nat /\ 1 \in Nat /\ a + 1 \in 1 .. Len(room) /\ room[Len(room)] = 0
    BY <1>1, <1>6, <1>7
  <2>2. \A p \in 1 .. (a + 1) - 1 : room[p] # 0
    <3>1. \A p \in 1 .. (a + 1) - 1 : p \in 1 .. a
      BY <1>1
    <3>2. \A x \in 1 .. 255 : x # 0
      OBVIOUS
    <3> QED BY <1>1, <1>6, <3>1, <3>2
  <2> QED BY <1>6, <2>1, <2>2, EndIs
<1>9. strlen(C(t), 1) = b
  <2>1. End(C(t), 1) = b + 1
    BY EndOfC
  <2>2. (b + 1) - 1 = b
    BY <1>1
  <2> QED BY <2>1, <2>2 DEF strlen
<1>10. J = [joined EXCEPT ![a + 1 + b] = 0]
  BY <1>8, <1>9 DEF strcat, strcpy
<1>11. joined = [p \in 1 .. n |-> IF p \in a + 1 .. a + 1 + b - 1 THEN C(t)[1 + p - (a + 1)]
                                  ELSE room[p]]
  BY <1>7 DEF memcpy
<1> HIDE DEF joined, J
<1>12. J = [p \in 1 .. n |-> J[p]] /\ J[a + b + 1] = 0 /\ J[n] = 0
  <2>1. /\ a + 1 + b \in 1 .. n /\ n \in 1 .. n /\ a + 1 + b = a + b + 1 /\ n # a + b + 1
        /\ n \notin a + 1 .. a + 1 + b - 1
    BY <1>1
  <2> HIDE DEF n
  <2> QED BY <1>6, <1>10, <1>11, <2>1
<1>13. \A i \in 1 .. a + b : J[i] = both[i]
  <2> SUFFICES ASSUME NEW i \in 1 .. a + b PROVE J[i] = both[i]
    OBVIOUS
  <2>1. i \in 1 .. n /\ i # a + 1 + b /\ a + 1 + b \in 1 .. n
    BY <1>1
  <2>2. J[i] = IF i \in a + 1 .. a + 1 + b - 1 THEN C(t)[1 + i - (a + 1)] ELSE room[i]
    <3> HIDE DEF n
    <3> QED BY <1>10, <1>11, <2>1
  <2>3. CASE i <= a
    <3>1. i \notin a + 1 .. a + 1 + b - 1 /\ i \in 1 .. a
      BY <1>1, <2>3
    <3> QED BY <1>3, <1>6, <2>2, <2>3, <3>1
  <2>4. CASE ~ (i <= a)
    <3>1. /\ i \in a + 1 .. a + 1 + b - 1 /\ 1 + i - (a + 1) = i - a /\ i - a \in 1 .. b
      BY <1>1, <2>4
    <3> QED BY <1>2, <1>3, <2>2, <2>4, <3>1
  <2> QED BY <2>3, <2>4
<1>14. Len(J) = n /\ a + b + 1 \in 1 .. n /\ a + b \in Nat
  BY <1>1, <1>12
<1>15. \A p \in 1 .. a + b : J[p] # 0
  BY <1>4, <1>13
<1>16. strlen(J, 1) = a + b
  <2>1. Len(J) \in Nat /\ 1 \in Nat /\ a + b + 1 \in 1 .. Len(J) /\ J[Len(J)] = 0
    BY <1>5, <1>12, <1>14
  <2>2. (a + b + 1) - 1 = a + b
    BY <1>1
  <2>3. End(J, 1) = a + b + 1
    <3>1. J[a + b + 1] = 0 /\ \A p \in 1 .. (a + b + 1) - 1 : J[p] # 0
      BY <1>12, <1>15, <2>2
    <3> QED BY <2>1, <3>1, EndIs
  <2> QED BY <2>2, <2>3 DEF strlen
<1>17. Held(J, 1) = both
  <2> DEFINE S == {p \in 1 .. Len(J) : J[p] = 0}
  <2>1. S \in SUBSET Nat
    BY <1>14
  <2>2. a + b + 1 \in S
    BY <1>12, <1>14
  <2>3. ASSUME NEW y \in S PROVE a + b + 1 <= y
    <3>1. y \in 1 .. n /\ J[y] = 0
      BY <1>14
    <3>2. y \notin 1 .. a + b
      BY <1>15, <3>1
    <3> QED BY <1>1, <3>1, <3>2
  <2>4. Min(S) = a + b + 1
    <3> HIDE DEF S
    <3> QED BY <2>1, <2>2, <2>3, MinIs
  <2>5. Held(J, 1) = SubSeq(J, 1, a + b + 1 - 1)
    <3>1. Held(J, 1) = SubSeq(J, 1, Min(S) - 1)
      BY DEF Held
    <3> HIDE DEF S
    <3> QED BY <2>4, <3>1
  <2>6. a + b + 1 - 1 = a + b
    BY <1>1
  <2> DEFINE w == SubSeq(J, 1, a + b)
  <2>7. /\ w \in Seq(1 .. 255) /\ Len(w) = IF 1 <= a + b THEN a + b - 1 + 1 ELSE 0
        /\ \A i \in 1 .. a + b - 1 + 1 : w[i] = J[1 + i - 1]
    <3>1. \A i \in 1 .. a + b : J[i] \in 1 .. 255
      BY <1>3, <1>13
    <3>2. 1 \in Int /\ a + b \in Int
      BY <1>1
    <3> QED BY <3>1, <3>2, SubSeqProperties
  <2> HIDE DEF w
  <2>8. Len(w) = a + b /\ a + b - 1 + 1 = a + b
    BY <1>1, <2>7
  <2>9. \A i \in 1 .. a + b : 1 + i - 1 = i
    BY <1>1
  <2>10. \A i \in 1 .. a + b : w[i] = both[i]
    BY <1>13, <2>7, <2>8, <2>9
  <2>11. w = both
    BY <1>3, <2>7, <2>8, <2>10
  <2> QED BY <2>5, <2>6, <2>11 DEF w
<1> QED BY <1>16, <1>17 DEF JoinsRight, J, room, m, both

(* What the comments of string.c say, of every two strings: StringsRight. *)
THEOREM StringsAreRight == StringsRight
<1>1. ASSUME NEW s \in Text, NEW ch \in Byte \ {0} PROVE FindsRight(s, ch)
  <2>1. ch \in 1 .. 255
    BY StringsAssumption
  <2> QED BY <2>1, Finds
<1> QED BY <1>1, Compares, Joins DEF StringsRight

(***************************************************************************)
(* For every set of bytes with 0 in it and strings of every length: what   *)
(* the functions of string.c compute is what their comments say, also next *)
(* to the screen and in every state of it.                                 *)
(***************************************************************************)
THEOREM StringsStayKept == ScreenSpec => []StringsKept
<1>1. StringsKept
  BY StringsAreRight DEF StringsKept
<1> QED BY <1>1, PTL
=============================================================================
