---------------------------- MODULE IoQueueProofs ----------------------------
(***************************************************************************)
(* Proofs about IoQueue for every size of the buffer and every number of   *)
(* threads and keys, and about Keyboard, whose handler fills the queue.    *)
(*                                                                         *)
(* LockInv, kept in every execution, says where a context can be in its    *)
(* call and that only one is inside ioqLock; the refinement needs no more. *)
(* The rest is about consumers that come through int 0x80.  The flag is    *)
(* then off in every call, so that a context that acts is the one on the   *)
(* CPU and a key is only handled where the thread is idle (FlagInv).  Then *)
(* all the lists are sequences of threads (Agree, of ThreadsProofs), each  *)
(* thread waits where its context says (Placed), and what waits for a      *)
(* signal is matched by one to come (Served).  These are together WaitInv, *)
(* which holds as long as nothing has panicked; that nothing does is the   *)
(* last theorem, for which the boot thread is never far (Bounded).         *)
(***************************************************************************)
EXTENDS IoQueue, Keyboard, ThreadsProofs, TLAPS

AcquireLabel == {"lockAcquire", "acquireSpin", "acquireAppend", "acquireRecheck",
                 "acquireRemove", "acquireUnspin", "acquireBlock"}
ReleaseLabel == {"lockRelease", "releaseSpin", "releasePop", "releaseUnspin",
                 "releaseWake"}
GetLabel == {"getLoop", "getAdvance", "getSignal"}
PutLabel == {"putLoop", "putAdvance", "putSignal"}
Label == LockLabel \cup GetLabel \cup PutLabel
           \cup {"waitSchedule", "waitReturn", "signalWake", "release", "return"}

(* The while of the call that a context can be in: a handler puts a        *)
(* character in, a thread takes one out.                                   *)
Loop(c) == IF c[2] = "irq" THEN "putLoop" ELSE "getLoop"

(* Where the call returns to (r) that a context at l is in, and where      *)
(* conditionWait or conditionSignal does (b), if its while is at k.        *)
Control(k, l, r, b) ==
  /\ l \in {"boot", "idle"} => r = "idle"
  /\ l \in AcquireLabel => r \in {"waitReturn", k}
  /\ l \in ReleaseLabel => r \in {"waitSchedule", "return"}
  /\ l \in {"waitSchedule", "waitReturn", "return"} => r = l
  /\ l \in GetLabel \cup PutLabel \cup {"signalWake", "release"}
       => r \in {"waitReturn", k}
  /\ l \in GetLabel => k = "getLoop"
  /\ l \in PutLabel => k = "putLoop"
  /\ r = "waitSchedule" => b = k
  /\ l \in AcquireLabel \cup {"waitReturn"} /\ r = "waitReturn" => b = k
  /\ l = "signalWake" => b = "release"

(* Only the boot thread boots, and only consumers call. *)
Calls(c, l) == /\ l = "boot" => c = Task(Main)
               /\ c[2] = "task" /\ c[1] \notin Consumer => l \in {"boot", "idle"}

(* The handler still has its character. *)
Pending(l, r) == \/ l \in AcquireLabel \cup {"putLoop", "putAdvance", "waitReturn"}
                 \/ r = "waitSchedule"

TypeInv == /\ cur \in Thread
           /\ iflag \in [Thread -> BOOLEAN]
           /\ holder \in [Lock -> Thread \cup {NULL}]
           /\ waitersLock \in [Lock -> BOOLEAN]
           /\ pc \in [Ctx -> Label] /\ ret \in [Ctx -> Label]
           /\ back \in [Ctx -> Label]
           /\ lk \in [Ctx -> Lock]
           /\ thread \in [Ctx -> Thread \cup {NULL}]
           /\ oldStatus \in [Ctx -> BOOLEAN]
           /\ buf \in [0 .. BUFSIZE - 1 -> Char \cup {NULL}]
           /\ head \in 0 .. BUFSIZE - 1 /\ tail \in 0 .. BUFSIZE - 1
           /\ ch \in [Ctx -> Char \cup {NULL}]

ControlOK == \A c \in Ctx : Control(Loop(c), pc[c], ret[c], back[c]) /\ Calls(c, pc[c])

HolderOK ==
  /\ \A c \in Ctx : pc[c] \in Inside => holder[ioqLock] = ThreadOf(c)
  /\ \A c, d \in Ctx : pc[c] \in Inside /\ pc[d] \in Inside => c = d
  /\ holder[ioqLock] # NULL => \E c \in Ctx : pc[c] \in Inside

SpinOK ==
  /\ \A c \in Ctx : pc[c] \in Spinning => waitersLock[ioqLock]
  /\ \A c, d \in Ctx : pc[c] \in Spinning /\ pc[d] \in Spinning => c = d

(* What each context is about to do with the ring. *)
RingOK ==
  \A c \in Ctx :
    /\ c[2] = "irq" => (ch[c] \in Char <=> Pending(pc[c], ret[c]))
    /\ pc[c] = "getAdvance" => ~ Empty /\ ch[c] = buf[head]
    /\ pc[c] = "putAdvance" => ~ Full /\ ch[c] = buf[tail]

LockInv == TypeInv /\ ControlOK /\ HolderOK /\ SpinOK /\ RingOK

(* There is one lock, and a context is a thread or the handler on it. *)
LEMMA CtxFacts ==
  /\ \A t \in Thread : Task(t) \in Ctx /\ Irq(t) \in Ctx
  /\ \A c \in Ctx : /\ ThreadOf(c) \in Thread
                    /\ c = Task(ThreadOf(c)) \/ c = Irq(ThreadOf(c))
  /\ \A t : Task(t)[2] = "task" /\ Irq(t)[2] = "irq" /\ ThreadOf(Task(t)) = t
            /\ ThreadOf(Irq(t)) = t
  /\ ioqLock \in Lock /\ \A l \in Lock : l = ioqLock
  BY IoQueueAssumption DEF Ctx, Task, Irq, ThreadOf

(* What LockInv says of a context that acts. *)
LEMMA ActsFacts ==
  ASSUME LockInv, NEW c \in Ctx
  PROVE  /\ cur \in Thread /\ lk[c] = ioqLock /\ ioqLock \in Lock
         /\ Control(Loop(c), pc[c], ret[c], back[c]) /\ Calls(c, pc[c])
         /\ pc \in [Ctx -> Label] /\ ret \in [Ctx -> Label] /\ back \in [Ctx -> Label]
         /\ holder \in [Lock -> Thread \cup {NULL}] /\ waitersLock \in [Lock -> BOOLEAN]
         /\ pc[c] \in Inside => holder[ioqLock] = ThreadOf(c)
         /\ pc[c] \in Spinning => waitersLock[ioqLock]
         /\ NULL \notin Thread /\ ThreadOf(c) \in Thread
         /\ Loop(c) \in {"getLoop", "putLoop"}
  BY CtxFacts, ThreadAssumption DEF LockInv, TypeInv, ControlOK, HolderOK, SpinOK, Loop

-----------------------------------------------------------------------------
(* The context c goes from its label to l1, to return to r1 or b1. *)
GoesTo(c, l1, r1, b1) ==
  /\ l1 \in Label /\ r1 \in Label /\ b1 \in Label
  /\ pc' = [pc EXCEPT ![c] = l1]
  /\ ret' = [ret EXCEPT ![c] = r1]
  /\ back' = [back EXCEPT ![c] = b1]
  /\ Control(Loop(c), l1, r1, b1) /\ Calls(c, l1)

(* What that does to the lock: nothing, or it is taken, or given up; *)
LockStep(c, l1) ==
  \/ holder' = holder /\ (l1 \in Inside <=> pc[c] \in Inside)
  \/ /\ holder[ioqLock] = NULL /\ holder' = [holder EXCEPT ![ioqLock] = ThreadOf(c)]
     /\ l1 \in Inside
  \/ /\ pc[c] \in Inside /\ holder' = [holder EXCEPT ![ioqLock] = NULL]
     /\ l1 \notin Inside

(* and to its waitersLock, likewise. *)
SpinStep(c, l1) ==
  \/ waitersLock' = waitersLock /\ (l1 \in Spinning => pc[c] \in Spinning)
  \/ ~ waitersLock[ioqLock] /\ waitersLock' = [waitersLock EXCEPT ![ioqLock] = TRUE]
  \/ /\ pc[c] \in Spinning /\ waitersLock' = [waitersLock EXCEPT ![ioqLock] = FALSE]
     /\ l1 \notin Spinning

(* A step of sync.c or ioqueue.c: one context moves, the two locks with it. *)
Moves(c, l1, r1, b1) == /\ GoesTo(c, l1, r1, b1)
                        /\ LockStep(c, l1) /\ SpinStep(c, l1)

(* A step of c to the labels l1, r1 and b1 keeps what is said of the       *)
(* control and of the locks.                                               *)
LEMMA ControlStep ==
  ASSUME LockInv, NEW c \in Ctx, NEW l1, NEW r1, NEW b1, Moves(c, l1, r1, b1)
  PROVE  /\ ControlOK' /\ HolderOK' /\ SpinOK'
         /\ pc' \in [Ctx -> Label] /\ ret' \in [Ctx -> Label] /\ back' \in [Ctx -> Label]
         /\ holder' \in [Lock -> Thread \cup {NULL}] /\ waitersLock' \in [Lock -> BOOLEAN]
         /\ \A d \in Ctx : /\ pc'[d] = IF d = c THEN l1 ELSE pc[d]
                           /\ ret'[d] = IF d = c THEN r1 ELSE ret[d]
<1>1. /\ \A d \in Ctx : /\ pc'[d] = IF d = c THEN l1 ELSE pc[d]
                        /\ ret'[d] = IF d = c THEN r1 ELSE ret[d]
                        /\ back'[d] = IF d = c THEN b1 ELSE back[d]
      /\ pc' \in [Ctx -> Label] /\ ret' \in [Ctx -> Label] /\ back' \in [Ctx -> Label]
  BY DEF LockInv, TypeInv, GoesTo, Moves
<1>2. /\ holder \in [Lock -> Thread \cup {NULL}] /\ NULL \notin Thread /\ ioqLock \in Lock
      /\ ThreadOf(c) \in Thread /\ waitersLock \in [Lock -> BOOLEAN]
      /\ \A d \in Ctx : ThreadOf(d) \in Thread
  BY CtxFacts, ActsFacts
<1>3. /\ \A d \in Ctx : pc[d] \in Inside => holder[ioqLock] = ThreadOf(d)
      /\ \A d, e \in Ctx : pc[d] \in Inside /\ pc[e] \in Inside => d = e
      /\ holder[ioqLock] # NULL => \E d \in Ctx : pc[d] \in Inside
  BY DEF LockInv, HolderOK
<1>4. /\ holder' \in [Lock -> Thread \cup {NULL}]
      /\ \/ holder'[ioqLock] = holder[ioqLock] /\ (l1 \in Inside <=> pc[c] \in Inside)
         \/ holder[ioqLock] = NULL /\ holder'[ioqLock] = ThreadOf(c) /\ l1 \in Inside
         \/ pc[c] \in Inside /\ holder'[ioqLock] = NULL /\ l1 \notin Inside
  BY <1>2 DEF Moves, LockStep
<1>5. ControlOK'
  <2>1. ASSUME NEW d \in Ctx
        PROVE  Control(Loop(d), pc'[d], ret'[d], back'[d]) /\ Calls(d, pc'[d])
    BY <1>1 DEF LockInv, ControlOK, Moves, GoesTo
  <2> QED BY <2>1 DEF ControlOK
<1>6. HolderOK'
  <2>1. CASE holder'[ioqLock] = holder[ioqLock] /\ (l1 \in Inside <=> pc[c] \in Inside)
    <3>1. \A d \in Ctx : pc'[d] \in Inside <=> pc[d] \in Inside
      BY <1>1, <2>1
    <3> QED BY <1>3, <2>1, <3>1 DEF HolderOK
  <2>2. CASE holder[ioqLock] = NULL /\ holder'[ioqLock] = ThreadOf(c) /\ l1 \in Inside
    <3>1. \A d \in Ctx : pc'[d] \in Inside <=> d = c
      BY <1>1, <1>2, <1>3, <2>2
    <3> QED BY <2>2, <3>1 DEF HolderOK
  <2>3. CASE pc[c] \in Inside /\ holder'[ioqLock] = NULL /\ l1 \notin Inside
    <3>1. \A d \in Ctx : pc'[d] \notin Inside
      BY <1>1, <1>3, <2>3
    <3> QED BY <2>3, <3>1 DEF HolderOK
  <2> QED BY <1>4, <2>1, <2>2, <2>3
<1>7. waitersLock' \in [Lock -> BOOLEAN] /\ SpinOK'
  <2>1. /\ \A d \in Ctx : pc[d] \in Spinning => waitersLock[ioqLock]
        /\ \A d, e \in Ctx : pc[d] \in Spinning /\ pc[e] \in Spinning => d = e
    BY DEF LockInv, SpinOK
  <2>2. CASE waitersLock' = waitersLock /\ (l1 \in Spinning => pc[c] \in Spinning)
    <3>1. \A d \in Ctx : pc'[d] \in Spinning => pc[d] \in Spinning
      BY <1>1, <2>2
    <3> QED BY <1>2, <2>1, <2>2, <3>1 DEF SpinOK
  <2>3. CASE ~ waitersLock[ioqLock] /\ waitersLock' = [waitersLock EXCEPT ![ioqLock] = TRUE]
    <3>1. \A d \in Ctx : pc'[d] \in Spinning => d = c
      BY <1>1, <2>1, <2>3
    <3> QED BY <1>2, <2>3, <3>1 DEF SpinOK
  <2>4. CASE /\ pc[c] \in Spinning /\ waitersLock' = [waitersLock EXCEPT ![ioqLock] = FALSE]
             /\ l1 \notin Spinning
    <3>1. \A d \in Ctx : pc'[d] \notin Spinning
      BY <1>1, <2>1, <2>4
    <3> QED BY <1>2, <2>4, <3>1 DEF SpinOK
  <2> QED BY <2>2, <2>3, <2>4 DEF Moves, SpinStep
<1> QED BY <1>1, <1>4, <1>5, <1>6, <1>7

(* schedule gives the CPU to a thread, or the kernel stops. *)
LEMMA ScheduleCpu ==
  ASSUME cur \in Thread, NEW h, NEW st, schedule(h, st)
  PROVE  cur' \in Thread
  BY DEF schedule

(* The variables that such a step sets from others keep their types. *)
RestTyped == /\ cur' \in Thread
             /\ iflag' \in [Thread -> BOOLEAN]
             /\ lk' \in [Ctx -> Lock]
             /\ thread' \in [Ctx -> Thread \cup {NULL}]
             /\ oldStatus' \in [Ctx -> BOOLEAN]

(* A step that leaves the ring and the characters alone. *)
Follows(c) ==
  /\ UNCHANGED <<buf, head, tail, ch>> /\ RestTyped
  /\ \E l1, r1, b1 : /\ Moves(c, l1, r1, b1)
                     /\ c[2] = "irq" => (Pending(l1, r1) <=> Pending(pc[c], ret[c]))
                     /\ l1 \notin {"getAdvance", "putAdvance"}

(* Such a step keeps the invariant: what its context wants is unchanged. *)
LEMMA FollowsInv == ASSUME LockInv, NEW c \in Ctx, Follows(c) PROVE LockInv'
<1>1. PICK l1, r1, b1 : /\ Moves(c, l1, r1, b1)
                        /\ c[2] = "irq" => (Pending(l1, r1) <=> Pending(pc[c], ret[c]))
                        /\ l1 \notin {"getAdvance", "putAdvance"}
  BY DEF Follows
<1>2. /\ ControlOK' /\ HolderOK' /\ SpinOK'
      /\ pc' \in [Ctx -> Label] /\ ret' \in [Ctx -> Label] /\ back' \in [Ctx -> Label]
      /\ holder' \in [Lock -> Thread \cup {NULL}] /\ waitersLock' \in [Lock -> BOOLEAN]
      /\ \A d \in Ctx : /\ pc'[d] = IF d = c THEN l1 ELSE pc[d]
                        /\ ret'[d] = IF d = c THEN r1 ELSE ret[d]
  BY <1>1, ControlStep
<1>3. TypeInv'
  BY <1>2 DEF Follows, RestTyped, LockInv, TypeInv
<1>4. RingOK'
  <2>1. UNCHANGED <<buf, head, tail, ch>> /\ (Empty' <=> Empty) /\ (Full' <=> Full)
    BY DEF Follows, Empty, Full, nextPos
  <2>2. ASSUME NEW d \in Ctx
        PROVE  /\ d[2] = "irq" => (ch[d] \in Char <=> Pending(pc'[d], ret'[d]))
               /\ pc'[d] = "getAdvance" => ~ Empty /\ ch[d] = buf[head]
               /\ pc'[d] = "putAdvance" => ~ Full /\ ch[d] = buf[tail]
    BY <1>1, <1>2 DEF LockInv, RingOK
  <2> QED BY <2>1, <2>2 DEF RingOK
<1> QED BY <1>2, <1>3, <1>4 DEF LockInv

(* The steps of lockAcquire move on, take the lock or the spinlock. *)
LEMMA AcquireMoves ==
  ASSUME LockInv, NEW c \in Ctx, lockAcquire(c), UNCHANGED <<condVars, buf, head, tail, ch>>
  PROVE  Follows(c)
<1> DEFINE To(l1) == /\ Moves(c, l1, ret[c], back[c])
                     /\ c[2] = "irq" => (Pending(l1, ret[c]) <=> Pending(pc[c], ret[c]))
                     /\ l1 \notin {"getAdvance", "putAdvance"}
<1>1. /\ cur \in Thread /\ lk[c] = ioqLock /\ ioqLock \in Lock
      /\ Control(Loop(c), pc[c], ret[c], back[c]) /\ Calls(c, pc[c])
      /\ pc \in [Ctx -> Label] /\ ret \in [Ctx -> Label] /\ back \in [Ctx -> Label]
      /\ pc[c] \in Inside => holder[ioqLock] = ThreadOf(c)
      /\ Loop(c) \in {"getLoop", "putLoop"} /\ TypeInv
      /\ NULL \notin Thread /\ (c[2] = "irq" => Loop(c) = "putLoop")
  BY ActsFacts DEF LockInv, Loop
<1>2. UNCHANGED <<ret, back, lk, thread, oldStatus, iflag>>
  BY DEF lockAcquire, AcquireTry, AcquireSpin, AcquireAppend, AcquireRecheck,
         AcquireRemove, AcquireUnspin, AcquireBlock, condVars
<1>3. cur' \in Thread
  BY <1>1, ScheduleCpu DEF lockAcquire, AcquireTry, AcquireSpin, AcquireAppend,
     AcquireRecheck, AcquireRemove, AcquireUnspin, AcquireBlock, schedVars
<1>4. UNCHANGED <<buf, head, tail, ch>> /\ RestTyped
  BY <1>1, <1>2, <1>3 DEF RestTyped, TypeInv
<1>5. \A l1 \in Label : pc' = [pc EXCEPT ![c] = l1] /\ Control(Loop(c), l1, ret[c], back[c])
                           /\ Calls(c, l1) => GoesTo(c, l1, ret[c], back[c])
  BY <1>1, <1>2 DEF GoesTo
<1> USE <1>1, <1>5 DEF Moves, Label, LockLabel, GetLabel, PutLabel, Control, Calls,
       AcquireLabel, ReleaseLabel, LockStep, SpinStep, Inside, Spinning, Pending
<1>6. CASE AcquireTry(c)
  <2>1. pc[c] = "lockAcquire" /\ ThreadOf(c) = cur /\ waitersLock' = waitersLock
    BY <1>6 DEF AcquireTry, At
  <2>2. CASE holder[ioqLock] = NULL
    <3>1. pc' = [pc EXCEPT ![c] = ret[c]] /\ holder' = [holder EXCEPT ![ioqLock] = cur]
      BY <1>6, <2>2 DEF AcquireTry, Cas, Goto
    <3>2. To(ret[c])
      BY <2>1, <2>2, <3>1
    <3> QED BY <1>4, <3>2 DEF Follows
  <2>3. CASE holder[ioqLock] # NULL
    <3>1. pc' = [pc EXCEPT ![c] = "acquireSpin"] /\ holder' = holder
      BY <1>6, <2>3 DEF AcquireTry, Cas, Goto
    <3>2. To("acquireSpin")
      BY <2>1, <3>1
    <3> QED BY <1>4, <3>2 DEF Follows
  <2> QED BY <2>2, <2>3
<1>7. CASE AcquireRecheck(c)
  <2>1. pc[c] = "acquireRecheck" /\ ThreadOf(c) = cur /\ waitersLock' = waitersLock
    BY <1>7 DEF AcquireRecheck, At
  <2>2. CASE holder[ioqLock] = NULL
    <3>1. /\ pc' = [pc EXCEPT ![c] = "acquireRemove"]
          /\ holder' = [holder EXCEPT ![ioqLock] = cur]
      BY <1>7, <2>2 DEF AcquireRecheck, Cas, Goto
    <3>2. To("acquireRemove")
      BY <2>1, <2>2, <3>1
    <3> QED BY <1>4, <3>2 DEF Follows
  <2>3. CASE holder[ioqLock] # NULL
    <3>1. pc' = [pc EXCEPT ![c] = "acquireBlock"] /\ holder' = holder
      BY <1>7, <2>3 DEF AcquireRecheck, Cas, Goto
    <3>2. To("acquireBlock")
      BY <2>1, <3>1
    <3> QED BY <1>4, <3>2 DEF Follows
  <2> QED BY <2>2, <2>3
<1>8. CASE AcquireSpin(c)
  <2>1. /\ pc[c] = "acquireSpin" /\ pc' = [pc EXCEPT ![c] = "acquireAppend"]
        /\ holder' = holder
        /\ ~ waitersLock[ioqLock] /\ waitersLock' = [waitersLock EXCEPT ![ioqLock] = TRUE]
    BY <1>8 DEF AcquireSpin, At, Goto, SpinAcquire
  <2>2. To("acquireAppend")
    BY <2>1
  <2> QED BY <1>4, <2>2 DEF Follows
<1>9. CASE AcquireAppend(c)
  <2>1. /\ pc[c] = "acquireAppend" /\ pc' = [pc EXCEPT ![c] = "acquireRecheck"]
        /\ holder' = holder
        /\ waitersLock' = waitersLock
    BY <1>9 DEF AcquireAppend, At, Goto, lockVars
  <2>2. To("acquireRecheck")
    BY <2>1
  <2> QED BY <1>4, <2>2 DEF Follows
<1>10. CASE AcquireRemove(c)
  <2>1. /\ pc[c] = "acquireRemove" /\ pc' = [pc EXCEPT ![c] = "acquireUnspin"]
        /\ holder' = holder
        /\ waitersLock' = waitersLock
    BY <1>10 DEF AcquireRemove, At, Goto, lockVars
  <2>2. To("acquireUnspin")
    BY <2>1
  <2> QED BY <1>4, <2>2 DEF Follows
<1>11. CASE AcquireUnspin(c)
  <2>1. /\ pc[c] = "acquireUnspin" /\ pc' = [pc EXCEPT ![c] = ret[c]] /\ holder' = holder
        /\ waitersLock' = [waitersLock EXCEPT ![ioqLock] = FALSE]
    BY <1>11 DEF AcquireUnspin, At, Goto, SpinRelease
  <2>2. To(ret[c])
    BY <2>1
  <2> QED BY <1>4, <2>2 DEF Follows
<1>12. CASE AcquireBlock(c)
  <2>1. /\ pc[c] = "acquireBlock" /\ pc' = [pc EXCEPT ![c] = "lockAcquire"]
        /\ holder' = holder
        /\ waitersLock' = [waitersLock EXCEPT ![ioqLock] = FALSE]
    BY <1>12 DEF AcquireBlock, At, Goto, SpinRelease
  <2>2. To("lockAcquire")
    BY <2>1
  <2> QED BY <1>4, <2>2 DEF Follows
<1> QED BY <1>6, <1>7, <1>8, <1>9, <1>10, <1>11, <1>12 DEF lockAcquire

(* The steps of lockRelease move on or give the lock or the spinlock up. *)
LEMMA ReleaseMoves ==
  ASSUME LockInv, NEW c \in Ctx, lockRelease(c), UNCHANGED <<condVars, buf, head, tail, ch>>
  PROVE  Follows(c)
<1> DEFINE To(l1) == /\ Moves(c, l1, ret[c], back[c])
                     /\ c[2] = "irq" => (Pending(l1, ret[c]) <=> Pending(pc[c], ret[c]))
                     /\ l1 \notin {"getAdvance", "putAdvance"}
<1>1. /\ cur \in Thread /\ lk[c] = ioqLock /\ ioqLock \in Lock
      /\ Control(Loop(c), pc[c], ret[c], back[c]) /\ Calls(c, pc[c])
      /\ pc \in [Ctx -> Label] /\ ret \in [Ctx -> Label] /\ back \in [Ctx -> Label]
      /\ pc[c] \in Inside => holder[ioqLock] = ThreadOf(c)
      /\ Loop(c) \in {"getLoop", "putLoop"} /\ TypeInv
      /\ NULL \notin Thread /\ (c[2] = "irq" => Loop(c) = "putLoop")
  BY ActsFacts DEF LockInv, Loop
<1>2. UNCHANGED <<ret, back, lk, oldStatus, iflag>>
  BY DEF lockRelease, ReleaseClear, ReleaseSpin, ReleasePop, ReleaseUnspin, ReleaseWake,
         condVars
<1>3. cur' = cur /\ thread' \in [Ctx -> Thread \cup {NULL}]
  BY <1>1 DEF lockRelease, ReleaseClear, ReleaseSpin, ReleasePop, ReleaseUnspin,
     ReleaseWake, schedVars, threadUnblock, TypeInv
<1>4. UNCHANGED <<buf, head, tail, ch>> /\ RestTyped
  BY <1>1, <1>2, <1>3 DEF RestTyped, TypeInv
<1>5. \A l1 \in Label : pc' = [pc EXCEPT ![c] = l1] /\ Control(Loop(c), l1, ret[c], back[c])
                           /\ Calls(c, l1) => GoesTo(c, l1, ret[c], back[c])
  BY <1>1, <1>2 DEF GoesTo
<1> USE <1>1, <1>5 DEF Moves, Label, LockLabel, GetLabel, PutLabel, Control, Calls,
       AcquireLabel, ReleaseLabel, LockStep, SpinStep, Inside, Spinning, Pending
<1>6. CASE ReleaseClear(c)
  <2>1. pc[c] = "lockRelease" /\ ThreadOf(c) = cur /\ waitersLock' = waitersLock
    BY <1>6 DEF ReleaseClear, At
  <2>2. holder[ioqLock] = cur
    BY <2>1
  <2>3. /\ pc' = [pc EXCEPT ![c] = "releaseSpin"]
        /\ holder' = [holder EXCEPT ![ioqLock] = NULL]
    BY <1>6, <2>2 DEF ReleaseClear, Goto
  <2>4. To("releaseSpin")
    BY <2>1, <2>3
  <2> QED BY <1>4, <2>4 DEF Follows
<1>7. CASE ReleaseSpin(c)
  <2>1. /\ pc[c] = "releaseSpin" /\ pc' = [pc EXCEPT ![c] = "releasePop"]
        /\ holder' = holder
        /\ ~ waitersLock[ioqLock] /\ waitersLock' = [waitersLock EXCEPT ![ioqLock] = TRUE]
    BY <1>7 DEF ReleaseSpin, At, Goto, SpinAcquire
  <2>2. To("releasePop")
    BY <2>1
  <2> QED BY <1>4, <2>2 DEF Follows
<1>8. CASE ReleasePop(c)
  <2>1. /\ pc[c] = "releasePop" /\ pc' = [pc EXCEPT ![c] = "releaseUnspin"]
        /\ holder' = holder
        /\ waitersLock' = waitersLock
    BY <1>8 DEF ReleasePop, At, Goto, lockVars
  <2>2. To("releaseUnspin")
    BY <2>1
  <2> QED BY <1>4, <2>2 DEF Follows
<1>9. CASE ReleaseUnspin(c)
  <2>1. /\ pc[c] = "releaseUnspin" /\ holder' = holder
        /\ pc' = [pc EXCEPT ![c] = IF thread[c] = NULL THEN ret[c] ELSE "releaseWake"]
        /\ waitersLock' = [waitersLock EXCEPT ![ioqLock] = FALSE]
    BY <1>9 DEF ReleaseUnspin, At, Goto, SpinRelease
  <2>2. To((IF thread[c] = NULL THEN ret[c] ELSE "releaseWake"))
    BY <2>1
  <2> QED BY <1>4, <2>2 DEF Follows
<1>10. CASE ReleaseWake(c)
  <2>1. /\ pc[c] = "releaseWake" /\ pc' = [pc EXCEPT ![c] = ret[c]] /\ holder' = holder
        /\ waitersLock' = waitersLock
    BY <1>10 DEF ReleaseWake, At, Goto, lockVars
  <2>2. To(ret[c])
    BY <2>1
  <2> QED BY <1>4, <2>2 DEF Follows
<1> QED BY <1>6, <1>7, <1>8, <1>9, <1>10 DEF lockRelease

(* conditionWait gives the lock up, in lockRelease, and has it back in the *)
(* end; conditionSignal keeps it.                                          *)
LEMMA ConditionMoves ==
  ASSUME LockInv, NEW c \in Ctx, UNCHANGED <<buf, head, tail, ch>>,
         WaitSchedule(c) \/ WaitReturn(c) \/ SignalWake(c)
  PROVE  Follows(c)
<1> DEFINE To(l1, r1) == /\ Moves(c, l1, r1, back[c])
                         /\ c[2] = "irq" => (Pending(l1, r1) <=> Pending(pc[c], ret[c]))
                         /\ l1 \notin {"getAdvance", "putAdvance"}
<1>1. /\ cur \in Thread /\ lk[c] = ioqLock /\ ioqLock \in Lock
      /\ Control(Loop(c), pc[c], ret[c], back[c]) /\ Calls(c, pc[c])
      /\ pc \in [Ctx -> Label] /\ ret \in [Ctx -> Label] /\ back \in [Ctx -> Label]
      /\ Loop(c) \in {"getLoop", "putLoop"} /\ TypeInv
      /\ c[2] = "irq" => Loop(c) = "putLoop"
  BY ActsFacts DEF LockInv, Loop
<1>2. UNCHANGED <<back, holder, waitersLock, oldStatus>> /\ ret = [ret EXCEPT ![c] = ret[c]]
  BY <1>1 DEF WaitSchedule, WaitReturn, SignalWake, condVars, lockVars
<1>3. ASSUME NEW l1 \in Label, NEW r1 \in Label, Calls(c, l1),
             pc' = [pc EXCEPT ![c] = l1], ret' = [ret EXCEPT ![c] = r1],
             Control(Loop(c), l1, r1, back[c])
      PROVE  GoesTo(c, l1, r1, back[c])
  <2>1. back' = [back EXCEPT ![c] = back[c]] /\ back[c] \in Label
    BY <1>1, <1>2
  <2> QED BY <1>3, <2>1 DEF GoesTo
<1> USE <1>1, <1>3 DEF Moves, Label, LockLabel, GetLabel, PutLabel, Control, Calls,
       AcquireLabel, ReleaseLabel, LockStep, SpinStep, Inside, Spinning, Pending
<1>4. CASE WaitSchedule(c)
  <2>1. /\ pc[c] = "waitSchedule" /\ pc' = [pc EXCEPT ![c] = "lockAcquire"]
        /\ ret' = [ret EXCEPT ![c] = "waitReturn"] /\ lk' = [lk EXCEPT ![c] = ioqLock]
        /\ UNCHANGED <<iflag, thread>>
    BY <1>4 DEF WaitSchedule, At, Goto, Call
  <2>2. To("lockAcquire", "waitReturn")
    BY <1>2, <2>1
  <2>3. cur' \in Thread
    BY <1>4, ScheduleCpu DEF WaitSchedule
  <2>4. RestTyped
    BY <1>2, <2>1, <2>3 DEF RestTyped, TypeInv
  <2> QED BY <2>2, <2>4 DEF Follows
<1>5. CASE WaitReturn(c)
  <2>1. /\ pc[c] = "waitReturn" /\ pc' = [pc EXCEPT ![c] = back[c]] /\ cur' = cur
        /\ ret' = ret /\ UNCHANGED <<lk, thread>>
        /\ iflag' = [iflag EXCEPT ![cur] = oldStatus[c]]
    BY <1>5 DEF WaitReturn, At, Goto, condVars, schedVars
  <2>2. To(back[c], ret[c])
    BY <1>2, <2>1
  <2>3. RestTyped
    BY <1>2, <2>1 DEF RestTyped, TypeInv
  <2> QED BY <2>2, <2>3 DEF Follows
<1>6. CASE SignalWake(c)
  <2>1. /\ pc[c] = "signalWake" /\ pc' = [pc EXCEPT ![c] = back[c]] /\ cur' = cur
        /\ ret' = ret /\ UNCHANGED <<iflag, lk>>
        /\ thread' = [thread EXCEPT ![c] = NULL]
    BY <1>6 DEF SignalWake, At, Goto, condVars, schedVars, threadUnblock
  <2>2. To(back[c], ret[c])
    BY <1>2, <2>1
  <2>3. RestTyped
    BY <1>2, <2>1 DEF RestTyped, TypeInv
  <2> QED BY <2>2, <2>3 DEF Follows
<1> QED BY <1>4, <1>5, <1>6

(* What conditionWait and conditionSignal change when they are entered. *)
LEMMA EntryMoves ==
  ASSUME LockInv, NEW c \in Ctx, UNCHANGED <<buf, head, tail, ch>>, At(c, pc[c]),
         \/ pc[c] = Loop(c) /\ \E cond : conditionWait(c, cond, Loop(c))
         \/ /\ pc[c] \in {"getSignal", "putSignal"}
            /\ \E cond : conditionSignal(c, cond, "release")
  PROVE  Follows(c)
<1> DEFINE To(l1, r1, b1) == /\ Moves(c, l1, r1, b1)
                             /\ c[2] = "irq" => (Pending(l1, r1) <=> Pending(pc[c], ret[c]))
                             /\ l1 \notin {"getAdvance", "putAdvance"}
<1>1. /\ cur \in Thread /\ lk[c] = ioqLock /\ ioqLock \in Lock /\ ThreadOf(c) = cur
      /\ Control(Loop(c), pc[c], ret[c], back[c]) /\ Calls(c, pc[c])
      /\ pc \in [Ctx -> Label] /\ ret \in [Ctx -> Label] /\ back \in [Ctx -> Label]
      /\ Loop(c) \in {"getLoop", "putLoop"} /\ TypeInv
      /\ c[2] = "irq" => Loop(c) = "putLoop"
  BY ActsFacts DEF LockInv, Loop, At
<1>2. UNCHANGED <<holder, waitersLock>> /\ ret = [ret EXCEPT ![c] = ret[c]]
      /\ pc = [pc EXCEPT ![c] = pc[c]]
  BY <1>1 DEF conditionWait, conditionSignal, lockVars
<1>3. ASSUME NEW l1 \in Label, NEW r1 \in Label, NEW b1 \in Label, Calls(c, l1),
             pc' = [pc EXCEPT ![c] = l1], ret' = [ret EXCEPT ![c] = r1],
             back' = [back EXCEPT ![c] = b1], Control(Loop(c), l1, r1, b1)
      PROVE  GoesTo(c, l1, r1, b1)
  BY <1>3 DEF GoesTo
<1> USE <1>1, <1>3 DEF Moves, Label, LockLabel, GetLabel, PutLabel, Control, Calls,
       AcquireLabel, ReleaseLabel, LockStep, SpinStep, Inside, Spinning, Pending
<1>4. CASE pc[c] = Loop(c) /\ \E cond : conditionWait(c, cond, Loop(c))
  <2>1. /\ pc' = [pc EXCEPT ![c] = "lockRelease"]
        /\ ret' = [ret EXCEPT ![c] = "waitSchedule"]
        /\ back' = [back EXCEPT ![c] = Loop(c)]
        /\ cur' = cur /\ thread' = thread /\ lk' = [lk EXCEPT ![c] = ioqLock]
        /\ iflag' = [iflag EXCEPT ![cur] = FALSE]
        /\ oldStatus' = [oldStatus EXCEPT ![c] = iflag[cur]]
    BY <1>4 DEF conditionWait, Goto, Call
  <2>2. To("lockRelease", "waitSchedule", Loop(c))
    BY <1>2, <1>4, <2>1
  <2>3. RestTyped
    BY <2>1 DEF RestTyped, TypeInv
  <2> QED BY <2>2, <2>3 DEF Follows
<1>5. CASE /\ pc[c] \in {"getSignal", "putSignal"}
           /\ \E cond : conditionSignal(c, cond, "release")
  <2>1. /\ UNCHANGED <<ret, cur, iflag, lk, oldStatus>>
        /\ back' = [back EXCEPT ![c] = "release"]
        /\ \E l1 \in {pc[c], "release", "signalWake"} : pc' = [pc EXCEPT ![c] = l1]
        /\ thread' = thread \/ \E t \in Thread : thread' = [thread EXCEPT ![c] = t]
    BY <1>2, <1>5 DEF conditionSignal, Goto
  <2>2. PICK l1 \in {pc[c], "release", "signalWake"} : pc' = [pc EXCEPT ![c] = l1]
    BY <2>1
  <2>3. To(l1, ret[c], "release")
    BY <1>2, <1>5, <2>1, <2>2
  <2>4. thread' \in [Ctx -> Thread \cup {NULL}]
    BY <2>1 DEF TypeInv
  <2>5. RestTyped
    BY <2>1, <2>4 DEF RestTyped, TypeInv
  <2> QED BY <2>1, <2>3, <2>5 DEF Follows
<1> QED BY <1>4, <1>5

(* The two ends of a call. *)
LEMMA EndMoves ==
  ASSUME LockInv, NEW c \in Ctx, UNCHANGED <<buf, head, tail, ch>>, Release(c) \/ Return(c)
  PROVE  Follows(c)
<1> DEFINE To(l1, r1, b1) == /\ Moves(c, l1, r1, b1)
                             /\ c[2] = "irq" => (Pending(l1, r1) <=> Pending(pc[c], ret[c]))
                             /\ l1 \notin {"getAdvance", "putAdvance"}
<1>1. /\ cur \in Thread /\ lk[c] = ioqLock /\ ioqLock \in Lock
      /\ Control(Loop(c), pc[c], ret[c], back[c]) /\ Calls(c, pc[c])
      /\ pc \in [Ctx -> Label] /\ ret \in [Ctx -> Label] /\ back \in [Ctx -> Label]
      /\ Loop(c) \in {"getLoop", "putLoop"} /\ TypeInv
      /\ c[2] = "irq" => Loop(c) = "putLoop"
  BY ActsFacts DEF LockInv, Loop
<1>2. UNCHANGED <<holder, waitersLock>> /\ back = [back EXCEPT ![c] = back[c]]
  BY <1>1 DEF Release, Return, lockVars
<1>3. ASSUME NEW l1 \in Label, NEW r1 \in Label, NEW b1 \in Label, Calls(c, l1),
             pc' = [pc EXCEPT ![c] = l1], ret' = [ret EXCEPT ![c] = r1],
             back' = [back EXCEPT ![c] = b1], Control(Loop(c), l1, r1, b1)
      PROVE  GoesTo(c, l1, r1, b1)
  BY <1>3 DEF GoesTo
<1> USE <1>1, <1>3 DEF Moves, Label, LockLabel, GetLabel, PutLabel, Control, Calls,
       AcquireLabel, ReleaseLabel, LockStep, SpinStep, Inside, Spinning, Pending
<1>4. CASE Release(c)
  <2>1. /\ pc[c] = "release" /\ pc' = [pc EXCEPT ![c] = "lockRelease"]
        /\ ret' = [ret EXCEPT ![c] = "return"] /\ lk' = [lk EXCEPT ![c] = ioqLock]
        /\ UNCHANGED <<back, cur, iflag, thread, oldStatus>>
    BY <1>4 DEF Release, At, Goto, Call, schedVars, condVars
  <2>2. To("lockRelease", "return", back[c])
    BY <1>2, <2>1
  <2>3. RestTyped
    BY <2>1 DEF RestTyped, TypeInv
  <2> QED BY <2>2, <2>3 DEF Follows
<1>5. CASE Return(c)
  <2>1. /\ pc[c] = "return" /\ pc' = [pc EXCEPT ![c] = "idle"]
        /\ ret' = [ret EXCEPT ![c] = "idle"] /\ back' = [back EXCEPT ![c] = "idle"]
        /\ iflag' = [iflag EXCEPT ![cur] = TRUE]
        /\ oldStatus' = [oldStatus EXCEPT ![c] = TRUE]
        /\ UNCHANGED <<lk, cur, thread>>
    BY <1>5 DEF Return, At, Goto, schedVars
  <2>2. To("idle", "idle", "idle")
    BY <1>2, <2>1
  <2>3. RestTyped
    BY <2>1 DEF RestTyped, TypeInv
  <2> QED BY <2>2, <2>3 DEF Follows
<1> QED BY <1>4, <1>5

(* A thread calls ioqueueGetchar. *)
LEMMA GetcharMoves ==
  ASSUME LockInv, NEW t \in Consumer, Getchar(t) PROVE Follows(Task(t))
<1>1. PICK c \in Ctx : c = Task(t) /\ ThreadOf(c) = t /\ c[2] = "task" /\ t \in Thread
  BY CtxFacts, IoQueueAssumption
<1>2. /\ pc[c] = "idle" /\ pc' = [pc EXCEPT ![c] = "lockAcquire"]
      /\ ret' = [ret EXCEPT ![c] = "getLoop"] /\ lk' = [lk EXCEPT ![c] = ioqLock]
      /\ iflag' = [iflag EXCEPT ![t] = t \notin Process]
      /\ UNCHANGED <<holder, waitersLock, back, cur, thread, oldStatus, buf, head, tail, ch>>
  BY <1>1 DEF Getchar, At, Goto, Call, schedVars, lockVars, condVars, ioqVars, ringVars
<1>3. /\ TypeInv /\ ioqLock \in Lock /\ Control(Loop(c), pc[c], ret[c], back[c])
      /\ Loop(c) = "getLoop" /\ Calls(c, pc[c]) /\ c[1] \in Consumer
      /\ back \in [Ctx -> Label]
  BY <1>1, ActsFacts DEF LockInv, Loop, ThreadOf, TypeInv
<1>4. back' = [back EXCEPT ![c] = back[c]] /\ back[c] \in Label
  BY <1>2, <1>3
<1>5. Control(Loop(c), "lockAcquire", "getLoop", back[c])
  BY <1>3 DEF Control, AcquireLabel, ReleaseLabel, GetLabel, PutLabel
<1>6. Moves(c, "lockAcquire", "getLoop", back[c])
  BY <1>2, <1>3, <1>4, <1>5 DEF Moves, GoesTo, LockStep, SpinStep, Calls, Label, LockLabel,
     GetLabel, Inside, Spinning
<1>7. RestTyped
  BY <1>2, <1>3 DEF RestTyped, TypeInv
<1> QED BY <1>1, <1>2, <1>6, <1>7 DEF Follows

(* The step of c between the labels leaves the lock's data to itself. *)
Walks(c, l1) == /\ pc' = [pc EXCEPT ![c] = l1]
                /\ UNCHANGED <<ret, back, holder, waitersLock, cur, iflag, lk, thread,
                               oldStatus>>

(* The positions of the ring go round. *)
LEMMA Positions ==
  ASSUME NEW p \in 0 .. BUFSIZE - 1 PROVE nextPos(p) \in 0 .. BUFSIZE - 1
<1>1. PICK b \in Nat : b = BUFSIZE /\ b > 1
  BY IoQueueAssumption
<1>2. p \in Int /\ 0 <= p /\ p + 1 <= b
  BY <1>1
<1>3. (p + 1) % b \in 0 .. b - 1
  BY <1>1, <1>2
<1> QED BY <1>1, <1>3 DEF nextPos

(* ioqueueGetchar and ioqueuePutchar read, write and move on. *)
LEMMA RingMoves ==
  ASSUME LockInv, NEW c \in Ctx,
         \/ GetLoop(c) /\ ~ Empty
         \/ GetAdvance(c)
         \/ PutLoop(c) /\ ~ Full
         \/ PutAdvance(c)
  PROVE  LockInv'
<1>1. /\ Control(Loop(c), pc[c], ret[c], back[c]) /\ Calls(c, pc[c]) /\ TypeInv /\ RingOK
      /\ pc \in [Ctx -> Label] /\ ret \in [Ctx -> Label] /\ back \in [Ctx -> Label]
      /\ c[2] = "irq" <=> Loop(c) = "putLoop"
      /\ Loop(c) \in {"getLoop", "putLoop"}
  BY ActsFacts DEF LockInv, Loop
<1>2. ASSUME NEW d \in Ctx, d # c, pc[c] \in Inside
      PROVE  pc[d] \notin {"getAdvance", "putAdvance"}
  BY <1>2 DEF LockInv, HolderOK, Inside
<1>3. /\ nextPos(head) \in 0 .. BUFSIZE - 1 /\ nextPos(tail) \in 0 .. BUFSIZE - 1
      /\ NULL \notin Char
  BY <1>1, Positions, IoQueueAssumption DEF TypeInv
<1>4. ASSUME NEW l1 \in {"getAdvance", "getSignal", "putAdvance", "putSignal"}, Walks(c, l1),
             pc[c] \in Inside \ Spinning, Control(Loop(c), l1, ret[c], back[c]), Calls(c, l1)
      PROVE  /\ ControlOK' /\ HolderOK' /\ SpinOK'
             /\ \A d \in Ctx : pc'[d] = IF d = c THEN l1 ELSE pc[d]
             /\ /\ buf' \in [0 .. BUFSIZE - 1 -> Char \cup {NULL}]
                /\ ch' \in [Ctx -> Char \cup {NULL}]
                /\ head' \in 0 .. BUFSIZE - 1 /\ tail' \in 0 .. BUFSIZE - 1
                => TypeInv'
  <2>1. ret' = [ret EXCEPT ![c] = ret[c]] /\ back' = [back EXCEPT ![c] = back[c]]
        /\ ret[c] \in Label /\ back[c] \in Label
    BY <1>1, <1>4 DEF Walks
  <2>2. Moves(c, l1, ret[c], back[c])
    BY <1>4, <2>1 DEF Moves, GoesTo, Walks, LockStep, SpinStep, Label, GetLabel, PutLabel,
       Inside, Spinning
  <2>3. /\ ControlOK' /\ HolderOK' /\ SpinOK'
        /\ pc' \in [Ctx -> Label] /\ ret' \in [Ctx -> Label] /\ back' \in [Ctx -> Label]
        /\ \A d \in Ctx : pc'[d] = IF d = c THEN l1 ELSE pc[d]
    BY <2>2, ControlStep
  <2> QED BY <1>1, <1>4, <2>3 DEF TypeInv, Walks
<1>5. CASE GetLoop(c) /\ ~ Empty
  <2>1. /\ pc[c] = "getLoop" /\ Walks(c, "getAdvance") /\ ~ Empty
        /\ ch' = [ch EXCEPT ![c] = buf[head]] /\ UNCHANGED <<buf, head, tail>>
    BY <1>5 DEF GetLoop, At, Goto, Walks, ringVars, schedVars, lockVars, condVars
  <2>2. Control(Loop(c), "getAdvance", ret[c], back[c]) /\ Calls(c, "getAdvance")
    BY <1>1, <2>1 DEF Control, Calls, AcquireLabel, ReleaseLabel, GetLabel, PutLabel
  <2>3. pc[c] \in Inside \ Spinning
    BY <2>1 DEF Inside, Spinning
  <2>4. buf[head] \in Char \cup {NULL} /\ ch' \in [Ctx -> Char \cup {NULL}]
    BY <1>1, <2>1 DEF TypeInv
  <2>5. ControlOK' /\ HolderOK' /\ SpinOK' /\ TypeInv'
        /\ \A d \in Ctx : pc'[d] = IF d = c THEN "getAdvance" ELSE pc[d]
    BY <1>1, <1>4, <2>1, <2>2, <2>3, <2>4 DEF TypeInv
  <2>6. UNCHANGED <<buf, head, tail, ret>> /\ (Empty' <=> Empty)
    BY <2>1 DEF Walks, Empty
  <2>7. c[2] # "irq" /\ ch'[c] = buf[head] /\ \A d \in Ctx : d # c => ch'[d] = ch[d]
    BY <1>1, <2>1 DEF Control, GetLabel, TypeInv
  <2>8. RingOK'
    BY <1>1, <1>2, <2>1, <2>3, <2>5, <2>6, <2>7 DEF RingOK
  <2> QED BY <2>5, <2>8 DEF LockInv
<1>6. CASE GetAdvance(c)
  <2>1. /\ pc[c] = "getAdvance" /\ Walks(c, "getSignal") /\ head' = nextPos(head)
        /\ ch' = [ch EXCEPT ![c] = NULL] /\ UNCHANGED <<buf, tail>>
    BY <1>6 DEF GetAdvance, At, Goto, Walks, ringVars, schedVars, lockVars, condVars
  <2>2. Control(Loop(c), "getSignal", ret[c], back[c]) /\ Calls(c, "getSignal")
    BY <1>1, <2>1 DEF Control, Calls, AcquireLabel, ReleaseLabel, GetLabel, PutLabel
  <2>3. pc[c] \in Inside \ Spinning
    BY <2>1 DEF Inside, Spinning
  <2>4. ch' \in [Ctx -> Char \cup {NULL}]
    BY <1>1, <2>1 DEF TypeInv
  <2>5. ControlOK' /\ HolderOK' /\ SpinOK' /\ TypeInv'
        /\ \A d \in Ctx : pc'[d] = IF d = c THEN "getSignal" ELSE pc[d]
    BY <1>1, <1>3, <1>4, <2>1, <2>2, <2>3, <2>4 DEF TypeInv
  <2>6. ret' = ret
    BY <2>1 DEF Walks
  <2>7. c[2] # "irq" /\ \A d \in Ctx : d # c => ch'[d] = ch[d]
    BY <1>1, <2>1 DEF Control, GetLabel, TypeInv
  <2>8. RingOK'
    BY <1>1, <1>2, <2>3, <2>5, <2>6, <2>7 DEF RingOK
  <2> QED BY <2>5, <2>8 DEF LockInv
<1>7. CASE PutLoop(c) /\ ~ Full
  <2>1. /\ pc[c] = "putLoop" /\ Walks(c, "putAdvance") /\ ~ Full
        /\ buf' = [buf EXCEPT ![tail] = ch[c]] /\ UNCHANGED <<ch, head, tail>>
    BY <1>7 DEF PutLoop, At, Goto, Walks, schedVars, lockVars, condVars
  <2>2. Control(Loop(c), "putAdvance", ret[c], back[c]) /\ Calls(c, "putAdvance")
    BY <1>1, <2>1 DEF Control, Calls, AcquireLabel, ReleaseLabel, GetLabel, PutLabel
  <2>3. pc[c] \in Inside \ Spinning
    BY <2>1 DEF Inside, Spinning
  <2>4. buf' \in [0 .. BUFSIZE - 1 -> Char \cup {NULL}] /\ buf'[tail] = ch[c]
    BY <1>1, <2>1 DEF TypeInv
  <2>5. ControlOK' /\ HolderOK' /\ SpinOK' /\ TypeInv'
        /\ \A d \in Ctx : pc'[d] = IF d = c THEN "putAdvance" ELSE pc[d]
    BY <1>1, <1>4, <2>1, <2>2, <2>3, <2>4 DEF TypeInv
  <2>6. UNCHANGED <<ch, head, tail, ret>> /\ (Full' <=> Full)
    BY <2>1 DEF Walks, Full, nextPos
  <2>7. Pending("putLoop", ret[c]) /\ Pending("putAdvance", ret[c])
    BY DEF Pending
  <2>8. RingOK'
    BY <1>1, <1>2, <2>1, <2>3, <2>4, <2>5, <2>6, <2>7 DEF RingOK
  <2> QED BY <2>5, <2>8 DEF LockInv
<1>8. CASE PutAdvance(c)
  <2>1. /\ pc[c] = "putAdvance" /\ Walks(c, "putSignal") /\ tail' = nextPos(tail)
        /\ ch' = [ch EXCEPT ![c] = NULL] /\ UNCHANGED <<buf, head>>
    BY <1>8 DEF PutAdvance, At, Goto, Walks, schedVars, lockVars, condVars
  <2>2. Control(Loop(c), "putSignal", ret[c], back[c]) /\ Calls(c, "putSignal")
    BY <1>1, <2>1 DEF Control, Calls, AcquireLabel, ReleaseLabel, GetLabel, PutLabel
  <2>3. pc[c] \in Inside \ Spinning
    BY <2>1 DEF Inside, Spinning
  <2>4. /\ ch' \in [Ctx -> Char \cup {NULL}] /\ ch'[c] = NULL
        /\ \A d \in Ctx : d # c => ch'[d] = ch[d]
    BY <1>1, <2>1 DEF TypeInv
  <2>5. ControlOK' /\ HolderOK' /\ SpinOK' /\ TypeInv'
        /\ \A d \in Ctx : pc'[d] = IF d = c THEN "putSignal" ELSE pc[d]
    BY <1>1, <1>3, <1>4, <2>1, <2>2, <2>3, <2>4 DEF TypeInv
  <2>6. ret' = ret
    BY <2>1 DEF Walks
  <2>7. ~ Pending("putSignal", ret[c])
    BY <1>1, <2>1 DEF Pending, Control, AcquireLabel, PutLabel, GetLabel
  <2>8. RingOK'
    BY <1>1, <1>2, <1>3, <2>3, <2>4, <2>5, <2>6, <2>7 DEF RingOK
  <2> QED BY <2>5, <2>8 DEF LockInv
<1> QED BY <1>5, <1>6, <1>7, <1>8

(* A key with a character interrupts the running thread. *)
LEMMA KeyPressMoves ==
  ASSUME LockInv, KeyPress PROVE LockInv'
<1>1. PICK t \in Thread : t = cur
  BY DEF LockInv, TypeInv
<1>2. PICK c \in Ctx : c = Irq(t) /\ ThreadOf(c) = t /\ c[2] = "irq"
  BY <1>1, CtxFacts
<1>3. PICK k \in Char : ch' = [ch EXCEPT ![c] = k]
  BY <1>1, <1>2 DEF KeyPress
<1>4. /\ pc[c] = "idle" /\ pc' = [pc EXCEPT ![c] = "lockAcquire"]
      /\ ret' = [ret EXCEPT ![c] = "putLoop"] /\ lk' = [lk EXCEPT ![c] = ioqLock]
      /\ iflag' = [iflag EXCEPT ![t] = FALSE]
      /\ UNCHANGED <<holder, waitersLock, back, cur, thread, oldStatus, buf, head, tail>>
  BY <1>1, <1>2 DEF KeyPress, At, Goto, Call, schedVars, lockVars, condVars, ringVars
<1>5. /\ TypeInv /\ RingOK /\ ioqLock \in Lock /\ Control(Loop(c), pc[c], ret[c], back[c])
      /\ Loop(c) = "putLoop" /\ back \in [Ctx -> Label]
  BY <1>2, ActsFacts DEF LockInv, Loop, TypeInv
<1>6. back' = [back EXCEPT ![c] = back[c]] /\ back[c] \in Label
  BY <1>4, <1>5
<1>7. Control(Loop(c), "lockAcquire", "putLoop", back[c]) /\ Calls(c, "lockAcquire")
  BY <1>2, <1>5 DEF Control, Calls, AcquireLabel, ReleaseLabel, GetLabel, PutLabel
<1>8. Moves(c, "lockAcquire", "putLoop", back[c])
  BY <1>4, <1>5, <1>6, <1>7 DEF Moves, GoesTo, LockStep, SpinStep, Label, LockLabel,
     PutLabel, Inside, Spinning
<1>9. /\ ControlOK' /\ HolderOK' /\ SpinOK'
      /\ pc' \in [Ctx -> Label] /\ ret' \in [Ctx -> Label] /\ back' \in [Ctx -> Label]
      /\ holder' \in [Lock -> Thread \cup {NULL}] /\ waitersLock' \in [Lock -> BOOLEAN]
      /\ \A d \in Ctx : /\ pc'[d] = IF d = c THEN "lockAcquire" ELSE pc[d]
                        /\ ret'[d] = IF d = c THEN "putLoop" ELSE ret[d]
  BY <1>8, ControlStep
<1>10. TypeInv'
  BY <1>3, <1>4, <1>5, <1>9 DEF TypeInv
<1>11. RingOK'
  <2>1. UNCHANGED <<buf, head, tail>> /\ (Empty' <=> Empty) /\ (Full' <=> Full)
    BY <1>4 DEF Empty, Full, nextPos
  <2>2. Pending("lockAcquire", "putLoop")
    BY DEF Pending, AcquireLabel
  <2>3. \A d \in Ctx : ch'[d] = IF d = c THEN k ELSE ch[d]
    BY <1>3, <1>5 DEF TypeInv
  <2> QED BY <1>5, <1>9, <2>1, <2>2, <2>3 DEF RingOK
<1> QED BY <1>9, <1>10, <1>11 DEF LockInv

(* A timer interrupt and the start of a thread touch nothing of it. *)
LEMMA SameInv ==
  ASSUME LockInv, cur' \in Thread,
         UNCHANGED <<iflag, lockVars, callVars, condVars, ioqVars>>
  PROVE  LockInv'
<1>1. UNCHANGED <<iflag, holder, waitersLock, pc, ret, back, lk, thread, oldStatus, buf, head,
                  tail, ch>>
  BY DEF lockVars, callVars, condVars, ioqVars, ringVars
<1>2. TypeInv' /\ ControlOK' /\ HolderOK' /\ SpinOK'
  BY <1>1 DEF LockInv, TypeInv, ControlOK, HolderOK, SpinOK
<1>3. (Empty' <=> Empty) /\ (Full' <=> Full)
  BY <1>1 DEF Empty, Full, nextPos
<1>4. RingOK'
  BY <1>1, <1>3 DEF LockInv, RingOK
<1> QED BY <1>2, <1>4 DEF LockInv

(* Booting starts threads and does not touch the ring or the lock. *)
LEMMA BootMoves ==
  ASSUME LockInv, BootStep PROVE LockInv'
<1>1. PICK c \in Ctx : /\ c = Task(Main) /\ c[2] = "task"
                      /\ ThreadOf(c) = Main /\ Main \in Thread
  BY CtxFacts, ThreadAssumption
<1>2. c = <<Main, "task">>
  BY <1>1 DEF Task
<1>3. /\ pc[c] = "boot" /\ cur' = cur /\ cur = Main
      /\ UNCHANGED <<lockVars, ret, lk, thread, condVars, ioqVars>>
      /\ \/ pc' = pc /\ iflag' = iflag
         \/ pc' = [pc EXCEPT ![c] = "idle"] /\ iflag' = [iflag EXCEPT ![Main] = TRUE]
  BY <1>2 DEF BootStep, Boot, At, Goto, threadStart, schedVars, ThreadOf
<1>4. CASE pc' = pc /\ iflag' = iflag
  BY <1>1, <1>3, <1>4, SameInv DEF callVars
<1>5. CASE pc' = [pc EXCEPT ![c] = "idle"] /\ iflag' = [iflag EXCEPT ![Main] = TRUE]
  <2>1. UNCHANGED <<holder, waitersLock, ret, back, lk, thread, oldStatus, buf, head, tail, ch>>
    BY <1>3 DEF lockVars, condVars, ioqVars, ringVars
  <2>2. /\ TypeInv /\ Control(Loop(c), pc[c], ret[c], back[c]) /\ Calls(c, pc[c])
        /\ ret \in [Ctx -> Label] /\ back \in [Ctx -> Label] /\ Loop(c) = "getLoop"
    BY <1>1, ActsFacts DEF LockInv, Loop, TypeInv
  <2>3. ret' = [ret EXCEPT ![c] = ret[c]] /\ back' = [back EXCEPT ![c] = back[c]]
        /\ ret[c] \in Label /\ back[c] \in Label
    BY <2>1, <2>2
  <2>4. Control(Loop(c), "idle", ret[c], back[c]) /\ Calls(c, "idle")
    BY <1>3, <2>2 DEF Control, Calls, AcquireLabel, ReleaseLabel, GetLabel, PutLabel
  <2>5. Moves(c, "idle", ret[c], back[c])
    BY <1>3, <1>5, <2>1, <2>3, <2>4 DEF Moves, GoesTo, LockStep, SpinStep, Label, LockLabel,
       Inside, Spinning
  <2>6. RestTyped
    BY <1>1, <1>3, <1>5, <2>1, <2>2 DEF RestTyped, TypeInv
  <2>7. Follows(c)
    BY <1>1, <2>1, <2>5, <2>6 DEF Follows
  <2> QED BY <2>7, FollowsInv
<1> QED BY <1>3, <1>4, <1>5

(* Every step of a call that has begun keeps the invariant. *)
LEMMA StepMoves ==
  ASSUME LockInv, NEW c \in Ctx, Step(c) PROVE LockInv'
<1>1. Control(Loop(c), pc[c], ret[c], back[c])
  BY ActsFacts
<1>2. CASE SyncStep(c) /\ UNCHANGED ioqVars
  BY <1>2, AcquireMoves, ReleaseMoves, ConditionMoves, FollowsInv DEF SyncStep, ioqVars,
     ringVars
<1>3. CASE GetLoop(c)
  <2>1. CASE Empty
    <3>1. /\ pc[c] = "getLoop" /\ At(c, pc[c]) /\ UNCHANGED <<buf, head, tail, ch>>
          /\ \E cond : conditionWait(c, cond, "getLoop")
      BY <1>3, <2>1 DEF GetLoop, At, ringVars
    <3>2. Loop(c) = "getLoop"
      BY <1>1, <3>1 DEF Control, GetLabel
    <3> QED BY <3>1, <3>2, EntryMoves, FollowsInv
  <2>2. CASE ~ Empty
    <3>1. GetLoop(c) /\ ~ Empty
      BY <1>3, <2>2
    <3> QED BY <3>1, RingMoves
  <2> QED BY <2>1, <2>2
<1>4. CASE PutLoop(c)
  <2>1. CASE Full
    <3>1. /\ pc[c] = "putLoop" /\ At(c, pc[c]) /\ UNCHANGED <<buf, head, tail, ch>>
          /\ \E cond : conditionWait(c, cond, "putLoop")
      BY <1>4, <2>1 DEF PutLoop, At
    <3>2. Loop(c) = "putLoop"
      BY <1>1, <3>1 DEF Control, PutLabel
    <3> QED BY <3>1, <3>2, EntryMoves, FollowsInv
  <2>2. CASE ~ Full
    <3>1. PutLoop(c) /\ ~ Full
      BY <1>4, <2>2
    <3> QED BY <3>1, RingMoves
  <2> QED BY <2>1, <2>2
<1>5. CASE GetSignal(c) \/ PutSignal(c)
  <2>1. /\ pc[c] \in {"getSignal", "putSignal"} /\ At(c, pc[c])
        /\ UNCHANGED <<buf, head, tail, ch>>
        /\ \E cond : conditionSignal(c, cond, "release")
    BY <1>5 DEF GetSignal, PutSignal, At, ioqVars, ringVars
  <2> QED BY <2>1, EntryMoves, FollowsInv
<1>6. CASE GetAdvance(c) \/ PutAdvance(c)
  BY <1>6, RingMoves
<1>7. CASE Release(c) \/ Return(c)
  <2>1. UNCHANGED <<buf, head, tail, ch>>
    BY <1>7 DEF Release, Return, ioqVars, ringVars
  <2> QED BY <1>7, <2>1, EndMoves, FollowsInv
<1> QED BY <1>2, <1>3, <1>4, <1>5, <1>6, <1>7 DEF Step

(* Every step of the kernel, a stutter included, keeps the invariant. *)
LEMMA LockNext == ASSUME LockInv, [Next]_vars PROVE LockInv'
<1>1. cur \in Thread
  BY DEF LockInv, TypeInv
<1>2. CASE Tick
  BY <1>1, <1>2, SameInv, ScheduleCpu DEF Tick, Timer, TimerPreempts
<1>3. CASE UNCHANGED vars
  BY <1>1, <1>3, SameInv DEF vars, schedVars
<1>4. CASE \E t \in Consumer : Getchar(t)
  <2>1. PICK t \in Consumer : Getchar(t)
    BY <1>4
  <2>2. Task(t) \in Ctx
    BY CtxFacts, IoQueueAssumption
  <2> QED BY <2>1, <2>2, GetcharMoves, FollowsInv
<1> QED BY <1>2, <1>3, <1>4, BootMoves, KeyPressMoves, StepMoves DEF Next

(* At boot nobody is in a call and the ring is empty. *)
LEMMA LockInit == Init => LockInv
<1> SUFFICES ASSUME Init PROVE LockInv
  OBVIOUS
<1>1. /\ \A c \in Ctx : pc[c] = IF c = <<Main, "task">> THEN "boot" ELSE "idle"
      /\ \A c \in Ctx : ret[c] = "idle" /\ back[c] = "idle" /\ ch[c] = NULL
      /\ holder = [l \in Lock |-> NULL] /\ NULL \notin Char
  BY IoQueueAssumption DEF Init, LocksInit, ConditionsInit
<1>2. TypeInv
  <2>1. BUFSIZE \in Nat /\ 0 \in 0 .. BUFSIZE - 1
    BY IoQueueAssumption
  <2> QED BY <2>1, ThreadAssumption DEF Init, ThreadsInit, LocksInit, ConditionsInit,
     TypeInv,
             Label, LockLabel
<1>3. ControlOK
  BY <1>1 DEF ControlOK, Control, Calls, Task, AcquireLabel, ReleaseLabel, GetLabel,
     PutLabel
<1>4. HolderOK /\ SpinOK
  BY <1>1, CtxFacts DEF HolderOK, SpinOK, Inside, Spinning
<1>5. RingOK
  BY <1>1 DEF RingOK, Pending, AcquireLabel
<1> QED BY <1>2, <1>3, <1>4, <1>5 DEF LockInv

(* The lock protects the ring in every execution. *)
LEMMA LockInvariant == Spec => []LockInv
<1> QED BY LockInit, LockNext, PTL DEF Spec

-----------------------------------------------------------------------------
Dist(h, t)    == (t - h + BUFSIZE) % BUFSIZE
Slot(h, i)    == (h + i - 1) % BUFSIZE
View(b, h, n) == [i \in 1 .. n |-> b[Slot(h, i)]]

(* The arithmetic of the ring. *)
LEMMA RingFacts ==
  ASSUME NEW h \in 0 .. BUFSIZE - 1, NEW t \in 0 .. BUFSIZE - 1
  PROVE  /\ Dist(h, t) \in Nat /\ Dist(h, t) < BUFSIZE
         /\ Dist(h, t) = 0 <=> t = h
         /\ nextPos(t) = h <=> Dist(h, t) = BUFSIZE - 1
         /\ nextPos(t) # h => Dist(h, nextPos(t)) = Dist(h, t) + 1
         /\ t # h => Dist(nextPos(h), t) = Dist(h, t) - 1
         /\ \A i \in 1 .. Dist(h, t) : Slot(h, i) \in 0 .. BUFSIZE - 1 /\ Slot(h, i) # t
         /\ Slot(h, Dist(h, t) + 1) = t /\ Slot(h, 1) = h
         /\ \A i \in 1 .. BUFSIZE - 1 : Slot(nextPos(h), i) = Slot(h, i + 1)
<1>1. PICK b \in Nat : b = BUFSIZE /\ b > 1
  BY IoQueueAssumption
<1>2. h \in Nat /\ t \in Nat /\ h < b /\ t < b
  BY <1>1
<1>3. ASSUME NEW x \in Nat, x < 2 * b
      PROVE  x % b = IF x < b THEN x ELSE x - b
  BY <1>1, <1>3
<1>4. /\ nextPos(h) = (IF h + 1 < b THEN h + 1 ELSE 0)
      /\ nextPos(t) = (IF t + 1 < b THEN t + 1 ELSE 0)
  <2>1. h + 1 \in Nat /\ t + 1 \in Nat /\ h + 1 < 2 * b /\ t + 1 < 2 * b
    BY <1>1, <1>2
  <2> QED BY <1>1, <1>2, <1>3, <2>1 DEF nextPos
<1>5. ASSUME NEW p \in Nat, NEW q \in Nat, p < b, q < b
      PROVE  Dist(p, q) = IF p <= q THEN q - p ELSE q - p + b
  <2>1. q - p + b \in Nat /\ q - p + b < 2 * b
    BY <1>1, <1>5
  <2>2. (q - p + b) % b = IF q - p + b < b THEN q - p + b ELSE q - p + b - b
    BY <1>3, <2>1
  <2> QED BY <1>1, <1>5, <2>2 DEF Dist
<1>6. ASSUME NEW p \in Nat, NEW i \in Nat, p < b, 1 <= i, i <= b
      PROVE  Slot(p, i) = IF p + i - 1 < b THEN p + i - 1 ELSE p + i - 1 - b
  <2>1. p + i - 1 \in Nat /\ p + i - 1 < 2 * b
    BY <1>1, <1>6
  <2> QED BY <1>1, <1>3, <2>1 DEF Slot
<1>7. PICK n \in Nat : n = Dist(h, t) /\ n < b /\ n = IF h <= t THEN t - h ELSE t - h + b
  BY <1>1, <1>2, <1>5
<1>8. PICK nh \in Nat : nh = nextPos(h) /\ nh < b /\ nh = IF h + 1 < b THEN h + 1 ELSE 0
  BY <1>1, <1>2, <1>4
<1>9. PICK nt \in Nat : nt = nextPos(t) /\ nt < b /\ nt = IF t + 1 < b THEN t + 1 ELSE 0
  BY <1>1, <1>2, <1>4
<1>10. nextPos(t) # h => Dist(h, nextPos(t)) = Dist(h, t) + 1
  <2>1. Dist(h, nt) = IF h <= nt THEN nt - h ELSE nt - h + b
    BY <1>2, <1>5, <1>9
  <2> QED BY <1>2, <1>7, <1>9, <2>1
<1>11. t # h => Dist(nextPos(h), t) = Dist(h, t) - 1
  <2>1. Dist(nh, t) = IF nh <= t THEN t - nh ELSE t - nh + b
    BY <1>2, <1>5, <1>8
  <2> QED BY <1>2, <1>7, <1>8, <2>1
<1>12. \A i \in 1 .. n : Slot(h, i) \in 0 .. b - 1 /\ Slot(h, i) # t
  <2> TAKE i \in 1 .. n
  <2>1. i \in Nat /\ 1 <= i /\ i <= b /\ i <= n
    BY <1>7
  <2>2. Slot(h, i) = IF h + i - 1 < b THEN h + i - 1 ELSE h + i - 1 - b
    BY <1>2, <1>6, <2>1
  <2> QED BY <1>2, <1>7, <2>1, <2>2
<1>13. Slot(h, n + 1) = t /\ Slot(h, 1) = h
  <2>1. /\ Slot(h, n + 1) = IF h + (n + 1) - 1 < b THEN h + (n + 1) - 1 ELSE h + (n + 1) - 1 - b
        /\ Slot(h, 1) = IF h + 1 - 1 < b THEN h + 1 - 1 ELSE h + 1 - 1 - b
    BY <1>1, <1>2, <1>6, <1>7
  <2> QED BY <1>2, <1>7, <2>1
<1>14. \A i \in 1 .. b - 1 : Slot(nh, i) = Slot(h, i + 1)
  <2> TAKE i \in 1 .. b - 1
  <2>1. i \in Nat /\ 1 <= i /\ i + 1 <= b /\ i + 1 \in Nat
    BY <1>1
  <2>2. /\ Slot(nh, i) = IF nh + i - 1 < b THEN nh + i - 1 ELSE nh + i - 1 - b
        /\ Slot(h, i + 1) = IF h + (i + 1) - 1 < b THEN h + (i + 1) - 1 ELSE h + (i + 1) - 1 - b
    BY <1>2, <1>6, <1>8, <2>1
  <2> QED BY <1>2, <1>8, <2>1, <2>2
<1> QED BY <1>1, <1>2, <1>7, <1>8, <1>9, <1>10, <1>11, <1>12, <1>13, <1>14

(* A function on 1 .. n is a sequence of length n. *)
LEMMA ListedSeq ==
  ASSUME NEW V, NEW n \in Nat, NEW f \in [1 .. n -> V]
  PROVE  /\ f \in Seq(V) /\ Len(f) = n
         /\ f = <<>> <=> n = 0
<1>1. f \in Seq(V)
  BY SeqDef
<1>2. Len(f) \in Nat /\ DOMAIN f = 1 .. Len(f)
  BY <1>1, LenProperties
<1>3. Len(f) = n
  BY <1>2
<1>4. n = 0 => f = <<>>
  BY <1>1, <1>3, EmptySeq
<1>5. f = <<>> => n = 0
  BY <1>3, EmptySeq
<1> QED BY <1>1, <1>3, <1>4, <1>5

(* Adding the slot at tail puts a character at the end of the view, and    *)
(* dropping the one at head takes the first away.                          *)
LEMMA ViewPut ==
  ASSUME NEW V, NEW b \in [0 .. BUFSIZE - 1 -> V], NEW h \in 0 .. BUFSIZE - 1,
         NEW t \in 0 .. BUFSIZE - 1, nextPos(t) # h
  PROVE  View(b, h, Dist(h, nextPos(t))) = Append(View(b, h, Dist(h, t)), b[t])
<1>1. PICK n \in Nat : n = Dist(h, t) /\ Dist(h, nextPos(t)) = n + 1
  BY RingFacts
<1>2. /\ \A i \in 1 .. n : Slot(h, i) \in 0 .. BUFSIZE - 1
      /\ Slot(h, n + 1) = t
  BY <1>1, RingFacts
<1>3. \A i \in 1 .. n + 1 : b[Slot(h, i)] \in V
  <2> TAKE i \in 1 .. n + 1
  <2>1. i \in 1 .. n \/ i = n + 1
    OBVIOUS
  <2> QED BY <1>2, <2>1
<1>4. View(b, h, n) \in [1 .. n -> V] /\ View(b, h, n + 1) \in [1 .. n + 1 -> V]
  BY <1>3 DEF View
<1>5. /\ View(b, h, n) \in Seq(V) /\ Len(View(b, h, n)) = n
      /\ View(b, h, n + 1) \in Seq(V) /\ Len(View(b, h, n + 1)) = n + 1
  BY <1>4, ListedSeq
<1>6. PICK s \in Seq(V) : /\ s = View(b, h, n) /\ Len(s) = n
                         /\ \A i \in 1 .. n : s[i] = b[Slot(h, i)]
  BY <1>5 DEF View
<1>7. /\ Append(s, b[t]) \in Seq(V) /\ Len(Append(s, b[t])) = n + 1
      /\ \A i \in 1 .. n : Append(s, b[t])[i] = s[i]
      /\ Append(s, b[t])[n + 1] = b[t]
  BY <1>6, AppendProperties
<1>8. ASSUME NEW i \in 1 .. n + 1 PROVE View(b, h, n + 1)[i] = Append(s, b[t])[i]
  <2>1. View(b, h, n + 1)[i] = b[Slot(h, i)] /\ (i \in 1 .. n \/ i = n + 1)
    BY DEF View
  <2> QED BY <1>2, <1>6, <1>7, <2>1
<1>9. View(b, h, n + 1) = Append(s, b[t])
  BY <1>5, <1>7, <1>8, SeqEqual
<1> QED BY <1>1, <1>6, <1>9

(* Reading the slot at h takes the first character off the view. *)
LEMMA ViewTake ==
  ASSUME NEW V, NEW b \in [0 .. BUFSIZE - 1 -> V], NEW h \in 0 .. BUFSIZE - 1,
         NEW t \in 0 .. BUFSIZE - 1, t # h
  PROVE  /\ View(b, h, Dist(h, t)) # <<>>
         /\ Head(View(b, h, Dist(h, t))) = b[h]
         /\ View(b, nextPos(h), Dist(nextPos(h), t)) = Tail(View(b, h, Dist(h, t)))
<1>1. PICK n \in Nat : n = Dist(h, t) /\ Dist(nextPos(h), t) = n - 1 /\ n # 0 /\ n < BUFSIZE
  BY RingFacts
<1>2. PICK m \in Nat : m = n - 1 /\ n = m + 1
  BY <1>1
<1>3. /\ \A i \in 1 .. n : Slot(h, i) \in 0 .. BUFSIZE - 1
      /\ Slot(h, 1) = h
      /\ \A i \in 1 .. m : Slot(nextPos(h), i) = Slot(h, i + 1)
  <2>1. \A i \in 1 .. m : i \in 1 .. BUFSIZE - 1
    BY <1>1, <1>2, IoQueueAssumption
  <2> QED BY <1>1, <2>1, RingFacts
<1>4. View(b, h, n) \in [1 .. n -> V] /\ View(b, nextPos(h), m) \in [1 .. m -> V]
  <2>1. \A i \in 1 .. m : i + 1 \in 1 .. n
    BY <1>2
  <2> QED BY <1>3, <2>1 DEF View
<1>5. PICK s \in Seq(V) : /\ s = View(b, h, n) /\ Len(s) = n /\ s # <<>>
                          /\ \A i \in 1 .. n : s[i] = b[Slot(h, i)]
  <2>1. View(b, h, n) \in Seq(V) /\ Len(View(b, h, n)) = n /\ View(b, h, n) # <<>>
    BY <1>1, <1>4, ListedSeq
  <2>2. \A i \in 1 .. n : View(b, h, n)[i] = b[Slot(h, i)]
    BY DEF View
  <2> QED BY <2>1, <2>2
<1>6. PICK u \in Seq(V) : /\ u = View(b, nextPos(h), m) /\ Len(u) = m
                          /\ \A i \in 1 .. m : u[i] = b[Slot(nextPos(h), i)]
  <2>1. View(b, nextPos(h), m) \in Seq(V) /\ Len(View(b, nextPos(h), m)) = m
    BY <1>4, ListedSeq
  <2>2. \A i \in 1 .. m : View(b, nextPos(h), m)[i] = b[Slot(nextPos(h), i)]
    BY DEF View
  <2> QED BY <2>1, <2>2
<1>7. /\ Tail(s) \in Seq(V) /\ Len(Tail(s)) = m
      /\ \A i \in 1 .. m : Tail(s)[i] = s[i + 1]
      /\ Head(s) = s[1]
  BY <1>2, <1>5, HeadTailProperties
<1>8. ASSUME NEW i \in 1 .. m PROVE u[i] = Tail(s)[i]
  <2>1. i + 1 \in 1 .. n
    BY <1>2
  <2> QED BY <1>3, <1>5, <1>6, <1>7, <2>1
<1>9. u = Tail(s)
  BY <1>6, <1>7, <1>8, SeqEqual
<1>10. Head(s) = b[h]
  BY <1>2, <1>3, <1>5, <1>7
<1> QED BY <1>1, <1>2, <1>5, <1>6, <1>9, <1>10

(* The queue of the refinement is the view from head to tail. *)
LEMMA ContentsView ==
  /\ Length = Dist(head, tail) /\ Contents = View(buf, head, Dist(head, tail))
  /\ (Full <=> nextPos(tail) = head) /\ (Empty <=> tail = head)
  BY DEF Length, Dist, Contents, View, Slot, Full, Empty

(* The ring is the queue of ioqueue.h: a step that neither puts a          *)
(* character in nor takes one out leaves its contents alone, the write of  *)
(* the slot at tail included.                                              *)
LEMMA StepFifo ==
  ASSUME LockInv, [Next]_vars
  PROVE  [Fifo!Put \/ Fifo!Get]_<<Contents, taken>>
<1>1. /\ buf \in [0 .. BUFSIZE - 1 -> Char \cup {NULL}] /\ head \in 0 .. BUFSIZE - 1
      /\ tail \in 0 .. BUFSIZE - 1
  BY DEF LockInv, TypeInv
<1>2. ASSUME UNCHANGED <<buf, head, tail, taken>> PROVE UNCHANGED <<Contents, taken>>
  BY <1>2 DEF Contents, Length
<1>3. ASSUME NEW c \in Ctx, GetAdvance(c) PROVE Fifo!Get
  <2>1. /\ pc[c] = "getAdvance" /\ head' = nextPos(head) /\ taken' = ch[c]
        /\ buf' = buf /\ tail' = tail
    BY <1>3 DEF GetAdvance, At
  <2>2. tail # head /\ ch[c] = buf[head]
    BY <2>1 DEF LockInv, RingOK, Empty
  <2>3. /\ Contents # <<>> /\ Head(Contents) = buf[head]
        /\ View(buf, nextPos(head), Dist(nextPos(head), tail)) = Tail(Contents)
    BY <1>1, <2>2, ContentsView, ViewTake
  <2>4. Contents' = View(buf', head', Dist(head', tail'))
    BY DEF Contents, View, Slot, Length, Dist
  <2> QED BY <2>1, <2>2, <2>3, <2>4 DEF Fifo!Get
<1>4. ASSUME NEW c \in Ctx, PutAdvance(c) PROVE Fifo!Put
  <2>1. /\ pc[c] = "putAdvance" /\ tail' = nextPos(tail) /\ taken' = taken
        /\ buf' = buf /\ head' = head
    BY <1>4 DEF PutAdvance, At
  <2>2. nextPos(tail) # head /\ ch[c] = buf[tail]
    BY <2>1 DEF LockInv, RingOK, Full
  <2>3. c[2] = "irq"
    BY <2>1, ActsFacts DEF Control, PutLabel, Loop
  <2>4. ch[c] \in Char
    BY <2>1, <2>3 DEF LockInv, RingOK, Pending
  <2>5. View(buf, head, Dist(head, nextPos(tail))) = Append(Contents, buf[tail])
    BY <1>1, <2>2, ContentsView, ViewPut
  <2>6. Contents' = View(buf', head', Dist(head', tail'))
    BY DEF Contents, View, Slot, Length, Dist
  <2>7. Len(Contents) < BUFSIZE - 1
    <3>1. PICK n \in Nat : n = Dist(head, tail) /\ n < BUFSIZE /\ n # BUFSIZE - 1
      BY <1>1, <2>2, RingFacts
    <3>2. \A i \in 1 .. n : Slot(head, i) \in 0 .. BUFSIZE - 1
      BY <1>1, <3>1, RingFacts
    <3>3. View(buf, head, n) \in [1 .. n -> Char \cup {NULL}]
      BY <1>1, <3>2 DEF View
    <3>4. Len(View(buf, head, n)) = n
      BY <3>3, ListedSeq
    <3> QED BY <3>1, <3>4, ContentsView, IoQueueAssumption
  <2> QED BY <2>1, <2>2, <2>4, <2>5, <2>6, <2>7 DEF Fifo!Put
<1>5. ASSUME NEW c \in Ctx, PutLoop(c) PROVE UNCHANGED <<Contents, taken>>
  <2>1. /\ head' = head /\ tail' = tail /\ taken' = taken
        /\ buf' = buf \/ buf' = [buf EXCEPT ![tail] = ch[c]]
    BY <1>5 DEF PutLoop
  <2>2. PICK n \in Nat : n = Dist(head, tail)
    BY <1>1, RingFacts
  <2>3. \A i \in 1 .. n : Slot(head, i) \in 0 .. BUFSIZE - 1 /\ Slot(head, i) # tail
    BY <1>1, <2>2, RingFacts
  <2>4. \A i \in 1 .. n : buf'[Slot(head, i)] = buf[Slot(head, i)]
    BY <1>1, <2>1, <2>3
  <2>5. View(buf', head, n) = View(buf, head, n)
    BY <2>4 DEF View
  <2>6. Contents' = View(buf', head', Dist(head', tail'))
    BY DEF Contents, View, Slot, Length, Dist
  <2> QED BY <2>1, <2>2, <2>5, <2>6, ContentsView
<1>6. ASSUME NEW c \in Ctx, Step(c)
      PROVE  \/ GetAdvance(c) \/ PutAdvance(c) \/ PutLoop(c)
             \/ UNCHANGED <<buf, head, tail, taken>>
  BY <1>6 DEF Step, GetLoop, GetSignal, PutSignal, Release, Return, ioqVars, ringVars
<1>7. CASE \E c \in Ctx : Step(c)
  BY <1>2, <1>3, <1>4, <1>5, <1>6, <1>7
<1>8. CASE BootStep \/ Tick \/ KeyPress \/ \E t \in Consumer : Getchar(t)
  <2>1. UNCHANGED <<buf, head, tail, taken>>
    BY <1>8 DEF BootStep, Tick, KeyPress, Getchar, ioqVars, ringVars
  <2> QED BY <1>2, <2>1
<1>9. CASE UNCHANGED vars
  BY <1>2, <1>9 DEF vars, ioqVars, ringVars
<1> QED BY <1>7, <1>8, <1>9 DEF Next

(* The ring starts empty, as the queue does. *)
LEMMA InitFifo == Init => Fifo!Init
<1> SUFFICES ASSUME Init PROVE Fifo!Init
  OBVIOUS
<1>1. /\ buf \in [0 .. BUFSIZE - 1 -> {NULL}] /\ head = 0 /\ tail = 0 /\ taken = NULL
      /\ 0 \in 0 .. BUFSIZE - 1
  BY IoQueueAssumption DEF Init
<1>2. Dist(head, tail) = 0
  BY <1>1, RingFacts
<1>3. View(buf, head, 0) \in [1 .. 0 -> {NULL}]
  BY DEF View
<1>4. View(buf, head, 0) = <<>>
  BY <1>3, ListedSeq
<1> QED BY <1>1, <1>2, <1>4, ContentsView DEF Fifo!Init

(***************************************************************************)
(* The ring of ioqueue.c, filled by interrupt handlers and emptied by      *)
(* threads that preempt each other, sleep and are woken, is the first-in   *)
(* first-out queue of ioqueue.h with room for BUFSIZE - 1 characters.      *)
(***************************************************************************)
THEOREM RingIsFifo == Spec => ImplementsFifo
<1>1. LockInv /\ [Next]_vars => [Fifo!Put \/ Fifo!Get]_<<Contents, taken>>
  BY StepFifo
<1> QED BY <1>1, InitFifo, LockInvariant, PTL DEF Spec, ImplementsFifo, Fifo!Spec

-----------------------------------------------------------------------------
Never == {"acquireSpin", "acquireAppend", "acquireRecheck", "acquireRemove",
          "acquireUnspin", "acquireBlock", "releaseWake"}
Want    == {"lockAcquire", "waitReturn", "getLoop", "getAdvance", "putLoop", "putAdvance"}
Signals == {"getSignal", "putSignal"}

(* A context that has given up the lock in conditionWait and not yet got   *)
(* it back; one that has given up the CPU as well; one with nothing to do  *)
(* but to be woken.                                                        *)
Waits(l, r) == \/ r = "waitSchedule"
               \/ l \in AcquireLabel \cup {"waitReturn"} /\ r = "waitReturn"
Sleeps(l, r) == l = "lockAcquire" /\ r = "waitReturn"
Off(c) == pc[c] = "idle" \/ Sleeps(pc[c], ret[c])

Busy(t) == pc[Task(t)] # "idle" \/ pc[Irq(t)] # "idle"

(* The flag of a thread is off while one of its contexts is in a call, of  *)
(* which there is one at most; what does not run there sleeps.             *)
FlagInv ==
  /\ \A t \in Thread : iflag[t] <=> ~ Busy(t)
  /\ \A c, d \in Ctx :
       ThreadOf(c) = ThreadOf(d) /\ pc[c] # "idle" /\ pc[d] # "idle" => c = d
  /\ \A c \in Ctx :
       /\ ThreadOf(c) # cur => Off(c)
       /\ pc[c] \notin Never
       /\ Waits(pc[c], ret[c]) => ~ oldStatus[c]
       /\ pc[c] # "signalWake" => thread[c] = NULL

(* What the handlers wait for, and what the threads do. *)
CondOf(v) == IF v = "irq" THEN condNotFull ELSE condNotEmpty

(* The thread of c is on the list of the condition that c can wait for. *)
Queued(Q, c) == ThreadOf(c) \in Members(Q[CondOf(c[2])])

(* A context that is queued has gone to sleep; one that sleeps is queued   *)
(* or has been taken off by the context that is about to wake it.          *)
Place(Q, c) ==
  /\ Queued(Q, c) => /\ ret[c] = "waitSchedule" \/ Sleeps(pc[c], ret[c])
                     /\ status[ThreadOf(c)] = "blocked"
  /\ ret[c] = "waitSchedule" => Queued(Q, c)
  /\ Sleeps(pc[c], ret[c]) /\ status[ThreadOf(c)] = "blocked" =>
       Queued(Q, c) \/ \E d \in Ctx : thread[d] = ThreadOf(c)
  /\ pc[c] = "signalWake" => /\ thread[c] \in Thread /\ OnNone(Q, thread[c])
                             /\ status[thread[c]] = "blocked"

Placed(Q) ==
  /\ Agree(Q)
  /\ \A L \in WaitList \ Condition : Q[L] = <<>>
  /\ \A c \in Ctx : Place(Q, c)
  /\ \A t \in Thread : status[t] = "blocked" => Busy(t)
  /\ status[cur] = "blocked" => \E c \in Ctx : ThreadOf(c) = cur /\ ret[c] = "waitSchedule"
  /\ status[cur] \in {"running", "blocked"}
  /\ pc[Task(Main)] # "boot" => \A t \in Thread : status[t] # "unborn"

(* Who is going to take what there is for the contexts at level v, or to   *)
(* wake one of them, and how much there is.                                *)
Ahead(Q, v) == {c \in Ctx : IF c[2] = v THEN pc[c] \in Want /\ ~ Queued(Q, c)
                                        ELSE pc[c] \in Signals}
Work(v) == IF v = "irq" THEN BUFSIZE - 1 - Length ELSE Length

(* While a list has a sleeper, there are enough on their way for all that  *)
(* there is to take.                                                       *)
Served(Q) ==
  \A v \in Level : Q[CondOf(v)] # <<>> => Work(v) <= Cardinality(Ahead(Q, v))

(* KeyPress stays within its bound: nothing else adds to the two numbers. *)
Bounded == Length + Cardinality(Waiting) <= Outstanding

(* Those who read come through int 0x80, whose gate clears the flag. *)
OnlyProcesses == Consumer \subseteq Process

(* The two conditions and the lock have lists of their own. *)
LEMMA ListFacts ==
  /\ condNotEmpty \in WaitList /\ condNotFull \in WaitList /\ ioqLock \in WaitList
  /\ ioqLock \notin Condition /\ condNotEmpty # condNotFull
  /\ \A v : CondOf(v) \in Condition /\ CondOf(v) \in WaitList
  /\ \A v, w \in Level : CondOf(v) = CondOf(w) => v = w
  /\ \A L \in ListId : L \in WaitList \/ L = threadReadyList
  /\ WaitList \subseteq ListId /\ threadReadyList \in ListId \ WaitList
  /\ Level = {"task", "irq"} /\ \A c \in Ctx : c[2] \in Level
  BY IoQueueAssumption, ConditionAssumption, LockAssumption, ThreadAssumption
     DEF CondOf, ListId, Ctx

(* c is the context on the CPU, and the only one of its thread that is busy. *)
Alone(c) == /\ ThreadOf(c) = cur
            /\ \A d \in Ctx : d # c => Off(d) /\ (ThreadOf(d) = cur => pc[d] = "idle")

(* With the flag off in every call, a busy context on the CPU is alone. *)
LEMMA AloneFacts ==
  ASSUME LockInv, FlagInv, NEW c \in Ctx, ThreadOf(c) = cur, pc[c] # "idle"
  PROVE  Alone(c) /\ ~ iflag[cur]
<1>1. ASSUME NEW d \in Ctx, d # c PROVE Off(d) /\ (ThreadOf(d) = cur => pc[d] = "idle")
  BY <1>1 DEF FlagInv, Off
<1>2. ~ iflag[cur]
  BY CtxFacts DEF FlagInv, Busy
<1> QED BY <1>1, <1>2 DEF Alone

(* What the other contexts are not doing then. *)
LEMMA OthersFacts ==
  ASSUME LockInv, NEW c \in Ctx, Alone(c), NEW d \in Ctx, d # c
  PROVE  /\ ret[d] # "waitSchedule" /\ pc[d] \in {"idle", "lockAcquire"}
         /\ pc[d] = "idle" => ret[d] = "idle"
         /\ pc[d] # "idle" => Sleeps(pc[d], ret[d]) /\ ThreadOf(d) # cur
<1>1. /\ Off(d) /\ (ThreadOf(d) = cur => pc[d] = "idle")
      /\ Control(Loop(d), pc[d], ret[d], back[d])
  BY ActsFacts DEF Alone
<1> QED BY <1>1 DEF Off, Sleeps, Control

(* c moves to the labels l1 and r1. *)
Own(c, l1, r1) == /\ pc' = [pc EXCEPT ![c] = l1]
                  /\ ret' = [ret EXCEPT ![c] = r1]

(* Where the contexts are after a step of c. *)
LEMMA OwnFacts ==
  ASSUME LockInv, NEW c \in Ctx, NEW l1, NEW r1, Own(c, l1, r1)
  PROVE  \A d \in Ctx : /\ pc'[d] = IF d = c THEN l1 ELSE pc[d]
                        /\ ret'[d] = IF d = c THEN r1 ELSE ret[d]
  BY DEF LockInv, TypeInv, Own

(* The flag goes on if the call ends, and a wait begins with the flag off. *)
FlagMove(c, l1, r1) ==
  /\ iflag' = [iflag EXCEPT ![cur] = (l1 = "idle")]
  /\ l1 \notin Never
  /\ Waits(l1, r1) => ~ oldStatus'[c]
  /\ \A d \in Ctx \ {c} : oldStatus'[d] = oldStatus[d] /\ thread'[d] = thread[d]
  /\ l1 # "signalWake" => thread'[c] = NULL
  /\ cur' # cur => l1 = "idle" \/ Sleeps(l1, r1)

(* A step of c that turns the flag on only where the call ends. *)
LEMMA FlagStep ==
  ASSUME LockInv, FlagInv, NEW c \in Ctx, Alone(c), NEW l1, NEW r1, Own(c, l1, r1),
         FlagMove(c, l1, r1)
  PROVE  FlagInv'
<1>1. \A d \in Ctx : /\ pc'[d] = IF d = c THEN l1 ELSE pc[d]
                     /\ ret'[d] = IF d = c THEN r1 ELSE ret[d]
  BY OwnFacts
<1>2. /\ iflag \in [Thread -> BOOLEAN] /\ cur \in Thread
      /\ \A t \in Thread : iflag'[t] = IF t = cur THEN l1 = "idle" ELSE iflag[t]
  BY DEF LockInv, TypeInv, FlagMove
<1>3. \A d \in Ctx : d # c /\ ThreadOf(d) = cur => pc[d] = "idle"
  BY DEF Alone
<1>4. \A t \in Thread : iflag'[t] <=> ~ Busy(t)'
  <2> TAKE t \in Thread
  <2>1. /\ Task(t) \in Ctx /\ Irq(t) \in Ctx /\ ThreadOf(Task(t)) = t
        /\ ThreadOf(Irq(t)) = t
        /\ ThreadOf(c) = cur /\ (c = Task(cur) \/ c = Irq(cur))
    BY CtxFacts DEF Alone
  <2>2. CASE t = cur
    BY <1>1, <1>2, <1>3, <2>1, <2>2 DEF Busy
  <2>3. CASE t # cur
    <3>1. Task(t) # c /\ Irq(t) # c
      BY <2>1, <2>3
    <3> QED BY <1>1, <1>2, <2>1, <2>3, <3>1 DEF FlagInv, Busy
  <2> QED BY <2>2, <2>3
<1>5. ASSUME NEW d \in Ctx, NEW e \in Ctx, ThreadOf(d) = ThreadOf(e), pc'[d] # "idle",
             pc'[e] # "idle"
      PROVE  d = e
  BY <1>1, <1>3, <1>5 DEF FlagInv, Alone
<1>6. ASSUME NEW d \in Ctx
      PROVE  /\ ThreadOf(d) # cur' => Off(d)'
             /\ pc'[d] \notin Never
             /\ Waits(pc'[d], ret'[d]) => ~ oldStatus'[d]
             /\ pc'[d] # "signalWake" => thread'[d] = NULL
  <2>1. CASE d = c
    BY <1>1, <2>1 DEF FlagMove, Alone, Off, Sleeps
  <2>2. CASE d # c
    BY <1>1, <2>2 DEF FlagMove, Alone, Off, Sleeps, FlagInv
  <2> QED BY <2>1, <2>2
<1> QED BY <1>4, <1>5, <1>6 DEF FlagInv

(* The running thread is on a list only as it is about to leave the CPU.   *)
LEMMA CpuPlace ==
  ASSUME LockInv, FlagInv, NEW Q, Placed(Q), NEW c \in Ctx, Alone(c)
  PROVE  /\ Queued(Q, c) <=> ret[c] = "waitSchedule"
         /\ status[cur] = "blocked" <=> ret[c] = "waitSchedule"
         /\ ret[c] # "waitSchedule" => status[cur] = "running" /\ OnNone(Q, cur)
<1>1. /\ Place(Q, c) /\ status[cur] \in {"running", "blocked"} /\ ThreadOf(c) = cur
      /\ status[cur] = "blocked" =>
           \E d \in Ctx : ThreadOf(d) = cur /\ ret[d] = "waitSchedule"
      /\ cur \in Thread
  BY DEF Placed, Alone, LockInv, TypeInv
<1>2. status[cur] = "blocked" => ret[c] = "waitSchedule"
  BY <1>1, OthersFacts
<1>3. Queued(Q, c) <=> ret[c] = "waitSchedule"
  BY <1>1, <1>2 DEF Place, Sleeps
<1>4. status[cur] = "blocked" <=> ret[c] = "waitSchedule"
  BY <1>1, <1>2, <1>3 DEF Place
<1>5. ASSUME status[cur] = "running" PROVE OnNone(Q, cur)
  <2> SUFFICES ASSUME NEW L \in ListId, cur \in Members(Q[L]) PROVE FALSE
    BY DEF OnNone
  <2>1. L # threadReadyList
    BY <1>1, <1>5 DEF Placed, Agree
  <2>2. L \in WaitList /\ L \in Condition
    <3>1. L \in WaitList
      BY <2>1, ListFacts
    <3>2. Members(<<>>) = {}
      BY DEF Members
    <3> QED BY <3>1, <3>2 DEF Placed
  <2>3. \E d \in {Task(cur), Irq(cur)} : d \in Ctx /\ ThreadOf(d) = cur /\ CondOf(d[2]) = L
    BY <1>1, <2>2, CtxFacts, IoQueueAssumption DEF CondOf
  <2>4. PICK d \in Ctx : ThreadOf(d) = cur /\ Queued(Q, d)
    BY <2>3 DEF Queued
  <2> QED BY <1>5, <2>4 DEF Placed, Place
<1> QED BY <1>1, <1>2, <1>3, <1>4, <1>5

(* Nobody is on an empty list. *)
LEMMA EmptyMembers == Members(<<>>) = {}
  BY DEF Members

(* A step of c that touches neither the lists nor a status. *)
QuietMove(c, l1, r1) ==
  /\ UNCHANGED <<heap, status, cur, panic, thread>>
  /\ r1 = "waitSchedule" <=> ret[c] = "waitSchedule"
  /\ l1 = "idle" => r1 # "waitSchedule"
  /\ pc[c] # "signalWake" /\ l1 # "signalWake" /\ ~ Sleeps(l1, r1)
  /\ pc'[Task(Main)] # "boot" => \A t \in Thread : status[t] # "unborn"

(* Such a step leaves everybody where the invariant says. *)
LEMMA QuietPlaced ==
  ASSUME LockInv, FlagInv, NEW Q, Placed(Q), NEW c \in Ctx, Alone(c), NEW l1, NEW r1,
         Own(c, l1, r1), QuietMove(c, l1, r1)
  PROVE  Placed(Q)' /\ \A d \in Ctx : Queued(Q, d)' <=> Queued(Q, d)
<1>1. /\ \A d \in Ctx : /\ pc'[d] = IF d = c THEN l1 ELSE pc[d]
                        /\ ret'[d] = IF d = c THEN r1 ELSE ret[d]
      /\ UNCHANGED <<heap, status, cur, panic, thread>>
  BY OwnFacts DEF QuietMove
<1>2. \A d \in Ctx : Queued(Q, d)' <=> Queued(Q, d)
  BY DEF Queued
<1>3. Agree(Q)'
  BY <1>1 DEF Placed, Agree
<1>4. ASSUME NEW d \in Ctx PROVE Place(Q, d)'
  <2>1. CASE d = c
    <3>1. /\ Queued(Q, c) <=> ret[c] = "waitSchedule"
          /\ status[cur] = "blocked" <=> ret[c] = "waitSchedule"
          /\ ThreadOf(c) = cur
      BY CpuPlace DEF Alone
    <3> QED BY <1>1, <1>2, <2>1, <3>1 DEF QuietMove, Place
  <2>2. CASE d # c
    <3>1. Place(Q, d)
      BY DEF Placed
    <3> QED BY <1>1, <1>2, <2>2, <3>1 DEF Place
  <2> QED BY <2>1, <2>2
<1>5. ASSUME NEW t \in Thread, status'[t] = "blocked" PROVE Busy(t)'
  <2>1. Busy(t) /\ Task(t) \in Ctx /\ Irq(t) \in Ctx
    BY <1>1, <1>5, CtxFacts DEF Placed
  <2>2. t = cur => l1 # "idle"
    BY <1>1, <1>5, CpuPlace DEF QuietMove
  <2>3. /\ ThreadOf(Task(t)) = t /\ ThreadOf(Irq(t)) = t /\ ThreadOf(c) = cur
        /\ (c = Task(cur) \/ c = Irq(cur))
    BY CtxFacts DEF Alone
  <2>4. CASE t = cur
    BY <1>1, <2>1, <2>2, <2>3, <2>4 DEF Busy
  <2>5. CASE t # cur
    BY <1>1, <2>1, <2>3, <2>5 DEF Busy
  <2> QED BY <2>4, <2>5
<1>6. /\ status'[cur'] = "blocked" =>
           \E d \in Ctx : ThreadOf(d) = cur' /\ ret'[d] = "waitSchedule"
      /\ status'[cur'] \in {"running", "blocked"}
  <2>1. status[cur] = "blocked" <=> ret[c] = "waitSchedule"
    BY CpuPlace
  <2>2. status[cur] \in {"running", "blocked"} /\ ThreadOf(c) = cur
    BY DEF Placed, Alone
  <2> QED BY <1>1, <2>1, <2>2 DEF QuietMove
<1>7. pc'[Task(Main)] # "boot" => \A t \in Thread : status'[t] # "unborn"
  BY <1>1 DEF QuietMove
<1>8. \A L \in WaitList \ Condition : Q[L] = <<>>
  BY DEF Placed
<1> QED BY <1>2, <1>3, <1>4, <1>5, <1>6, <1>7, <1>8 DEF Placed

-----------------------------------------------------------------------------
(* The contexts can be counted. *)
LEMMA AheadFinite ==
  ASSUME NEW S \in SUBSET Ctx
  PROVE  IsFiniteSet(S) /\ Cardinality(S) \in Nat
<1>1. IsFiniteSet(Thread) /\ IsFiniteSet({"task", "irq"})
  <2>1. IsFiniteSet({"task"}) /\ {"task", "irq"} = {"task"} \cup {"irq"}
    BY FS_Singleton
  <2> QED BY <2>1, ThreadAssumption, FS_AddElement
<1>2. IsFiniteSet(Ctx)
  BY <1>1, FS_Product, IoQueueAssumption DEF Ctx
<1>3. IsFiniteSet(S)
  BY <1>2, FS_Subset
<1> QED BY <1>3, FS_CardinalityType

(* There is as much to do as characters, or free slots. *)
LEMMA LengthFacts ==
  ASSUME LockInv
  PROVE  /\ Length \in Nat /\ Length <= BUFSIZE - 1 /\ BUFSIZE \in Nat
         /\ Empty <=> Length = 0
         /\ Full <=> Length = BUFSIZE - 1
         /\ \A v : Work(v) \in Nat
<1>1. head \in 0 .. BUFSIZE - 1 /\ tail \in 0 .. BUFSIZE - 1
  BY DEF LockInv, TypeInv
<1>2. /\ Length = Dist(head, tail) /\ BUFSIZE \in Nat
      /\ Full <=> nextPos(tail) = head
      /\ Empty <=> tail = head
  BY ContentsView, IoQueueAssumption
<1>3. /\ Dist(head, tail) \in Nat /\ Dist(head, tail) < BUFSIZE
      /\ Dist(head, tail) = 0 <=> tail = head
      /\ nextPos(tail) = head <=> Dist(head, tail) = BUFSIZE - 1
  BY <1>1, RingFacts
<1> QED BY <1>2, <1>3 DEF Work

(* Who is ahead stays ahead, for one level. *)
LEMMA StaysServed ==
  ASSUME LockInv, NEW v \in Level, NEW Q, NEW A, A = Ahead(Q, v), Work(v) <= Cardinality(A),
         NEW B \in SUBSET Ctx, A \subseteq B
  PROVE  Work(v) <= Cardinality(B)
<1>1. A \in SUBSET Ctx
  BY DEF Ahead
<1>2. IsFiniteSet(B) /\ Cardinality(A) \in Nat /\ Cardinality(B) \in Nat
  BY <1>1, AheadFinite
<1>3. Cardinality(A) <= Cardinality(B)
  BY <1>2, FS_Subset
<1> QED BY <1>2, <1>3, LengthFacts

(* What such a step does for those who wait: nothing, or a character goes  *)
(* in or out, and c, which was to take it, is to give a signal for it.     *)
RingMove(Q, c, l1) ==
  \/ /\ Length' = Length
     /\ pc[c] \in Want => l1 \in Want
     /\ pc[c] \in Signals => \A v \in Level \ {c[2]} : Q[CondOf(v)] = <<>>
  \/ /\ pc[c] \in Want \ Signals /\ l1 \in Signals \ Want
     /\ Length' = IF c[2] = "irq" THEN Length + 1 ELSE Length - 1

(* Such a step leaves as much to take as there are contexts to take it. *)
LEMMA QuietServed ==
  ASSUME LockInv, FlagInv, NEW Q, Placed(Q), Served(Q), NEW c \in Ctx, Alone(c), NEW l1,
         NEW r1, Own(c, l1, r1), QuietMove(c, l1, r1), RingMove(Q, c, l1)
  PROVE  Served(Q)'
<1> SUFFICES ASSUME NEW v \in Level, Q[CondOf(v)] # <<>>
             PROVE  Work(v)' <= Cardinality(Ahead(Q, v)')
  BY DEF Served
<1>1. /\ \A d \in Ctx : pc'[d] = IF d = c THEN l1 ELSE pc[d]
      /\ \A d \in Ctx : Queued(Q, d)' <=> Queued(Q, d)
  BY OwnFacts, QuietPlaced
<1>2. PICK A \in SUBSET Ctx : A = Ahead(Q, v) /\ Work(v) <= Cardinality(A)
  BY DEF Ahead, Served
<1>3. PICK B \in SUBSET Ctx : B = Ahead(Q, v)'
  BY DEF Ahead
<1>4. \A d \in Ctx : d # c => (d \in B <=> d \in A)
  BY <1>1, <1>2, <1>3 DEF Ahead
<1>5. Work(v) \in Nat /\ Length \in Nat /\ BUFSIZE \in Nat
  BY LengthFacts
<1>6. CASE /\ Length' = Length
           /\ pc[c] \in Want => l1 \in Want
           /\ pc[c] \in Signals => \A w \in Level \ {c[2]} : Q[CondOf(w)] = <<>>
  <2>1. c \in A => c \in B
    BY <1>1, <1>2, <1>3, <1>6 DEF Ahead
  <2>2. A \subseteq B
    BY <1>4, <2>1
  <2>3. Work(v)' = Work(v)
    BY <1>6 DEF Work
  <2>4. Work(v) <= Cardinality(B)
    BY <1>2, <2>2, StaysServed
  <2> QED BY <1>3, <2>3, <2>4
<1>7. CASE /\ pc[c] \in Want \ Signals /\ l1 \in Signals \ Want
           /\ Length' = IF c[2] = "irq" THEN Length + 1 ELSE Length - 1
  <2>1. IsFiniteSet(A) /\ Cardinality(A) \in Nat /\ IsFiniteSet(B) /\ Cardinality(B) \in Nat
    BY AheadFinite
  <2>2. c[2] \in {"task", "irq"} /\ v \in {"task", "irq"}
    BY ListFacts
  <2>3. CASE c[2] = v
    <3>1. c \notin B /\ B = A \ {c}
      BY <1>1, <1>3, <1>4, <1>7, <2>3 DEF Ahead
    <3>2. Cardinality(B) = IF c \in A THEN Cardinality(A) - 1 ELSE Cardinality(A)
      BY <2>1, <3>1, FS_RemoveElement
    <3>3. Work(v)' = Work(v) - 1
      BY <1>5, <1>7, <2>2, <2>3 DEF Work
    <3> QED BY <1>2, <1>3, <1>5, <2>1, <3>2, <3>3
  <2>4. CASE c[2] # v
    <3>1. c \in B /\ c \notin A /\ B = A \cup {c}
      BY <1>1, <1>2, <1>3, <1>4, <1>7, <2>4 DEF Ahead
    <3>2. Cardinality(B) = Cardinality(A) + 1
      BY <2>1, <3>1, FS_AddElement
    <3>3. Work(v)' = Work(v) + 1
      BY <1>5, <1>7, <2>2, <2>4 DEF Work
    <3> QED BY <1>2, <1>3, <1>5, <2>1, <3>2, <3>3
  <2> QED BY <2>3, <2>4
<1> QED BY <1>6, <1>7 DEF RingMove

-----------------------------------------------------------------------------
(* The context of the other level on the same thread has another condition. *)
LEMMA OtherLevel ==
  ASSUME NEW c \in Ctx, NEW d \in Ctx, d # c, CondOf(d[2]) = CondOf(c[2])
  PROVE  ThreadOf(d) # ThreadOf(c)
<1>1. d[2] = c[2]
  BY ListFacts
<1>2. c = <<c[1], c[2]>> /\ d = <<d[1], d[2]>>
  BY DEF Ctx
<1> QED BY <1>1, <1>2 DEF ThreadOf

(* conditionWait queues the running thread when there is nothing for it. *)
LEMMA QueueStep ==
  ASSUME LockInv, FlagInv, NEW Q, Placed(Q), Served(Q), NEW c \in Ctx, Alone(c),
         Own(c, "lockRelease", "waitSchedule"), pc[c] \in Want \ Signals,
         ret[c] # "waitSchedule", Work(c[2]) = 0, Length' = Length,
         heap' = ListAppend(heap, CondOf(c[2]), cur),
         status' = [status EXCEPT ![cur] = "blocked"], UNCHANGED <<cur, panic, thread>>
  PROVE  \E R : Placed(R)' /\ Served(R)'
<1>1. PICK L, R : L = CondOf(c[2]) /\ R = [Q EXCEPT ![L] = Append(Q[L], cur)]
  OBVIOUS
<1>2. /\ \A d \in Ctx : /\ pc'[d] = IF d = c THEN "lockRelease" ELSE pc[d]
                        /\ ret'[d] = IF d = c THEN "waitSchedule" ELSE ret[d]
      /\ UNCHANGED <<cur, panic, thread>>
  BY OwnFacts
<1>3. /\ cur \in Thread /\ ThreadOf(c) = cur /\ status \in [Thread -> Status]
      /\ Lists(heap, Q) /\ Q \in [ListId -> Seq(Thread)]
  BY DEF LockInv, TypeInv, Placed, Agree, Lists, Alone
<1>4. L \in Condition /\ L \in WaitList /\ L \in ListId /\ L # threadReadyList
  BY <1>1, ListFacts
<1>5. status[cur] = "running" /\ OnNone(Q, cur) /\ ~ Queued(Q, c)
  BY CpuPlace
<1>6. /\ Lists(heap', R) /\ Members(R[L]) = Members(Q[L]) \cup {cur}
      /\ \A M \in ListId \ {L} : R[M] = Q[M]
  <2>1. Lists(heap', R) /\ Gains(Q, R, L, cur)
    BY <1>1, <1>3, <1>4, <1>5, AppendLists
  <2>2. \A M \in ListId \ {L} : R[M] = Q[M]
    BY <1>1, <1>3, <1>4
  <2> QED BY <2>1, <2>2 DEF Gains
<1>7. /\ \A t \in Thread : status'[t] = IF t = cur THEN "blocked" ELSE status[t]
      /\ status' \in [Thread -> Status]
  BY <1>3 DEF Status
<1>8. Agree(R)'
  BY <1>2, <1>3, <1>4, <1>5, <1>6, <1>7, ListFacts DEF Placed, Agree
<1>9. \A d \in Ctx : Queued(R, d) <=> Queued(Q, d) \/ d = c
  <2> TAKE d \in Ctx
  <2>1. CASE d = c
    BY <1>1, <1>3, <1>6, <2>1 DEF Queued
  <2>2. CASE d # c /\ CondOf(d[2]) = L
    BY <1>1, <1>3, <1>6, <2>2, OtherLevel DEF Queued
  <2>3. CASE CondOf(d[2]) # L
    <3>1. CondOf(d[2]) \in ListId /\ d # c
      BY <1>1, <2>3, ListFacts
    <3> QED BY <1>6, <2>3, <3>1 DEF Queued
  <2> QED BY <2>1, <2>2, <2>3
<1>10. ASSUME NEW d \in Ctx PROVE Place(R, d)'
  <2>1. Queued(R, d)' <=> Queued(Q, d) \/ d = c
    BY <1>9 DEF Queued
  <2>2. CASE d = c
    BY <1>2, <1>3, <1>7, <2>1, <2>2 DEF Place, Sleeps
  <2>3. CASE d # c
    <3>1. Place(Q, d) /\ pc[d] \in {"idle", "lockAcquire"} /\ ret[d] # "waitSchedule"
      BY <2>3, OthersFacts DEF Placed
    <3>2. Sleeps(pc[d], ret[d]) => ThreadOf(d) # cur
      BY <2>3 DEF Alone, Sleeps
    <3>3. ThreadOf(d) \in Thread
      BY CtxFacts
    <3> QED BY <1>2, <1>7, <2>1, <2>3, <3>1, <3>2, <3>3 DEF Place
  <2> QED BY <2>2, <2>3
<1>11. ASSUME NEW t \in Thread, status'[t] = "blocked" PROVE Busy(t)'
  <2>1. /\ Task(t) \in Ctx /\ Irq(t) \in Ctx /\ ThreadOf(Task(t)) = t
        /\ ThreadOf(Irq(t)) = t
        /\ (c = Task(cur) \/ c = Irq(cur))
    BY <1>3, CtxFacts
  <2>2. t # cur => Busy(t)
    BY <1>7, <1>11 DEF Placed
  <2> QED BY <1>2, <1>3, <2>1, <2>2 DEF Busy
<1>12. \A M \in WaitList \ Condition : R[M] = <<>>
  BY <1>4, <1>6, ListFacts DEF Placed
<1>13. /\ status'[cur'] = "blocked" /\ ThreadOf(c) = cur' /\ ret'[c] = "waitSchedule"
       /\ pc'[Task(Main)] # "boot" => \A t \in Thread : status'[t] # "unborn"
  <2>1. Task(Main) \in Ctx
    BY CtxFacts, ThreadAssumption
  <2>2. Task(Main) = c => status[cur] = "running" /\ pc[c] # "boot"
    BY <1>5 DEF Want
  <2>3. pc'[Task(Main)] # "boot" => pc[Task(Main)] # "boot"
    BY <1>2, <2>1, <2>2
  <2> QED BY <1>2, <1>3, <1>7, <2>3 DEF Placed
<1>14. Placed(R)'
  BY <1>8, <1>10, <1>11, <1>12, <1>13 DEF Placed
<1>15. Served(R)'
  <2> SUFFICES ASSUME NEW v \in Level, R[CondOf(v)] # <<>>
               PROVE  Work(v)' <= Cardinality(Ahead(R, v)')
    BY DEF Served
  <2>1. Work(v)' = Work(v)
    BY DEF Work
  <2>2. PICK A \in SUBSET Ctx : A = Ahead(Q, v)
    BY DEF Ahead
  <2>3. PICK B \in SUBSET Ctx : B = Ahead(R, v)'
    BY DEF Ahead
  <2>4. CASE v = c[2]
    <3>1. Cardinality(B) \in Nat
      BY AheadFinite
    <3> QED BY <2>1, <2>3, <2>4, <3>1
  <2>5. CASE v # c[2]
    <3>1. CondOf(v) \in ListId /\ CondOf(v) # L
      BY <1>1, <2>5, ListFacts
    <3>2. Work(v) <= Cardinality(A)
      BY <1>6, <2>2, <3>1 DEF Served
    <3>3. A \subseteq B
      <4> SUFFICES ASSUME NEW d \in Ctx, d \in A PROVE d \in B
        OBVIOUS
      <4>1. d # c
        BY <2>2, <2>5 DEF Ahead
      <4>2. Queued(R, d)' <=> Queued(Q, d)
        BY <1>9, <4>1 DEF Queued
      <4> QED BY <1>2, <2>2, <2>3, <4>1, <4>2 DEF Ahead
    <3> QED BY <2>1, <2>2, <2>3, <3>2, <3>3, StaysServed
  <2> QED BY <2>4, <2>5
<1> QED BY <1>14, <1>15

(* conditionSignal takes the first waiter off the list.  It will be awake   *)
(* ahead of the others in place of c.                                      *)
LEMMA PopStep ==
  ASSUME LockInv, FlagInv, NEW Q, Placed(Q), Served(Q), NEW c \in Ctx, Alone(c),
         pc[c] \in Signals \ Want, Own(c, "signalWake", ret[c]), ret[c] # "waitSchedule",
         NEW v \in Level \ {c[2]}, Q[CondOf(v)] # <<>>, heap' = ListPop(heap, CondOf(v)),
         thread' = [thread EXCEPT ![c] = ListFirst(heap, CondOf(v))],
         Length' = Length, UNCHANGED <<status, cur, panic>>
  PROVE  \E R : Placed(R)' /\ Served(R)'
<1>1. PICK L, p, R : /\ L = CondOf(v) /\ p = ListFirst(heap, CondOf(v))
                     /\ R = [Q EXCEPT ![L] = Tail(Q[L])]
  OBVIOUS
<1>2. /\ \A d \in Ctx : /\ pc'[d] = IF d = c THEN "signalWake" ELSE pc[d]
                        /\ ret'[d] = ret[d]
      /\ UNCHANGED <<status, cur, panic>>
  BY OwnFacts
<1>3. /\ cur \in Thread /\ ThreadOf(c) = cur /\ status \in [Thread -> Status]
      /\ Lists(heap, Q) /\ Q \in [ListId -> Seq(Thread)]
      /\ thread \in [Ctx -> Thread \cup {NULL}]
  BY DEF LockInv, TypeInv, Placed, Agree, Lists, Alone
<1>4. L \in Condition /\ L \in WaitList /\ L \in ListId /\ L # threadReadyList
  BY <1>1, ListFacts
<1>5. status[cur] = "running" /\ OnNone(Q, cur) /\ ~ Queued(Q, c)
  BY CpuPlace
<1>6. Len(Q[L]) # 0
  BY <1>1, <1>3, <1>4, EmptySeq
<1>7. /\ Lists(heap', R) /\ Members(R[L]) = Members(Q[L]) \ {p}
      /\ \A M \in ListId \ {L} : R[M] = Q[M]
      /\ p \in Thread /\ p \in Members(Q[L])
  <2>1. /\ ListFirst(heap, L) = Q[L][1] /\ Q[L][1] \in Thread /\ Q[L][1] \in Members(Q[L])
        /\ Lists(ListRemove(heap, Q[L][1]), R) /\ Loses(Q, R, L, Q[L][1])
    BY <1>1, <1>3, <1>4, <1>6, PopLists
  <2>2. \A M \in ListId \ {L} : R[M] = Q[M]
    BY <1>1, <1>3, <1>4
  <2> QED BY <1>1, <2>1, <2>2 DEF Loses, ListPop
<1>8. PICK e \in Ctx : ThreadOf(e) = p /\ e[2] = v /\ Queued(Q, e)
  <2>1. <<p, v>> \in Ctx /\ ThreadOf(<<p, v>>) = p /\ <<p, v>>[2] = v
    BY <1>7 DEF Ctx, ThreadOf
  <2> QED BY <1>1, <1>7, <2>1 DEF Queued
<1>9. e # c /\ Sleeps(pc[e], ret[e]) /\ p # cur /\ status[p] = "blocked"
  <2>1. e # c
    BY <1>8
  <2> QED BY <1>3, <1>5, <1>8, <2>1, OthersFacts DEF Placed, Place
<1>10. \A d \in Ctx : thread[d] = NULL /\ thread'[d] = IF d = c THEN p ELSE NULL
  <2> TAKE d \in Ctx
  <2>1. pc[d] # "signalWake"
    BY OthersFacts DEF Signals
  <2> QED BY <1>1, <1>3, <2>1 DEF FlagInv
<1>11. OnNone(R, p)
  BY <1>3, <1>4, <1>7 DEF OnNone, Lists
<1>12. \A d \in Ctx : Queued(R, d) <=> Queued(Q, d) /\ d # e
  <2> TAKE d \in Ctx
  <2>1. CASE d = e
    BY <1>1, <1>7, <1>8, <2>1 DEF Queued
  <2>2. CASE d # e /\ CondOf(d[2]) = L
    <3>1. ThreadOf(d) # p
      BY <1>1, <1>8, <2>2, OtherLevel
    <3> QED BY <1>7, <2>2, <3>1 DEF Queued
  <2>3. CASE CondOf(d[2]) # L
    <3>1. CondOf(d[2]) \in ListId /\ d # e
      BY <1>1, <1>8, <2>3, ListFacts
    <3> QED BY <1>7, <2>3, <3>1 DEF Queued
  <2> QED BY <2>1, <2>2, <2>3
<1>13. Agree(R)'
  BY <1>2, <1>3, <1>4, <1>7, ListFacts DEF Placed, Agree
<1>14. ASSUME NEW d \in Ctx PROVE Place(R, d)'
  <2>1. /\ Queued(R, d)' <=> Queued(Q, d) /\ d # e
        /\ OnNone(R, p)' <=> OnNone(R, p)
    BY <1>12 DEF Queued, OnNone
  <2>2. CASE d = c
    <3>1. ~ Queued(R, d)'
      BY <1>5, <2>1, <2>2
    <3>2. thread'[d] = p /\ pc'[d] = "signalWake" /\ ret'[d] = ret[c]
      BY <1>2, <1>10, <2>2
    <3> QED BY <1>2, <1>7, <1>9, <1>11, <2>1, <2>2, <3>1, <3>2 DEF Place, Sleeps
  <2>3. CASE d = e
    <3>1. thread'[c] = ThreadOf(d) /\ ~ Queued(R, d)'
      BY <1>8, <1>10, <2>1, <2>3
    <3>2. ret'[d] # "waitSchedule" /\ pc'[d] # "signalWake"
      BY <1>2, <1>9, <2>3 DEF Sleeps
    <3> QED BY <3>1, <3>2 DEF Place
  <2>4. CASE d # c /\ d # e
    <3>1. Place(Q, d) /\ pc[d] # "signalWake" /\ ThreadOf(d) # NULL
      BY <2>4, OthersFacts, CtxFacts, ThreadAssumption DEF Placed
    <3>2. Sleeps(pc[d], ret[d]) /\ status[ThreadOf(d)] = "blocked" => Queued(Q, d)
      BY <1>10, <3>1 DEF Place
    <3>3. pc'[d] = pc[d] /\ ret'[d] = ret[d] /\ (Queued(R, d)' <=> Queued(Q, d))
      BY <1>2, <2>1, <2>4
    <3> QED BY <1>2, <3>1, <3>2, <3>3 DEF Place
  <2> QED BY <2>2, <2>3, <2>4
<1>15. ASSUME NEW t \in Thread, status'[t] = "blocked" PROVE Busy(t)'
  <2>1. Task(t) \in Ctx /\ Irq(t) \in Ctx /\ Busy(t)
    BY <1>2, <1>15, CtxFacts DEF Placed
  <2> QED BY <1>2, <2>1 DEF Busy
<1>16. /\ \A M \in WaitList \ Condition : R[M] = <<>>
       /\ status'[cur'] = "running"
       /\ pc'[Task(Main)] # "boot" => \A t \in Thread : status'[t] # "unborn"
  <2>1. \A M \in WaitList \ Condition : R[M] = <<>>
    BY <1>4, <1>7, ListFacts DEF Placed
  <2>2. Task(Main) \in Ctx
    BY CtxFacts, ThreadAssumption
  <2>3. pc'[Task(Main)] # "boot" => pc[Task(Main)] # "boot"
    BY <1>2, <2>2 DEF Signals
  <2> QED BY <1>2, <1>5, <2>1, <2>3 DEF Placed
<1>17. Placed(R)'
  BY <1>13, <1>14, <1>15, <1>16 DEF Placed
<1>18. Served(R)'
  <2> SUFFICES ASSUME NEW w \in Level, R[CondOf(w)] # <<>>
               PROVE  Work(w)' <= Cardinality(Ahead(R, w)')
    BY DEF Served
  <2>1. Work(w)' = Work(w)
    BY DEF Work
  <2>2. PICK A \in SUBSET Ctx : A = Ahead(Q, w)
    BY DEF Ahead
  <2>3. PICK B \in SUBSET Ctx : B = Ahead(R, w)'
    BY DEF Ahead
  <2>4. \A d \in Ctx : Queued(R, d)' <=> Queued(Q, d) /\ d # e
    BY <1>12 DEF Queued
  <2>5. CASE w = v
    <3>1. Work(w) <= Cardinality(A)
      BY <2>2, <2>5 DEF Served
    <3>2. c \in A /\ e \notin A /\ c \notin B /\ e \in B
      BY <1>2, <1>8, <1>9, <2>2, <2>3, <2>4, <2>5 DEF Ahead, Sleeps, Want, Signals
    <3>3. \A d \in Ctx : d # c /\ d # e => (d \in A <=> d \in B)
      BY <1>2, <2>2, <2>3, <2>4 DEF Ahead
    <3>4. PICK D \in SUBSET Ctx : D = A \ {c}
      OBVIOUS
    <3>5. B = D \cup {e} /\ e \notin D
      BY <3>2, <3>3, <3>4
    <3>6. /\ IsFiniteSet(A) /\ Cardinality(A) \in Nat /\ IsFiniteSet(D)
          /\ Cardinality(D) \in Nat
      BY AheadFinite
    <3>7. Cardinality(D) = Cardinality(A) - 1
      BY <3>2, <3>4, <3>6, FS_RemoveElement
    <3>8. Cardinality(B) = Cardinality(D) + 1
      BY <3>5, <3>6, FS_AddElement
    <3> QED BY <2>1, <2>3, <3>1, <3>6, <3>7, <3>8, LengthFacts
  <2>6. CASE w # v
    <3>1. CondOf(w) \in ListId /\ CondOf(w) # L
      BY <1>1, <2>6, ListFacts
    <3>2. Work(w) <= Cardinality(A)
      BY <1>7, <2>2, <3>1 DEF Served
    <3>3. c[2] = w
      BY <2>6, ListFacts
    <3>4. A \subseteq B
      <4> SUFFICES ASSUME NEW d \in Ctx, d \in A PROVE d \in B
        OBVIOUS
      <4>1. d # c
        BY <2>2, <3>3 DEF Ahead
      <4>2. Queued(R, d)' => Queued(Q, d)
        BY <2>4
      <4> QED BY <1>2, <2>2, <2>3, <4>1, <4>2 DEF Ahead
    <3> QED BY <2>1, <2>2, <2>3, <3>2, <3>4, StaysServed
  <2> QED BY <2>5, <2>6
<1> QED BY <1>17, <1>18

(* threadUnblock makes the waiter that was taken off ready. *)
LEMMA WakeStep ==
  ASSUME LockInv, FlagInv, NEW Q, Placed(Q), Served(Q), NEW c \in Ctx, Alone(c),
         pc[c] = "signalWake", Own(c, "release", ret[c]), ret[c] # "waitSchedule",
         threadUnblock(thread[c]), thread' = [thread EXCEPT ![c] = NULL], Length' = Length
  PROVE  \E R : Placed(R)' /\ Served(R)'
<1>1. PICK p : p = thread[c]
  OBVIOUS
<1>2. \A d \in Ctx : /\ pc'[d] = IF d = c THEN "release" ELSE pc[d]
                     /\ ret'[d] = ret[d]
  BY OwnFacts
<1>3. /\ cur \in Thread /\ ThreadOf(c) = cur /\ Lists(heap, Q) /\ Agree(Q)
      /\ thread \in [Ctx -> Thread \cup {NULL}] /\ status \in [Thread -> Status]
  BY DEF LockInv, TypeInv, Placed, Agree, Alone
<1>4. status[cur] = "running" /\ ~ Queued(Q, c)
  BY CpuPlace
<1>5. p \in Thread /\ OnNone(Q, p) /\ status[p] = "blocked" /\ p # cur
  BY <1>1, <1>4 DEF Placed, Place
<1>6. /\ panic' = "none" /\ cur' = cur
      /\ \A u \in Thread : u # p => status'[u] = status[u]
      /\ \E R : Agree(R)' /\ OnlyReady(Q, R, AfterUnblock(Q, p))
  <2>1. threadUnblock(p)
    BY <1>1
  <2> QED BY <1>3, <1>5, <2>1, UnblockLists
<1>7. status'[p] = "ready"
  BY <1>1, <1>3, <1>5, <1>6 DEF threadUnblock
<1>8. PICK R : Agree(R)' /\ OnlyReady(Q, R, AfterUnblock(Q, p))
  BY <1>6
<1>9. \A L \in WaitList : R[L] = Q[L]
  BY <1>3, <1>8, WaitListsKept
<1>10. \A d \in Ctx : Queued(R, d)' <=> Queued(Q, d)
  BY <1>9, ListFacts DEF Queued
<1>11. \A d \in Ctx : d # c => thread[d] = NULL /\ thread'[d] = NULL
  <2> SUFFICES ASSUME NEW d \in Ctx, d # c PROVE thread[d] = NULL /\ thread'[d] = NULL
    OBVIOUS
  <2>1. pc[d] # "signalWake"
    BY OthersFacts
  <2> QED BY <1>3, <2>1 DEF FlagInv
<1>12. ASSUME NEW d \in Ctx PROVE Place(R, d)'
  <2>1. CASE d = c
    <3>1. ~ Queued(R, d)' /\ pc'[d] = "release" /\ ret'[d] # "waitSchedule"
      BY <1>2, <1>4, <1>10, <2>1
    <3> QED BY <3>1 DEF Place, Sleeps
  <2>2. CASE d # c
    <3>1. /\ Place(Q, d) /\ pc[d] # "signalWake" /\ ThreadOf(d) # NULL
          /\ ThreadOf(d) \in Thread
      BY <2>2, OthersFacts, CtxFacts, ThreadAssumption DEF Placed
    <3>2. Queued(Q, d) => ThreadOf(d) # p
      BY <1>5, ListFacts DEF Queued, OnNone
    <3>3. pc'[d] = pc[d] /\ ret'[d] = ret[d] /\ (Queued(R, d)' <=> Queued(Q, d))
      BY <1>2, <1>10, <2>2
    <3>4. status'[ThreadOf(d)] = IF ThreadOf(d) = p THEN "ready" ELSE status[ThreadOf(d)]
      BY <1>6, <1>7, <3>1
    <3>5. Sleeps(pc[d], ret[d]) /\ status'[ThreadOf(d)] = "blocked" => Queued(Q, d)
      BY <1>1, <1>11, <3>1, <3>4 DEF Place
    <3> QED BY <3>1, <3>2, <3>3, <3>4, <3>5 DEF Place
  <2> QED BY <2>1, <2>2
<1>13. ASSUME NEW t \in Thread, status'[t] = "blocked" PROVE Busy(t)'
  <2>1. Task(t) \in Ctx /\ Irq(t) \in Ctx /\ Busy(t)
    BY <1>6, <1>7, <1>13, CtxFacts DEF Placed
  <2> QED BY <1>2, <2>1 DEF Busy
<1>14. /\ \A M \in WaitList \ Condition : R[M] = <<>>
       /\ status'[cur'] = "running"
       /\ pc'[Task(Main)] # "boot" => \A t \in Thread : status'[t] # "unborn"
  <2>1. Task(Main) \in Ctx
    BY CtxFacts, ThreadAssumption
  <2>2. pc'[Task(Main)] # "boot" => pc[Task(Main)] # "boot"
    BY <1>2, <2>1
  <2>3. \A t \in Thread : status'[t] = IF t = p THEN "ready" ELSE status[t]
    BY <1>6, <1>7
  <2> QED BY <1>3, <1>4, <1>5, <1>6, <1>9, <2>2, <2>3 DEF Placed
<1>15. Placed(R)'
  BY <1>8, <1>12, <1>13, <1>14 DEF Placed
<1>16. Served(R)'
  <2> SUFFICES ASSUME NEW w \in Level, R[CondOf(w)] # <<>>
               PROVE  Work(w)' <= Cardinality(Ahead(R, w)')
    BY DEF Served
  <2>1. Work(w)' = Work(w) /\ R[CondOf(w)] = Q[CondOf(w)]
    BY <1>9, ListFacts DEF Work
  <2>2. PICK A \in SUBSET Ctx : A = Ahead(Q, w) /\ Work(w) <= Cardinality(A)
    BY <2>1 DEF Ahead, Served
  <2>3. PICK B \in SUBSET Ctx : B = Ahead(R, w)'
    BY DEF Ahead
  <2>4. A \subseteq B
    <3> SUFFICES ASSUME NEW d \in Ctx, d \in A PROVE d \in B
      OBVIOUS
    <3>1. d # c
      BY <2>2 DEF Ahead, Want, Signals
    <3> QED BY <1>2, <1>10, <2>2, <2>3, <3>1 DEF Ahead
  <2> QED BY <2>1, <2>2, <2>3, <2>4, StaysServed
<1> QED BY <1>15, <1>16

(* A thread that is neither ready nor blocked is on no list. *)
LEMMA UnlistedThread ==
  ASSUME NEW Q, Placed(Q), NEW t \in Thread, status[t] \notin {"ready", "blocked"}
  PROVE  OnNone(Q, t)
<1> SUFFICES ASSUME NEW L \in ListId, t \in Members(Q[L]) PROVE FALSE
  BY DEF OnNone
<1>1. L # threadReadyList
  BY DEF Placed, Agree
<1>2. L \in Condition
  <2>1. L \in WaitList
    BY <1>1, ListFacts
  <2> QED BY <2>1, EmptyMembers DEF Placed
<1>3. \E d \in {Task(t), Irq(t)} : d \in Ctx /\ ThreadOf(d) = t /\ CondOf(d[2]) = L
  BY <1>2, CtxFacts, IoQueueAssumption DEF CondOf
<1>4. PICK d \in Ctx : ThreadOf(d) = t /\ Queued(Q, d)
  BY <1>3 DEF Queued
<1> QED BY <1>4 DEF Placed, Place

(* What a schedule that finds a ready thread does. *)
Scheduled(Q, R) ==
  /\ Agree(R)' /\ \A L \in WaitList : R[L] = Q[L]
  /\ cur' \in Thread /\ status'[cur'] = "running" /\ status[cur'] # "blocked"
  /\ \A t \in Thread : /\ status'[t] = "blocked" <=> status[t] = "blocked"
                       /\ status'[t] = "unborn" => status[t] = "unborn"

(* schedule finds the head of the ready list and leaves the others queued. *)
LEMMA ScheduleFacts ==
  ASSUME LockInv, FlagInv, NEW Q, Placed(Q), schedule(heap, status), panic' = "none"
  PROVE  \E R : Scheduled(Q, R)
<1>1. /\ Agree(Q) /\ cur \in Thread /\ status \in [Thread -> Status] /\ Lists(heap, Q)
      /\ status[cur] \in {"running", "blocked"}
  BY DEF Placed, Agree
<1>2. status[cur] = "running" => OnNone(Q, cur)
  BY <1>1, UnlistedThread
<1>3. \/ status = [status EXCEPT ![cur] = "blocked"]
      \/ status[cur] = "running" /\ OnNone(Q, cur)
  BY <1>1, <1>2
<1>4. Switched(Q, status) /\ \E R : Agree(R)' /\ OnlyReady(Q, R, AfterSchedule(Q, status))
  BY <1>1, <1>3, ScheduleLists
<1>5. PICK R : Agree(R)' /\ OnlyReady(Q, R, AfterSchedule(Q, status))
  BY <1>4
<1>6. \A L \in WaitList : R[L] = Q[L]
  BY <1>1, <1>5, WaitListsKept
<1>7. status[cur] = "blocked" => cur' # cur
  BY <1>1, LeavesCpu
<1>8. /\ cur' \in Thread /\ (cur' = cur \/ status[cur'] = "ready")
      /\ \A t \in Thread : status'[t] = IF t = cur' THEN "running"
                                        ELSE IF t = cur /\ status[t] = "running"
                                             THEN "ready" ELSE status[t]
  BY <1>4 DEF Switched
<1>9. status'[cur'] = "running" /\ status[cur'] # "blocked"
  BY <1>1, <1>7, <1>8
<1>10. \A t \in Thread : /\ status'[t] = "blocked" <=> status[t] = "blocked"
                         /\ status'[t] = "unborn" => status[t] = "unborn"
  BY <1>8, <1>9
<1> QED BY <1>5, <1>6, <1>8, <1>9, <1>10 DEF Scheduled

(* Everybody keeps the place that he had. *)
LEMMA SwitchPlaced ==
  ASSUME LockInv, FlagInv, NEW Q, Placed(Q), NEW R, Scheduled(Q, R), thread' = thread,
         Length' = Length,
         \A d \in Ctx : /\ pc[d] # "signalWake" /\ pc'[d] # "signalWake"
                        /\ ret'[d] # "waitSchedule"
                        /\ Queued(Q, d) => Sleeps(pc'[d], ret'[d])
                        /\ Sleeps(pc'[d], ret'[d]) => Sleeps(pc[d], ret[d]) \/ Queued(Q, d)
                        /\ pc[d] # "idle" => pc'[d] # "idle"
                        /\ pc[d] \in Signals => pc'[d] \in Signals
                        /\ pc[d] \in Want => pc'[d] \in Want,
         pc'[Task(Main)] # "boot" => pc[Task(Main)] # "boot",
         Served(Q)
  PROVE  Placed(R)' /\ Served(R)'
<1>1. \A d \in Ctx : Queued(R, d)' <=> Queued(Q, d)
  BY ListFacts DEF Queued, Scheduled
<1>2. ASSUME NEW d \in Ctx PROVE Place(R, d)'
  <2>1. Place(Q, d) /\ ThreadOf(d) \in Thread
    BY CtxFacts DEF Placed
  <2>2. status'[ThreadOf(d)] = "blocked" <=> status[ThreadOf(d)] = "blocked"
    BY <2>1 DEF Scheduled
  <2> QED BY <1>1, <2>1, <2>2 DEF Place
<1>3. ASSUME NEW t \in Thread, status'[t] = "blocked" PROVE Busy(t)'
  <2>1. Task(t) \in Ctx /\ Irq(t) \in Ctx /\ Busy(t)
    BY <1>3, CtxFacts DEF Placed, Scheduled
  <2> QED BY <2>1 DEF Busy
<1>4. /\ \A M \in WaitList \ Condition : R[M] = <<>>
      /\ status'[cur'] = "running" /\ Agree(R)'
      /\ pc'[Task(Main)] # "boot" => \A t \in Thread : status'[t] # "unborn"
  BY DEF Placed, Scheduled
<1>5. Placed(R)'
  BY <1>2, <1>3, <1>4 DEF Placed
<1>6. Served(R)'
  <2> SUFFICES ASSUME NEW w \in Level, R[CondOf(w)] # <<>>
               PROVE  Work(w)' <= Cardinality(Ahead(R, w)')
    BY DEF Served
  <2>1. Work(w)' = Work(w) /\ R[CondOf(w)] = Q[CondOf(w)]
    BY ListFacts DEF Work, Scheduled
  <2>2. PICK A \in SUBSET Ctx : A = Ahead(Q, w) /\ Work(w) <= Cardinality(A)
    BY <2>1 DEF Ahead, Served
  <2>3. PICK B \in SUBSET Ctx : B = Ahead(R, w)'
    BY DEF Ahead
  <2>4. A \subseteq B
    BY <1>1, <2>2, <2>3 DEF Ahead
  <2> QED BY <2>1, <2>2, <2>3, <2>4, StaysServed
<1> QED BY <1>5, <1>6

-----------------------------------------------------------------------------
(* What holds until the kernel stops for want of a thread that can run. *)
Settled(Q) == FlagInv /\ Placed(Q) /\ Served(Q)
WaitInv == panic = "none" => \E Q : Settled(Q)

(* schedule in conditionWait, when the caller is queued and has let go of  *)
(* the lock.                                                               *)
LEMMA WaitScheduleSettles ==
  ASSUME LockInv, NEW Q, Settled(Q), NEW c \in Ctx, WaitSchedule(c), UNCHANGED ioqVars
  PROVE  WaitInv'
<1> SUFFICES ASSUME panic' = "none" PROVE \E R : Settled(R)'
  BY DEF WaitInv
<1>1. /\ pc[c] = "waitSchedule" /\ ThreadOf(c) = cur /\ Own(c, "lockAcquire", "waitReturn")
      /\ schedule(heap, status)
      /\ UNCHANGED <<iflag, thread, oldStatus, buf, head, tail, ch>>
  BY DEF WaitSchedule, At, Call, Goto, Own, condVars, ioqVars, ringVars
<1>2. /\ FlagInv /\ Placed(Q) /\ Served(Q) /\ Control(Loop(c), pc[c], ret[c], back[c])
      /\ iflag \in [Thread -> BOOLEAN]
  BY ActsFacts DEF Settled, LockInv, TypeInv
<1>3. Alone(c) /\ ~ iflag[cur] /\ ret[c] = "waitSchedule"
  BY <1>1, <1>2, AloneFacts DEF Control
<1>4. \A d \in Ctx : /\ pc'[d] = IF d = c THEN "lockAcquire" ELSE pc[d]
                     /\ ret'[d] = IF d = c THEN "waitReturn" ELSE ret[d]
  BY <1>1, OwnFacts
<1>5. FlagMove(c, "lockAcquire", "waitReturn")
  <2>1. iflag' = [iflag EXCEPT ![cur] = FALSE]
    BY <1>1, <1>2, <1>3
  <2>2. ~ oldStatus[c] /\ thread[c] = NULL
    BY <1>1, <1>2, <1>3 DEF FlagInv, Waits
  <2> QED BY <1>1, <2>1, <2>2 DEF FlagMove, Never, Sleeps
<1>6. FlagInv'
  BY <1>1, <1>2, <1>3, <1>5, FlagStep
<1>7. PICK R : Scheduled(Q, R)
  BY <1>1, <1>2, ScheduleFacts
<1>8. Queued(Q, c)
  BY <1>2, <1>3, CpuPlace
<1>9. ASSUME NEW d \in Ctx
      PROVE  /\ pc[d] # "signalWake" /\ pc'[d] # "signalWake"
             /\ ret'[d] # "waitSchedule"
             /\ Queued(Q, d) => Sleeps(pc'[d], ret'[d])
             /\ Sleeps(pc'[d], ret'[d]) => Sleeps(pc[d], ret[d]) \/ Queued(Q, d)
             /\ pc[d] # "idle" => pc'[d] # "idle"
             /\ pc[d] \in Signals => pc'[d] \in Signals
             /\ pc[d] \in Want => pc'[d] \in Want
  <2>1. CASE d = c
    BY <1>1, <1>4, <1>8, <2>1 DEF Sleeps, Signals, Want
  <2>2. CASE d # c
    <3>1. Place(Q, d) /\ pc[d] # "signalWake" /\ ret[d] # "waitSchedule"
      BY <1>2, <1>3, <2>2, OthersFacts DEF Placed
    <3> QED BY <1>4, <2>2, <3>1 DEF Place
  <2> QED BY <2>1, <2>2
<1>10. Length' = Length
  BY <1>1 DEF Length
<1>11. pc[Task(Main)] # "boot"
  <2>1. Task(Main) \in Ctx
    BY CtxFacts, ThreadAssumption
  <2> QED BY <1>1, <1>3, <2>1, OthersFacts
<1>12. Placed(R)' /\ Served(R)'
  BY <1>1, <1>2, <1>7, <1>9, <1>10, <1>11, SwitchPlaced
<1> QED BY <1>6, <1>12 DEF Settled

(* The timer preempts a thread that is in no call. *)
LEMMA TickSettles ==
  ASSUME LockInv, NEW Q, Settled(Q), Tick
  PROVE  WaitInv'
<1> SUFFICES ASSUME panic' = "none" PROVE \E R : Settled(R)'
  BY DEF WaitInv
<1>1. /\ iflag[cur] /\ schedule(heap, status)
      /\ UNCHANGED <<iflag, pc, ret, thread, oldStatus, buf, head, tail, ch>>
  BY DEF Tick, Timer, TimerPreempts, lockVars, callVars, condVars, ioqVars, ringVars
<1>2. FlagInv /\ Placed(Q) /\ Served(Q) /\ cur \in Thread
  BY DEF Settled, LockInv, TypeInv
<1>3. \A d \in Ctx : Off(d) /\ (ThreadOf(d) = cur => pc[d] = "idle")
  <2> TAKE d \in Ctx
  <2>1. ThreadOf(d) = cur => pc[d] = "idle"
    BY <1>1, <1>2, CtxFacts DEF FlagInv, Busy
  <2> QED BY <1>2, <2>1 DEF FlagInv, Off
<1>4. FlagInv'
  <2>1. \A t \in Thread : Busy(t)' <=> Busy(t)
    BY <1>1 DEF Busy
  <2>2. \A d \in Ctx : Off(d)'
    BY <1>1, <1>3 DEF Off
  <2> QED BY <1>1, <1>2, <2>1, <2>2 DEF FlagInv
<1>5. PICK R : Scheduled(Q, R)
  BY <1>1, <1>2, ScheduleFacts
<1>6. ASSUME NEW d \in Ctx
      PROVE  pc[d] # "signalWake" /\ ret[d] # "waitSchedule"
             /\ (Queued(Q, d) => Sleeps(pc[d], ret[d]))
  <2>1. Control(Loop(d), pc[d], ret[d], back[d]) /\ Off(d)
    BY <1>3, ActsFacts
  <2>2. pc[d] # "signalWake" /\ ret[d] # "waitSchedule"
    BY <2>1 DEF Control, Off, Sleeps
  <2> QED BY <1>2, <2>2 DEF Placed, Place
<1>7. Length' = Length
  BY <1>1 DEF Length
<1>8. Placed(R)' /\ Served(R)'
  BY <1>1, <1>2, <1>5, <1>6, <1>7, SwitchPlaced
<1> QED BY <1>4, <1>8 DEF Settled

(* Boot starts the threads one after the other, then runs as main. *)
LEMMA BootSettles ==
  ASSUME LockInv, NEW Q, Settled(Q), BootStep
  PROVE  WaitInv'
<1>1. PICK c \in Ctx : c = Task(Main) /\ c = <<Main, "task">>
  BY CtxFacts, ThreadAssumption DEF Task
<1>2. /\ pc[c] = "boot" /\ ThreadOf(c) = cur /\ panic = "none"
      /\ UNCHANGED <<ret, thread, oldStatus, buf, head, tail, ch>>
  BY <1>1 DEF BootStep, Boot, At, condVars, ioqVars, ringVars
<1>3. /\ FlagInv /\ Placed(Q) /\ Served(Q) /\ Control(Loop(c), pc[c], ret[c], back[c])
      /\ Alone(c) /\ ret[c] = "idle" /\ Length' = Length /\ Main = cur
  BY <1>1, <1>2, ActsFacts, AloneFacts DEF Settled, Control, Length, ThreadOf
<1>4. CASE \E t \in Thread : status[t] = "unborn"
  <2>1. PICK t \in Thread : threadStart(t)
    BY <1>4 DEF BootStep, Boot
  <2>2. pc' = pc /\ iflag' = iflag
    BY <1>4 DEF BootStep, Boot
  <2>3. status[t] = "unborn"
    BY <2>1 DEF threadStart
  <2>4. OnNone(Q, t) /\ Agree(Q) /\ Lists(heap, Q)
    BY <1>3, <2>3, UnlistedThread DEF Placed, Agree
  <2>5. /\ cur' = cur /\ status'[t] = "ready"
        /\ \A u \in Thread : u # t => status'[u] = status[u]
        /\ \E R : Agree(R)' /\ OnlyReady(Q, R, Append(Q[threadReadyList], t))
    BY <2>1, <2>4, StartLists
  <2>6. PICK R : Agree(R)' /\ OnlyReady(Q, R, Append(Q[threadReadyList], t))
    BY <2>5
  <2>7. \A L \in WaitList : R[L] = Q[L]
    BY <2>4, <2>6, WaitListsKept
  <2>8. \A d \in Ctx : Queued(R, d)' <=> Queued(Q, d)
    BY <2>7, ListFacts DEF Queued
  <2>9. FlagInv'
    <3>1. \A u \in Thread : Busy(u)' <=> Busy(u)
      BY <2>2 DEF Busy
    <3>2. \A d \in Ctx : Off(d)' <=> Off(d)
      BY <1>2, <2>2 DEF Off
    <3> QED BY <1>2, <1>3, <2>2, <2>5, <3>1, <3>2 DEF FlagInv
  <2>10. \A u \in Thread : status'[u] = "blocked" <=> status[u] = "blocked"
    BY <2>3, <2>5
  <2>11. ASSUME NEW d \in Ctx PROVE Place(R, d)'
    <3>1. Place(Q, d) /\ ThreadOf(d) \in Thread /\ pc[d] # "signalWake"
      BY <1>2, <1>3, CtxFacts, OthersFacts DEF Placed
    <3>2. status'[ThreadOf(d)] = "blocked" <=> status[ThreadOf(d)] = "blocked"
      BY <2>10, <3>1
    <3> QED BY <1>2, <2>2, <2>8, <3>1, <3>2 DEF Place
  <2>12. \A u \in Thread : status'[u] = "blocked" => Busy(u)'
    BY <1>3, <2>2, <2>10 DEF Placed, Busy
  <2>13. /\ \A M \in WaitList \ Condition : R[M] = <<>>
         /\ status'[cur'] = "running"
         /\ pc'[Task(Main)] = "boot"
    <3>1. status[cur] = "running" /\ cur \in Thread
      BY <1>3, CpuPlace DEF LockInv, TypeInv
    <3> QED BY <1>1, <1>2, <1>3, <2>2, <2>3, <2>5, <2>7, <3>1 DEF Placed
  <2>14. Placed(R)'
    BY <2>6, <2>11, <2>12, <2>13 DEF Placed
  <2>15. Served(R)'
    <3> SUFFICES ASSUME NEW w \in Level, R[CondOf(w)] # <<>>
                 PROVE  Work(w)' <= Cardinality(Ahead(R, w)')
      BY DEF Served
    <3>1. Work(w)' = Work(w) /\ R[CondOf(w)] = Q[CondOf(w)]
      BY <1>3, <2>7, ListFacts DEF Work
    <3>2. PICK A \in SUBSET Ctx : A = Ahead(Q, w) /\ Work(w) <= Cardinality(A)
      BY <1>3, <3>1 DEF Ahead, Served
    <3>3. PICK B \in SUBSET Ctx : B = Ahead(R, w)'
      BY DEF Ahead
    <3>4. A \subseteq B
      BY <2>2, <2>8, <3>2, <3>3 DEF Ahead
    <3> QED BY <3>1, <3>2, <3>3, <3>4, StaysServed
  <2> QED BY <2>9, <2>14, <2>15 DEF WaitInv, Settled
<1>5. CASE ~ \E t \in Thread : status[t] = "unborn"
  <2>1. /\ pc' = [pc EXCEPT ![c] = "idle"] /\ iflag' = [iflag EXCEPT ![cur] = TRUE]
        /\ UNCHANGED <<heap, status, cur, panic>>
    BY <1>1, <1>3, <1>5 DEF BootStep, Boot, Goto, schedVars
  <2>2. Own(c, "idle", "idle")
    BY <1>2, <1>3, <2>1 DEF Own, LockInv, TypeInv
  <2>3. thread[c] = NULL
    BY <1>2, <1>3 DEF FlagInv
  <2>4. FlagMove(c, "idle", "idle")
    BY <1>2, <2>1, <2>3 DEF FlagMove, Never, Waits, AcquireLabel
  <2>5. QuietMove(c, "idle", "idle")
    BY <1>2, <1>3, <1>5, <2>1 DEF QuietMove, Sleeps
  <2>6. RingMove(Q, c, "idle")
    BY <1>2, <1>3 DEF RingMove, Want, Signals
  <2>7. FlagInv' /\ Placed(Q)' /\ Served(Q)'
    BY <1>3, <2>2, <2>4, <2>5, <2>6, FlagStep, QuietPlaced, QuietServed
  <2> QED BY <2>7 DEF WaitInv, Settled
<1> QED BY <1>4, <1>5

-----------------------------------------------------------------------------
(* A step of c that leaves the lists and the statuses alone. *)
Calm(c, l1, r1) ==
  /\ UNCHANGED <<heap, status, cur, panic, thread>>
  /\ pc[c] \notin {"boot", "signalWake"} /\ l1 \notin Never \cup {"signalWake"}
  /\ ~ Sleeps(l1, r1) /\ (l1 = "idle" => r1 # "waitSchedule")
  /\ r1 = "waitSchedule" <=> ret[c] = "waitSchedule"
  /\ iflag' = [iflag EXCEPT ![cur] = (l1 = "idle")]
  /\ Waits(l1, r1) => ~ oldStatus'[c]
  /\ \A d \in Ctx \ {c} : oldStatus'[d] = oldStatus[d]

(* A calm step that moves the ring as described keeps all of it. *)
LEMMA CalmSettles ==
  ASSUME LockInv, NEW Q, Settled(Q), NEW c \in Ctx, Alone(c), NEW l1, NEW r1,
         Own(c, l1, r1), Calm(c, l1, r1), RingMove(Q, c, l1)
  PROVE  WaitInv'
<1>1. FlagInv /\ Placed(Q) /\ Served(Q)
  BY DEF Settled
<1>2. \A d \in Ctx : pc'[d] = IF d = c THEN l1 ELSE pc[d]
  BY OwnFacts
<1>3. thread[c] = NULL
  BY <1>1 DEF FlagInv, Calm
<1>4. FlagMove(c, l1, r1)
  BY <1>3 DEF Calm, FlagMove
<1>5. pc'[Task(Main)] # "boot" => \A t \in Thread : status[t] # "unborn"
  <2>1. Task(Main) \in Ctx
    BY CtxFacts, ThreadAssumption
  <2> QED BY <1>1, <1>2, <2>1 DEF Placed, Calm
<1>6. QuietMove(c, l1, r1)
  BY <1>5 DEF Calm, QuietMove
<1>7. FlagInv' /\ Placed(Q)' /\ Served(Q)'
  BY <1>1, <1>4, <1>6, FlagStep, QuietPlaced, QuietServed
<1> QED BY <1>7 DEF WaitInv, Settled

(* A context that acts is alone, in the middle of its call. *)
LEMMA Acting ==
  ASSUME LockInv, NEW Q, Settled(Q), NEW c \in Ctx, At(c, pc[c]), pc[c] # "idle"
  PROVE  /\ Alone(c) /\ ThreadOf(c) = cur /\ iflag = [iflag EXCEPT ![cur] = FALSE]
         /\ FlagInv /\ Placed(Q) /\ Served(Q) /\ TypeInv
         /\ pc[c] \notin Never /\ (Waits(pc[c], ret[c]) => ~ oldStatus[c])
         /\ pc[c] # "signalWake" => thread[c] = NULL
         /\ ret = [ret EXCEPT ![c] = ret[c]]
         /\ Control(Loop(c), pc[c], ret[c], back[c]) /\ lk[c] = ioqLock /\ ioqLock \in Lock
<1>1. FlagInv /\ Placed(Q) /\ Served(Q) /\ TypeInv /\ ThreadOf(c) = cur
  BY DEF Settled, LockInv, At
<1>2. Alone(c) /\ ~ iflag[cur]
  BY <1>1, AloneFacts
<1>3. iflag = [iflag EXCEPT ![cur] = FALSE] /\ ret = [ret EXCEPT ![c] = ret[c]]
  BY <1>1, <1>2 DEF TypeInv
<1> QED BY <1>1, <1>2, <1>3, ActsFacts DEF FlagInv

(* Nobody else is inside: a lockAcquire finds the lock free. *)
LEMMA AcquireSettles ==
  ASSUME LockInv, NEW Q, Settled(Q), NEW c \in Ctx, lockAcquire(c),
         UNCHANGED <<condVars, ioqVars>>
  PROVE  WaitInv'
<1>1. At(c, pc[c]) /\ pc[c] \in AcquireLabel
  BY DEF lockAcquire, AcquireTry, AcquireSpin, AcquireAppend, AcquireRecheck, AcquireRemove,
         AcquireUnspin, AcquireBlock, At, AcquireLabel
<1>2. /\ Alone(c) /\ iflag = [iflag EXCEPT ![cur] = FALSE] /\ pc[c] \notin Never
      /\ Waits(pc[c], ret[c]) => ~ oldStatus[c]
      /\ ret = [ret EXCEPT ![c] = ret[c]] /\ lk[c] = ioqLock
      /\ Control(Loop(c), pc[c], ret[c], back[c])
  BY <1>1, Acting DEF AcquireLabel
<1>3. pc[c] = "lockAcquire"
  BY <1>1, <1>2 DEF AcquireLabel, Never
<1>4. AcquireTry(c)
  BY <1>3 DEF lockAcquire, AcquireSpin, AcquireAppend, AcquireRecheck, AcquireRemove,
         AcquireUnspin, AcquireBlock, At
<1>5. holder[ioqLock] = NULL
  <2>1. \A d \in Ctx : pc[d] \notin Inside
    BY <1>2, <1>3, OthersFacts DEF Inside
  <2> QED BY <2>1 DEF LockInv, HolderOK
<1>6. /\ pc' = [pc EXCEPT ![c] = ret[c]]
      /\ UNCHANGED <<heap, status, cur, panic, iflag, ret, thread, oldStatus, head, tail>>
  BY <1>2, <1>4, <1>5 DEF AcquireTry, Cas, Goto, schedVars, condVars, ioqVars, ringVars
<1>7. ret[c] \in {"waitReturn", "getLoop", "putLoop"}
  BY <1>2, <1>3 DEF Control, AcquireLabel, Loop
<1>8. Own(c, ret[c], ret[c])
  BY <1>2, <1>6 DEF Own
<1>9. Waits(ret[c], ret[c]) => Waits(pc[c], ret[c])
  BY <1>3, <1>7 DEF Waits, AcquireLabel
<1>10. Calm(c, ret[c], ret[c])
  BY <1>2, <1>3, <1>6, <1>7, <1>9 DEF Calm, Never, Sleeps
<1>11. RingMove(Q, c, ret[c])
  BY <1>3, <1>6, <1>7 DEF RingMove, Want, Signals, Length
<1> QED BY <1>2, <1>8, <1>10, <1>11, CalmSettles

(* Nobody waits on the list of the lock. *)
LEMMA ReleaseSettles ==
  ASSUME LockInv, NEW Q, Settled(Q), NEW c \in Ctx, lockRelease(c),
         UNCHANGED <<condVars, ioqVars>>
  PROVE  WaitInv'
<1>1. At(c, pc[c]) /\ pc[c] \in ReleaseLabel
  BY DEF lockRelease, ReleaseClear, ReleaseSpin, ReleasePop, ReleaseUnspin, ReleaseWake, At,
         ReleaseLabel
<1>2. /\ Alone(c) /\ iflag = [iflag EXCEPT ![cur] = FALSE] /\ pc[c] \notin Never
      /\ Waits(pc[c], ret[c]) => ~ oldStatus[c]
      /\ ret = [ret EXCEPT ![c] = ret[c]] /\ lk[c] = ioqLock /\ thread[c] = NULL
      /\ Control(Loop(c), pc[c], ret[c], back[c]) /\ ThreadOf(c) = cur /\ Placed(Q)
  BY <1>1, Acting DEF ReleaseLabel
<1>3. UNCHANGED <<iflag, ret, oldStatus, head, tail>> /\ Length' = Length
  BY DEF lockRelease, ReleaseClear, ReleaseSpin, ReleasePop, ReleaseUnspin, ReleaseWake,
         condVars, ioqVars, ringVars, Length
<1>4. ret[c] \in {"waitSchedule", "return"}
  BY <1>1, <1>2 DEF Control
<1>5. ASSUME NEW l1 \in {"releaseSpin", "releasePop", "releaseUnspin", "waitSchedule",
                          "return"},
             pc' = [pc EXCEPT ![c] = l1], UNCHANGED <<heap, status, cur, panic, thread>>
      PROVE  WaitInv'
  <2>1. Own(c, l1, ret[c])
    BY <1>2, <1>3, <1>5 DEF Own
  <2>2. Waits(l1, ret[c]) => Waits(pc[c], ret[c])
    BY <1>4, <1>5 DEF Waits, AcquireLabel
  <2>3. Calm(c, l1, ret[c])
    BY <1>1, <1>2, <1>3, <1>5, <2>2 DEF Calm, Never, Sleeps, ReleaseLabel
  <2>4. RingMove(Q, c, l1)
    BY <1>1, <1>3 DEF RingMove, Want, Signals, ReleaseLabel
  <2> QED BY <1>2, <2>1, <2>3, <2>4, CalmSettles
<1>6. CASE ReleaseClear(c)
  <2>1. holder[lk[c]] = cur
    BY <1>2, <1>6, ActsFacts DEF ReleaseClear, At, Inside
  <2>2. /\ pc' = [pc EXCEPT ![c] = "releaseSpin"]
        /\ UNCHANGED <<heap, status, cur, panic, thread>>
    BY <1>6, <2>1 DEF ReleaseClear, Goto
  <2> QED BY <1>5, <2>2
<1>7. CASE ReleaseSpin(c)
  <2>1. /\ pc' = [pc EXCEPT ![c] = "releasePop"]
        /\ UNCHANGED <<heap, status, cur, panic, thread>>
    BY <1>7 DEF ReleaseSpin, SpinAcquire, Goto, schedVars
  <2> QED BY <1>5, <2>1
<1>8. CASE ReleasePop(c)
  <2>1. ListEmpty(heap, ioqLock)
    <3>1. Lists(heap, Q) /\ Q[ioqLock] = <<>> /\ ioqLock \in ListId
      BY <1>2, ListFacts DEF Placed, Agree
    <3> QED BY <3>1, TestsOfLists
  <2>2. /\ pc' = [pc EXCEPT ![c] = "releaseUnspin"]
        /\ UNCHANGED <<heap, status, cur, panic, thread>>
    BY <1>2, <1>8, <2>1 DEF ReleasePop, Goto
  <2> QED BY <1>5, <2>2
<1>9. CASE ReleaseUnspin(c)
  <2>1. pc' = [pc EXCEPT ![c] = ret[c]] /\ UNCHANGED <<heap, status, cur, panic, thread>>
    BY <1>2, <1>9 DEF ReleaseUnspin, Goto, schedVars
  <2> QED BY <1>4, <1>5, <2>1
<1>10. ~ ReleaseWake(c)
  BY <1>2 DEF ReleaseWake, At, Never
<1> QED BY <1>6, <1>7, <1>8, <1>9, <1>10 DEF lockRelease

(* The end of conditionWait: the flag gets its old value, which was off. *)
LEMMA ReturnSettles ==
  ASSUME LockInv, NEW Q, Settled(Q), NEW c \in Ctx, WaitReturn(c), UNCHANGED ioqVars
  PROVE  WaitInv'
<1>1. At(c, pc[c]) /\ pc[c] = "waitReturn"
  BY DEF WaitReturn, At
<1>2. /\ Alone(c)
      /\ Waits(pc[c], ret[c]) => ~ oldStatus[c]
      /\ ret = [ret EXCEPT ![c] = ret[c]]
      /\ Control(Loop(c), pc[c], ret[c], back[c])
  BY <1>1, Acting
<1>3. ret[c] = "waitReturn" /\ back[c] = Loop(c) /\ Loop(c) \in {"getLoop", "putLoop"}
  BY <1>1, <1>2 DEF Control, Loop
<1>4. /\ pc' = [pc EXCEPT ![c] = Loop(c)] /\ iflag' = [iflag EXCEPT ![cur] = oldStatus[c]]
      /\ UNCHANGED <<heap, status, cur, panic, ret, thread, oldStatus, head, tail>>
  BY <1>3 DEF WaitReturn, Goto, schedVars, condVars, ioqVars, ringVars
<1>5. ~ oldStatus[c] /\ oldStatus \in [Ctx -> BOOLEAN]
  BY <1>1, <1>2, <1>3 DEF Waits, LockInv, TypeInv
<1>6. iflag' = [iflag EXCEPT ![cur] = FALSE]
  BY <1>4, <1>5
<1>7. Own(c, Loop(c), ret[c])
  BY <1>2, <1>4 DEF Own
<1>8. Calm(c, Loop(c), ret[c])
  BY <1>1, <1>3, <1>4, <1>6 DEF Calm, Never, Sleeps, Waits, AcquireLabel
<1>9. RingMove(Q, c, Loop(c))
  BY <1>1, <1>3, <1>4 DEF RingMove, Want, Signals, Length
<1> QED BY <1>2, <1>7, <1>8, <1>9, CalmSettles

(* threadUnblock in conditionSignal: the sleeper becomes ready. *)
LEMMA WakeSettles ==
  ASSUME LockInv, NEW Q, Settled(Q), NEW c \in Ctx, SignalWake(c), UNCHANGED ioqVars
  PROVE  WaitInv'
<1>1. At(c, pc[c]) /\ pc[c] = "signalWake"
  BY DEF SignalWake, At
<1>2. /\ Alone(c) /\ iflag = [iflag EXCEPT ![cur] = FALSE] /\ FlagInv /\ Placed(Q)
      /\ Served(Q)
      /\ ret = [ret EXCEPT ![c] = ret[c]] /\ TypeInv
      /\ Control(Loop(c), pc[c], ret[c], back[c])
  BY <1>1, Acting
<1>3. back[c] = "release" /\ ret[c] \in {"waitReturn", "getLoop", "putLoop"}
  BY <1>1, <1>2 DEF Control, Loop
<1>4. /\ pc' = [pc EXCEPT ![c] = "release"] /\ threadUnblock(thread[c])
      /\ thread' = [thread EXCEPT ![c] = NULL]
      /\ UNCHANGED <<iflag, ret, oldStatus, head, tail>>
  BY <1>3 DEF SignalWake, Goto, condVars, ioqVars, ringVars
<1>5. Own(c, "release", ret[c]) /\ Length' = Length
  BY <1>2, <1>4 DEF Own, Length
<1>6. PICK R : Placed(R)' /\ Served(R)'
  BY <1>1, <1>2, <1>3, <1>4, <1>5, WakeStep
<1>7. FlagMove(c, "release", ret[c])
  <2>1. cur' = cur
    BY <1>4 DEF threadUnblock
  <2>2. thread \in [Ctx -> Thread \cup {NULL}]
    BY <1>2 DEF TypeInv
  <2> QED BY <1>2, <1>3, <1>4, <2>1, <2>2 DEF FlagMove, Never, Waits, AcquireLabel
<1>8. FlagInv'
  BY <1>2, <1>5, <1>7, FlagStep
<1> QED BY <1>6, <1>8 DEF WaitInv, Settled

-----------------------------------------------------------------------------
(* A reader that finds the ring empty, or a handler that finds it full,    *)
(* waits; else the character or the slot is its own.                       *)
LEMMA LoopSettles ==
  ASSUME LockInv, NEW Q, Settled(Q), NEW c \in Ctx, GetLoop(c) \/ PutLoop(c)
  PROVE  WaitInv'
<1>1. At(c, pc[c]) /\ pc[c] \in {"getLoop", "putLoop"}
  BY DEF GetLoop, PutLoop, At
<1>2. /\ Alone(c) /\ iflag = [iflag EXCEPT ![cur] = FALSE] /\ FlagInv /\ Placed(Q)
      /\ Served(Q)
      /\ ret = [ret EXCEPT ![c] = ret[c]] /\ TypeInv /\ thread[c] = NULL
      /\ Control(Loop(c), pc[c], ret[c], back[c])
  BY <1>1, Acting
<1>3. pc[c] = Loop(c) /\ ret[c] \in {"waitReturn", Loop(c)} /\ c[2] \in Level
  BY <1>1, <1>2, ListFacts DEF Control, GetLabel, PutLabel
<1>4. /\ GetLoop(c) => c[2] # "irq" /\ CondOf(c[2]) = condNotEmpty
      /\ PutLoop(c) => c[2] = "irq" /\ CondOf(c[2]) = condNotFull
  BY <1>3 DEF GetLoop, PutLoop, At, Loop, CondOf
<1>5. UNCHANGED <<head, tail>> /\ Length' = Length
  BY DEF GetLoop, PutLoop, ringVars, Length
<1>6. CASE conditionWait(c, CondOf(c[2]), Loop(c)) /\ Work(c[2]) = 0
  <2>1. /\ oldStatus' = [oldStatus EXCEPT ![c] = iflag[cur]]
        /\ iflag' = [iflag EXCEPT ![cur] = FALSE]
        /\ heap' = ListAppend(heap, CondOf(c[2]), cur)
        /\ status' = [status EXCEPT ![cur] = "blocked"] /\ UNCHANGED <<cur, panic, thread>>
        /\ Own(c, "lockRelease", "waitSchedule")
    BY <1>6 DEF conditionWait, Call, Goto, Own
  <2>2. PICK R : Placed(R)' /\ Served(R)'
    <3>1. pc[c] \in Want \ Signals /\ ret[c] # "waitSchedule"
      BY <1>1, <1>3 DEF Want, Signals
    <3> QED BY <1>2, <1>5, <1>6, <2>1, <3>1, QueueStep
  <2>3. FlagMove(c, "lockRelease", "waitSchedule")
    <3>1. ~ iflag[cur] /\ oldStatus \in [Ctx -> BOOLEAN] /\ iflag \in [Thread -> BOOLEAN]
          /\ cur \in Thread
      BY <1>1, <1>2, AloneFacts DEF TypeInv, At
    <3>2. ~ oldStatus'[c] /\ \A d \in Ctx \ {c} : oldStatus'[d] = oldStatus[d]
      BY <2>1, <3>1
    <3> QED BY <1>2, <2>1, <3>2 DEF FlagMove, Never
  <2>4. FlagInv'
    BY <1>2, <2>1, <2>3, FlagStep
  <2> QED BY <2>2, <2>4 DEF WaitInv, Settled
<1>7. ASSUME NEW l1 \in {"getAdvance", "putAdvance"}, pc' = [pc EXCEPT ![c] = l1],
             UNCHANGED <<heap, status, cur, panic, iflag, ret, thread, oldStatus>>
      PROVE  WaitInv'
  <2>1. Own(c, l1, ret[c])
    BY <1>2, <1>7 DEF Own
  <2>2. ret[c] # "waitSchedule"
    BY <1>1, <1>3
  <2>3. Calm(c, l1, ret[c])
    BY <1>1, <1>2, <1>7, <2>2 DEF Calm, Never, Sleeps, Waits, AcquireLabel
  <2>4. RingMove(Q, c, l1)
    BY <1>1, <1>5 DEF RingMove, Want, Signals
  <2> QED BY <1>2, <2>1, <2>3, <2>4, CalmSettles
<1>8. CASE GetLoop(c)
  <2>1. CASE Empty
    <3>1. conditionWait(c, CondOf(c[2]), Loop(c)) /\ Work(c[2]) = 0
      BY <1>3, <1>4, <1>8, <2>1, LengthFacts DEF GetLoop, At, Work
    <3> QED BY <1>6, <3>1
  <2>2. CASE ~ Empty
    <3>1. /\ pc' = [pc EXCEPT ![c] = "getAdvance"]
          /\ UNCHANGED <<heap, status, cur, panic, iflag, ret, thread, oldStatus>>
      BY <1>8, <2>2 DEF GetLoop, Goto, schedVars, condVars
    <3> QED BY <1>7, <3>1
  <2> QED BY <2>1, <2>2
<1>9. CASE PutLoop(c)
  <2>1. CASE Full
    <3>1. conditionWait(c, CondOf(c[2]), Loop(c)) /\ Work(c[2]) = 0
      BY <1>3, <1>4, <1>9, <2>1, LengthFacts DEF PutLoop, At, Work
    <3> QED BY <1>6, <3>1
  <2>2. CASE ~ Full
    <3>1. /\ pc' = [pc EXCEPT ![c] = "putAdvance"]
          /\ UNCHANGED <<heap, status, cur, panic, iflag, ret, thread, oldStatus>>
      BY <1>9, <2>2 DEF PutLoop, Goto, schedVars, condVars
    <3> QED BY <1>7, <3>1
  <2> QED BY <2>1, <2>2
<1> QED BY <1>8, <1>9

(* ioqueueGetchar takes one character out, ioqueuePutchar puts one in. *)
LEMMA AdvanceLength ==
  ASSUME LockInv, NEW c \in Ctx, GetAdvance(c) \/ PutAdvance(c)
  PROVE  \E l1 \in {"getSignal", "putSignal"} :
           /\ pc' = [pc EXCEPT ![c] = l1]
           /\ Length' = IF c[2] = "irq" THEN Length + 1 ELSE Length - 1
           /\ ch' = [ch EXCEPT ![c] = NULL]
           /\ c[2] = "irq" => ch[c] \in Char
<1>1. Control(Loop(c), pc[c], ret[c], back[c])
  BY ActsFacts
<1>2. PICK h, t, n : h = head /\ t = tail /\ n = Dist(head, tail)
  OBVIOUS
<1>3. /\ h \in 0 .. BUFSIZE - 1 /\ t \in 0 .. BUFSIZE - 1 /\ Length = n
  BY <1>2, ContentsView DEF LockInv, TypeInv
<1>4. CASE GetAdvance(c)
  <2>1. /\ pc[c] = "getAdvance" /\ pc' = [pc EXCEPT ![c] = "getSignal"]
        /\ head' = nextPos(h) /\ tail' = t /\ ch' = [ch EXCEPT ![c] = NULL]
    BY <1>2, <1>4 DEF GetAdvance, At, Goto
  <2>2. c[2] # "irq" /\ t # h
    BY <1>1, <1>2, <2>1 DEF Control, GetLabel, Loop, LockInv, RingOK, Empty
  <2>3. Length' = Dist(nextPos(h), t)
    BY <2>1 DEF Length, Dist
  <2>4. Dist(nextPos(h), t) = n - 1
    BY <1>2, <1>3, <2>2, RingFacts
  <2> QED BY <1>3, <2>1, <2>2, <2>3, <2>4
<1>5. CASE PutAdvance(c)
  <2>1. /\ pc[c] = "putAdvance" /\ pc' = [pc EXCEPT ![c] = "putSignal"]
        /\ tail' = nextPos(t) /\ head' = h /\ ch' = [ch EXCEPT ![c] = NULL]
    BY <1>2, <1>5 DEF PutAdvance, At, Goto
  <2>2. c[2] = "irq" /\ nextPos(t) # h /\ ch[c] \in Char
    BY <1>1, <1>2, <2>1 DEF Control, PutLabel, Loop, LockInv, RingOK, Full, Pending
  <2>3. Length' = Dist(h, nextPos(t))
    BY <2>1 DEF Length, Dist
  <2>4. Dist(h, nextPos(t)) = n + 1
    BY <1>2, <1>3, <2>2, RingFacts
  <2> QED BY <1>3, <2>1, <2>2, <2>3, <2>4
<1> QED BY <1>4, <1>5

(* One who was ahead has taken his character or slot, and is now about to  *)
(* signal that there is a slot or a character for the others.              *)
LEMMA AdvanceSettles ==
  ASSUME LockInv, NEW Q, Settled(Q), NEW c \in Ctx, GetAdvance(c) \/ PutAdvance(c)
  PROVE  WaitInv'
<1>1. At(c, pc[c]) /\ pc[c] \in {"getAdvance", "putAdvance"}
  BY DEF GetAdvance, PutAdvance, At
<1>2. /\ Alone(c) /\ iflag = [iflag EXCEPT ![cur] = FALSE]
      /\ ret = [ret EXCEPT ![c] = ret[c]]
      /\ Control(Loop(c), pc[c], ret[c], back[c])
  BY <1>1, Acting
<1>3. ret[c] \in {"waitReturn", "getLoop", "putLoop"}
  BY <1>1, <1>2 DEF Control, GetLabel, PutLabel, Loop
<1>4. UNCHANGED <<heap, status, cur, panic, iflag, ret, thread, oldStatus>>
  BY DEF GetAdvance, PutAdvance, schedVars, condVars
<1>5. PICK l1 \in {"getSignal", "putSignal"} :
        /\ pc' = [pc EXCEPT ![c] = l1]
        /\ Length' = IF c[2] = "irq" THEN Length + 1 ELSE Length - 1
  BY AdvanceLength
<1>6. Own(c, l1, ret[c])
  BY <1>2, <1>4, <1>5 DEF Own
<1>7. Calm(c, l1, ret[c])
  BY <1>1, <1>2, <1>3, <1>4 DEF Calm, Never, Sleeps, Waits, AcquireLabel
<1>8. RingMove(Q, c, l1)
  BY <1>1, <1>5 DEF RingMove, Want, Signals
<1> QED BY <1>2, <1>6, <1>7, <1>8, CalmSettles

(* conditionSignal: the longest waiting sleeper, if any, leaves its list. *)
LEMMA SignalSettles ==
  ASSUME LockInv, NEW Q, Settled(Q), NEW c \in Ctx, GetSignal(c) \/ PutSignal(c)
  PROVE  WaitInv'
<1>1. At(c, pc[c]) /\ pc[c] \in Signals
  BY DEF GetSignal, PutSignal, At, Signals
<1>2. /\ Alone(c) /\ iflag = [iflag EXCEPT ![cur] = FALSE] /\ FlagInv /\ Placed(Q)
      /\ Served(Q)
      /\ ret = [ret EXCEPT ![c] = ret[c]] /\ TypeInv /\ thread[c] = NULL
      /\ Control(Loop(c), pc[c], ret[c], back[c])
  BY <1>1, Acting DEF Signals
<1>3. ret[c] \in {"waitReturn", "getLoop", "putLoop"} /\ pc[c] \in Signals \ Want
  BY <1>1, <1>2 DEF Control, GetLabel, PutLabel, Loop, Signals, Want
<1>4. PICK v \in Level : /\ Level = {v, c[2]} /\ v # c[2]
                        /\ conditionSignal(c, CondOf(v), "release")
  <2>1. Level = {"task", "irq"} /\ c[2] \in Level
    BY ListFacts
  <2>2. CASE GetSignal(c)
    <3>1. c[2] # "irq" /\ conditionSignal(c, CondOf("irq"), "release")
      BY <1>2, <2>2 DEF Control, GetLabel, Loop, GetSignal, At, CondOf
    <3> QED BY <2>1, <3>1
  <2>3. CASE PutSignal(c)
    <3>1. c[2] = "irq" /\ conditionSignal(c, CondOf("task"), "release")
      BY <1>2, <2>3 DEF Control, PutLabel, Loop, PutSignal, At, CondOf
    <3> QED BY <2>1, <3>1
  <2> QED BY <2>2, <2>3
<1>5. UNCHANGED <<head, tail, status, cur, iflag, ret, oldStatus>> /\ Length' = Length
  BY <1>4 DEF GetSignal, PutSignal, ioqVars, ringVars, Length, conditionSignal
<1>6. Lists(heap, Q) /\ CondOf(v) \in ListId /\ Q \in [ListId -> Seq(Thread)]
  BY <1>2, ListFacts DEF Placed, Agree, Lists
<1>7. CASE Q[CondOf(v)] = <<>>
  <2>1. ListEmpty(heap, CondOf(v))
    BY <1>6, <1>7, TestsOfLists
  <2>2. pc' = [pc EXCEPT ![c] = "release"] /\ UNCHANGED <<heap, panic, thread>>
    BY <1>4, <2>1 DEF conditionSignal, Goto
  <2>3. Own(c, "release", ret[c])
    BY <1>2, <1>5, <2>2 DEF Own
  <2>4. Calm(c, "release", ret[c])
    BY <1>1, <1>2, <1>3, <1>5, <2>2 DEF Calm, Never, Sleeps, Waits, AcquireLabel, Signals
  <2>5. RingMove(Q, c, "release")
    BY <1>3, <1>4, <1>5, <1>7 DEF RingMove
  <2> QED BY <1>2, <2>3, <2>4, <2>5, CalmSettles
<1>8. CASE Q[CondOf(v)] # <<>>
  <2>1. Len(Q[CondOf(v)]) # 0
    BY <1>6, <1>8, EmptySeq
  <2>2. ~ ListEmpty(heap, CondOf(v)) /\ ListFirst(heap, CondOf(v)) \in Thread
    <3>1. PICK L \in ListId : L = CondOf(v) /\ Len(Q[L]) # 0
      BY <1>6, <2>1
    <3>2. ListFirst(heap, L) = Q[L][1] /\ Q[L][1] \in Thread
      BY <1>6, <3>1, PopLists
    <3>3. ~ ListEmpty(heap, L)
      BY <1>6, <3>1, TestsOfLists
    <3> QED BY <3>1, <3>2, <3>3
  <2>3. /\ pc' = [pc EXCEPT ![c] = "signalWake"] /\ heap' = ListPop(heap, CondOf(v))
        /\ thread' = [thread EXCEPT ![c] = ListFirst(heap, CondOf(v))] /\ panic' = panic
    BY <1>4, <2>2 DEF conditionSignal, Goto
  <2>4. Own(c, "signalWake", ret[c])
    BY <1>2, <1>5, <2>3 DEF Own
  <2>5. PICK R : Placed(R)' /\ Served(R)'
    BY <1>2, <1>3, <1>4, <1>5, <1>8, <2>3, <2>4, PopStep
  <2>6. FlagMove(c, "signalWake", ret[c])
    <3>1. \A d \in Ctx \ {c} : oldStatus'[d] = oldStatus[d] /\ thread'[d] = thread[d]
      BY <1>2, <1>5, <2>3 DEF TypeInv
    <3> QED BY <1>2, <1>3, <1>5, <3>1 DEF FlagMove, Never, Waits, AcquireLabel
  <2>7. FlagInv'
    BY <1>2, <2>4, <2>6, FlagStep
  <2> QED BY <2>5, <2>7 DEF WaitInv, Settled
<1> QED BY <1>7, <1>8

(* The release of the lock and the return, which turns the flag on again. *)
LEMMA EndSettles ==
  ASSUME LockInv, NEW Q, Settled(Q), NEW c \in Ctx, Release(c) \/ Return(c)
  PROVE  WaitInv'
<1>1. At(c, pc[c]) /\ pc[c] \in {"release", "return"}
  BY DEF Release, Return, At
<1>2. /\ Alone(c) /\ iflag = [iflag EXCEPT ![cur] = FALSE] /\ TypeInv
      /\ Control(Loop(c), pc[c], ret[c], back[c])
  BY <1>1, Acting
<1>3. ret[c] # "waitSchedule"
  BY <1>1, <1>2 DEF Control, Loop
<1>4. UNCHANGED <<heap, status, cur, panic, thread>> /\ Length' = Length
  BY DEF Release, Return, schedVars, ioqVars, ringVars, Length
<1>5. PICK l1 \in {"lockRelease", "idle"}, r1 \in {"return", "idle"} :
        /\ Own(c, l1, r1) /\ iflag' = [iflag EXCEPT ![cur] = (l1 = "idle")]
        /\ \A d \in Ctx \ {c} : oldStatus'[d] = oldStatus[d]
  <2>1. CASE Release(c)
    <3>1. Own(c, "lockRelease", "return") /\ UNCHANGED <<iflag, oldStatus>>
      BY <2>1 DEF Release, Call, Goto, Own, condVars
    <3> QED BY <1>2, <3>1
  <2>2. CASE Return(c)
    <3>1. Own(c, "idle", "idle") /\ iflag' = [iflag EXCEPT ![cur] = TRUE]
          /\ oldStatus' = [oldStatus EXCEPT ![c] = TRUE]
      BY <2>2 DEF Return, Goto, Own
    <3> QED BY <1>2, <3>1 DEF TypeInv
  <2> QED BY <2>1, <2>2
<1>6. Calm(c, l1, r1)
  BY <1>1, <1>3, <1>4, <1>5 DEF Calm, Never, Sleeps, Waits, AcquireLabel
<1>7. RingMove(Q, c, l1)
  BY <1>1, <1>4 DEF RingMove, Want, Signals
<1> QED BY <1>2, <1>5, <1>6, <1>7, CalmSettles

(* A call begins in a thread that was not busy. *)
LEMMA BeginSettles ==
  ASSUME LockInv, NEW Q, Settled(Q), NEW c \in Ctx, NEW r1 \in {"getLoop", "putLoop"},
         ThreadOf(c) = cur, ~ Busy(cur), Own(c, "lockAcquire", r1),
         iflag' = [iflag EXCEPT ![cur] = FALSE],
         UNCHANGED <<heap, status, cur, panic, thread, oldStatus, head, tail>>
  PROVE  WaitInv'
<1>1. ASSUME NEW d \in Ctx, ThreadOf(d) = cur PROVE pc[d] = "idle" /\ ret[d] = "idle"
  <2>1. pc[d] = "idle"
    BY <1>1, CtxFacts DEF Busy
  <2> QED BY <2>1, ActsFacts DEF Control
<1>2. Alone(c)
  BY <1>1 DEF Alone, Settled, FlagInv, Off
<1>3. Calm(c, "lockAcquire", r1)
  BY <1>1 DEF Calm, Never, Sleeps, Waits
<1>4. RingMove(Q, c, "lockAcquire")
  BY <1>1 DEF RingMove, Want, Signals, Length
<1> QED BY <1>2, <1>3, <1>4, CalmSettles

(* A key is pressed, or a process reads; neither interrupts a call. *)
LEMMA CallSettles ==
  ASSUME OnlyProcesses, LockInv, NEW Q, Settled(Q),
         KeyPress \/ \E t \in Consumer : Getchar(t)
  PROVE  WaitInv'
<1>1. CASE KeyPress
  <2>1. PICK c \in Ctx : c = Irq(cur) /\ ThreadOf(c) = cur
    BY CtxFacts DEF LockInv, TypeInv
  <2>2. ~ Busy(cur)
    BY <1>1 DEF KeyPress, Settled, FlagInv, LockInv, TypeInv
  <2>3. /\ Own(c, "lockAcquire", "putLoop") /\ iflag' = [iflag EXCEPT ![cur] = FALSE]
        /\ UNCHANGED <<heap, status, cur, panic, thread, oldStatus, head, tail>>
    BY <1>1, <2>1 DEF KeyPress, Call, Goto, Own, schedVars, condVars, ringVars
  <2> QED BY <2>1, <2>2, <2>3, BeginSettles
<1>2. CASE \E t \in Consumer : Getchar(t)
  <2>1. PICK t \in Consumer : Getchar(t)
    BY <1>2
  <2>2. PICK c \in Ctx : c = Task(t) /\ ThreadOf(c) = t /\ c[2] = "task"
    BY CtxFacts, IoQueueAssumption
  <2>3. t = cur /\ t \in Process /\ pc[c] = "idle" /\ ~ InIrq(cur)
    BY <2>1, <2>2 DEF Getchar, At, OnlyProcesses, Active
  <2>4. ~ Busy(cur)
    BY <2>2, <2>3, CtxFacts DEF Busy, InIrq, Irq, LockInv, TypeInv
  <2>5. /\ Own(c, "lockAcquire", "getLoop") /\ iflag' = [iflag EXCEPT ![cur] = FALSE]
        /\ UNCHANGED <<heap, status, cur, panic, thread, oldStatus, head, tail>>
    BY <2>1, <2>2, <2>3 DEF Getchar, Call, Goto, Own, schedVars, condVars, ioqVars, ringVars
  <2> QED BY <2>2, <2>3, <2>4, <2>5, BeginSettles
<1> QED BY <1>1, <1>2

(* Every step of the kernel keeps what is settled. *)
LEMMA StepSettles ==
  ASSUME OnlyProcesses, LockInv, NEW Q, Settled(Q), Next
  PROVE  WaitInv'
<1>1. ASSUME NEW c \in Ctx, Step(c) PROVE WaitInv'
  BY <1>1, AcquireSettles, ReleaseSettles, WaitScheduleSettles, ReturnSettles, WakeSettles,
     LoopSettles, AdvanceSettles, SignalSettles, EndSettles DEF Step, SyncStep
<1> QED BY <1>1, BootSettles, TickSettles, CallSettles DEF Next

(* Once the kernel has stopped nothing happens any more. *)
LEMMA WaitNext ==
  ASSUME OnlyProcesses, LockInv, WaitInv, [Next]_vars
  PROVE  WaitInv'
<1>1. CASE panic # "none"
  <2>1. ~ Next
    BY <1>1 DEF Next, BootStep, Boot, Tick, Timer, TimerPreempts, KeyPress, Getchar,
       Step, SyncStep,
       lockAcquire, AcquireTry, AcquireSpin, AcquireAppend, AcquireRecheck, AcquireRemove,
       AcquireUnspin, AcquireBlock, lockRelease, ReleaseClear, ReleaseSpin, ReleasePop,
       ReleaseUnspin, ReleaseWake, WaitSchedule, WaitReturn, SignalWake, GetLoop, GetAdvance,
       GetSignal, PutLoop, PutAdvance, PutSignal, Release, Return, At
  <2>2. panic' = panic
    BY <2>1 DEF vars, schedVars
  <2> QED BY <1>1, <2>2 DEF WaitInv
<1>2. CASE panic = "none" /\ Next
  <2>1. PICK Q : Settled(Q)
    BY <1>2 DEF WaitInv
  <2> QED BY <1>2, <2>1, StepSettles
<1>3. CASE panic = "none" /\ UNCHANGED vars
  <2>1. PICK Q : Settled(Q)
    BY <1>3 DEF WaitInv
  <2>2. UNCHANGED <<heap, status, cur, panic, iflag, pc, ret, thread, oldStatus, head, tail>>
    BY <1>3 DEF vars, schedVars, callVars, condVars, ioqVars, ringVars
  <2>3. FlagInv'
    BY <2>1, <2>2 DEF Settled, FlagInv, Busy, Off
  <2>4. \A d \in Ctx : Queued(Q, d)' <=> Queued(Q, d)
    BY <2>2 DEF Queued
  <2>5. Placed(Q)'
    <3>1. Agree(Q)'
      BY <2>1, <2>2 DEF Settled, Placed, Agree
    <3>2. \A d \in Ctx : Place(Q, d)'
      BY <2>1, <2>2, <2>4 DEF Settled, Placed, Place
    <3> QED BY <2>1, <2>2, <3>1, <3>2 DEF Settled, Placed, Busy
  <2>6. Served(Q)'
    <3>1. \A v \in Level : Work(v)' = Work(v) /\ Ahead(Q, v)' = Ahead(Q, v)
      BY <2>2, <2>4 DEF Work, Length, Ahead
    <3> QED BY <2>1, <3>1 DEF Settled, Served
  <2> QED BY <2>3, <2>5, <2>6 DEF WaitInv, Settled
<1> QED BY <1>1, <1>2, <1>3

(* At boot every list is empty and the flag is on. *)
LEMMA WaitInit == Init => WaitInv
<1> SUFFICES ASSUME Init PROVE \E Q : Settled(Q)
  BY DEF WaitInv
<1>1. PICK Q : Q = [L \in ListId |-> <<>>] /\ Agree(Q)
  BY InitLists DEF Init, ThreadsInit
<1>2. /\ \A c \in Ctx : /\ pc[c] = IF c = Task(Main) THEN "boot" ELSE "idle"
                        /\ ret[c] = "idle" /\ thread[c] = NULL
      /\ cur = Main /\ Main \in Thread /\ Task(Main) \in Ctx
      /\ \A t \in Thread : /\ status[t] = IF t = Main THEN "running" ELSE "unborn"
                           /\ iflag[t] <=> t # Main
  BY CtxFacts, ThreadAssumption DEF Init, ThreadsInit, LocksInit, ConditionsInit, Task
<1>3. \A d \in Ctx : ~ Queued(Q, d)
  BY <1>1, EmptyMembers, ListFacts DEF Queued
<1>4. \A L \in WaitList : Q[L] = <<>>
  BY <1>1, ListFacts
<1>5. FlagInv
  <2>1. \A t \in Thread : iflag[t] <=> ~ Busy(t)
    <3> TAKE t \in Thread
    <3>1. /\ Task(t) \in Ctx /\ Irq(t) \in Ctx /\ Irq(t) # Task(Main)
          /\ Task(t) = Task(Main) <=> t = Main
      BY CtxFacts
    <3> QED BY <1>2, <3>1 DEF Busy
  <2>2. \A c \in Ctx : c = Task(Main) => ThreadOf(c) = cur
    BY <1>2, CtxFacts
  <2> QED BY <1>2, <2>1, <2>2 DEF FlagInv, Off, Never, Waits, AcquireLabel
<1>6. Placed(Q)
  <2>1. \A c \in Ctx : Place(Q, c)
    BY <1>2, <1>3 DEF Place, Sleeps
  <2> QED BY <1>1, <1>2, <1>4, <2>1 DEF Placed
<1>7. Served(Q)
  BY <1>4, ListFacts DEF Served
<1> QED BY <1>5, <1>6, <1>7 DEF Settled

(* Sleepers are queued where their contexts say, and are served. *)
LEMMA WaitInvariant == ASSUME OnlyProcesses PROVE Spec => []WaitInv
<1>1. LockInv /\ WaitInv /\ [Next]_vars => WaitInv'
  BY WaitNext
<1> QED BY <1>1, WaitInit, LockInvariant, PTL DEF Spec

-----------------------------------------------------------------------------
(* The keys that are pressed and not yet read. *)
LEMMA WaitingFacts == LockInv => Waiting = {t \in Thread : ch[Irq(t)] \in Char}
<1> SUFFICES ASSUME LockInv PROVE Waiting = {t \in Thread : ch[Irq(t)] \in Char}
  OBVIOUS
<1>1. ASSUME NEW t \in Thread PROVE t \in Waiting <=> ch[Irq(t)] \in Char
  <2>1. PICK c \in Ctx : c = Irq(t) /\ c[2] = "irq"
    BY CtxFacts
  <2>2. /\ ch[c] \in Char <=> Pending(pc[c], ret[c])
        /\ ch[c] \in Char \cup {NULL} /\ NULL \notin Char
        /\ pc[c] = "idle" => ret[c] = "idle"
    BY <2>1, ActsFacts, IoQueueAssumption DEF LockInv, RingOK, TypeInv, Control
  <2>3. pc[c] = "idle" => ~ Pending(pc[c], ret[c])
    BY <2>2 DEF Pending, AcquireLabel
  <2> QED BY <2>1, <2>2, <2>3 DEF Waiting
<1> QED BY <1>1 DEF Waiting

(* The threads can be counted. *)
LEMMA WaitingType ==
  ASSUME NEW W \in SUBSET Thread
  PROVE  IsFiniteSet(W) /\ Cardinality(W) \in Nat
BY ThreadAssumption, FS_Subset, FS_CardinalityType

(* A character passes from a handler into the ring and out of it. *)
LEMMA BoundedNext ==
  ASSUME LockInv, LockInv', Bounded, [Next]_vars
  PROVE  Bounded'
<1>1. PICK W \in SUBSET Thread : W = Waiting
  BY DEF Waiting
<1>2. PICK V \in SUBSET Thread : V = Waiting'
  BY WaitingFacts DEF Waiting
<1>3. W = {t \in Thread : ch[Irq(t)] \in Char} /\ V = {t \in Thread : ch'[Irq(t)] \in Char}
  <2>1. LockInv' => (Waiting = {t \in Thread : ch[Irq(t)] \in Char})'
    BY WaitingFacts, PTL
  <2> QED BY <1>1, <1>2, <2>1, WaitingFacts
<1>4. PICK n, k : n = Length /\ k = Outstanding /\ n \in Nat /\ k \in Nat
  BY LengthFacts, IoQueueAssumption
<1>5. IsFiniteSet(W) /\ Cardinality(W) \in Nat /\ IsFiniteSet(V) /\ Cardinality(V) \in Nat
  BY WaitingType
<1>6. n + Cardinality(W) <= k
  BY <1>1, <1>4 DEF Bounded
<1>7. ch \in [Ctx -> Char \cup {NULL}] /\ NULL \notin Char
  BY IoQueueAssumption DEF LockInv, TypeInv
<1>8. CASE Length' = Length /\ V = W
  BY <1>1, <1>2, <1>4, <1>6, <1>8, IoQueueAssumption DEF Bounded
<1>9. ASSUME NEW c \in Ctx, c[2] # "irq", NEW x, ch' = ch \/ ch' = [ch EXCEPT ![c] = x]
      PROVE  V = W
  <2>1. \A t \in Thread : ch'[Irq(t)] = ch[Irq(t)]
    BY <1>7, <1>9, CtxFacts
  <2> QED BY <1>3, <2>1
<1>10. CASE UNCHANGED <<head, tail, ch>>
  BY <1>3, <1>8, <1>10 DEF Length
<1>11. CASE KeyPress
  <2>1. PICK c \in Ctx : c = Irq(cur) /\ cur \in Thread
    BY CtxFacts DEF LockInv, TypeInv
  <2>2. PICK x \in Char : ch' = [ch EXCEPT ![c] = x]
    BY <1>11, <2>1 DEF KeyPress
  <2>3. n + Cardinality(W) < k /\ Length' = n
    BY <1>1, <1>4, <1>11 DEF KeyPress, Length, ringVars
  <2>4. V = W \cup {cur}
    <3>1. \A t \in Thread : ch'[Irq(t)] = IF t = cur THEN x ELSE ch[Irq(t)]
      BY <1>7, <2>1, <2>2, CtxFacts
    <3> QED BY <1>3, <2>1, <3>1
  <2>5. Cardinality(V) <= Cardinality(W) + 1
    BY <1>5, <2>4, FS_AddElement
  <2> QED BY <1>2, <1>4, <1>5, <2>3, <2>5, IoQueueAssumption DEF Bounded
<1>12. ASSUME NEW c \in Ctx, GetLoop(c) PROVE Bounded'
  <2>1. c[2] # "irq" /\ Length' = Length
    <3>1. pc[c] = "getLoop" /\ Control(Loop(c), pc[c], ret[c], back[c])
      BY <1>12, ActsFacts DEF GetLoop, At
    <3> QED BY <1>12, <3>1 DEF Control, GetLabel, Loop, GetLoop, ringVars, Length
  <2>2. ch' = ch \/ ch' = [ch EXCEPT ![c] = buf[head]]
    BY <1>12 DEF GetLoop
  <2> QED BY <1>8, <1>9, <2>1, <2>2
<1>13. ASSUME NEW c \in Ctx, GetAdvance(c) \/ PutAdvance(c) PROVE Bounded'
  <2>1. /\ Length' = IF c[2] = "irq" THEN n + 1 ELSE n - 1
        /\ ch' = [ch EXCEPT ![c] = NULL] /\ (c[2] = "irq" => ch[c] \in Char)
    BY <1>4, <1>13, AdvanceLength
  <2>2. CASE c[2] # "irq"
    <3>1. V = W /\ Length' = n - 1
      BY <1>9, <2>1, <2>2
    <3> QED BY <1>2, <1>4, <1>5, <1>6, <3>1, IoQueueAssumption DEF Bounded
  <2>3. CASE c[2] = "irq"
    <3>1. PICK u \in Thread : c = Irq(u) /\ ThreadOf(c) = u
      BY <2>3, CtxFacts
    <3>2. \A t \in Thread : ch'[Irq(t)] = IF t = u THEN NULL ELSE ch[Irq(t)]
      BY <1>7, <2>1, <3>1, CtxFacts
    <3>3. u \in W /\ V = W \ {u}
      BY <1>3, <1>7, <2>1, <2>3, <3>1, <3>2
    <3>4. Cardinality(V) = Cardinality(W) - 1
      BY <1>5, <3>3, FS_RemoveElement
    <3> QED BY <1>2, <1>4, <1>5, <1>6, <2>1, <2>3, <3>4, IoQueueAssumption DEF Bounded
  <2> QED BY <2>2, <2>3
<1>14. ASSUME NEW c \in Ctx, Step(c), ~ GetLoop(c), ~ GetAdvance(c), ~ PutAdvance(c)
       PROVE  UNCHANGED <<head, tail, ch>>
  BY <1>14 DEF Step, GetSignal, PutLoop, PutSignal, Release, Return, ioqVars, ringVars
<1>15. CASE ~ (KeyPress \/ \E c \in Ctx : Step(c))
  BY <1>10, <1>15 DEF Next, BootStep, Tick, Getchar, ioqVars, ringVars, vars
<1> QED BY <1>10, <1>11, <1>12, <1>13, <1>14, <1>15

(* Never more keys are on their way than the bound says. *)
LEMMA BoundedInvariant == Spec => []Bounded
<1>1. Init => Bounded
  <2> SUFFICES ASSUME Init PROVE Bounded
    OBVIOUS
  <2>1. LockInv /\ head = 0 /\ tail = 0 /\ ch = [c \in Ctx |-> NULL] /\ NULL \notin Char
    BY LockInit, IoQueueAssumption DEF Init
  <2>2. Length = 0
    BY <2>1, LengthFacts DEF Empty
  <2>3. Waiting = {}
    BY <2>1, WaitingFacts, CtxFacts
  <2>4. Cardinality(Waiting) = 0
    BY <2>3, FS_EmptySet
  <2> QED BY <2>2, <2>4, IoQueueAssumption DEF Bounded
<1>2. LockInv /\ LockInv' /\ Bounded /\ [Next]_vars => Bounded'
  BY BoundedNext
<1> QED BY <1>1, <1>2, LockInvariant, PTL DEF Spec

-----------------------------------------------------------------------------
(* A blocked thread is queued, or the waker has just taken it off. *)
LEMMA BlockedPlace ==
  ASSUME LockInv, FlagInv, NEW Q, Placed(Q), NEW t \in Thread, status[t] = "blocked"
  PROVE  \E c \in Ctx : /\ ThreadOf(c) = t /\ pc[c] # "idle"
                        /\ \/ Queued(Q, c)
                           \/ \E d \in Ctx : thread[d] = t /\ pc[d] = "signalWake"
<1>1. PICK c \in Ctx : ThreadOf(c) = t /\ pc[c] # "idle"
  BY CtxFacts DEF Placed, Busy
<1>2. CASE t = cur
  <2>1. Alone(c)
    BY <1>1, <1>2, AloneFacts
  <2> QED BY <1>1, <1>2, <2>1, CpuPlace
<1>3. CASE t # cur
  <2>1. Sleeps(pc[c], ret[c]) /\ Place(Q, c)
    BY <1>1, <1>3 DEF FlagInv, Off, Placed
  <2>2. NULL \notin Thread
    BY ThreadAssumption
  <2> QED BY <1>1, <2>1, <2>2 DEF Place, FlagInv
<1> QED BY <1>2, <1>3

(***************************************************************************)
(* One context at a time is inside the two calls, also while conditionWait *)
(* gives the lock up and takes it again, and the lists and the statuses    *)
(* agree all along, although a handler links the node of the thread that   *)
(* it interrupted: however many threads read and whatever is pressed.      *)
(***************************************************************************)
THEOREM OneInside == ASSUME OnlyProcesses PROVE Spec => []LockExclusion
<1>1. ASSUME LockInv, NEW Q, Settled(Q) PROVE ListsAgree({thread[c] : c \in Ctx} \ {NULL})
  <2>1. /\ FlagInv /\ Placed(Q) /\ Agree(Q) /\ Lists(heap, Q) /\ HeapOK(heap)
        /\ \A L \in ListId : IsList(heap, L, Q[L])
    BY <1>1 DEF Settled, Placed, Agree, Lists
  <2>2. \A L \in ListId, t \in Thread : OnList(t, L) <=> t \in Members(Q[L])
    BY <2>1, TestsOfLists DEF OnList
  <2>3. ASSUME NEW L \in ListId PROVE ListWellFormed(heap, L)
    BY <2>1, ContentsOfList
  <2>4. ASSUME NEW t \in Thread PROVE Cardinality({L \in ListId : OnList(t, L)}) <= 1
    <3>1. \A L, M \in {K \in ListId : OnList(t, K)} : L = M
      BY <2>1, <2>2 DEF Lists
    <3>2. CASE {K \in ListId : OnList(t, K)} = {}
      <4>1. Cardinality({K \in ListId : OnList(t, K)}) = 0
        BY <3>2, FS_EmptySet
      <4> QED BY <4>1
    <3>3. CASE {K \in ListId : OnList(t, K)} # {}
      <4>1. PICK L : {K \in ListId : OnList(t, K)} = {L}
        BY <3>1, <3>3
      <4>2. Cardinality({L}) = 1
        BY FS_Singleton
      <4> QED BY <4>1, <4>2
    <3> QED BY <3>2, <3>3
  <2>5. ASSUME NEW t \in Thread
        PROVE  /\ status[t] = "ready" <=> OnList(t, threadReadyList)
               /\ status[t] = "blocked" => \/ t \in {thread[c] : c \in Ctx} \ {NULL}
                                           \/ \E L \in WaitList : OnList(t, L)
               /\ status[t] = "running" => t = cur
    <3>1. status[t] = "ready" <=> OnList(t, threadReadyList)
      BY <2>1, <2>2, ListFacts DEF Agree
    <3>2. ASSUME status[t] = "blocked"
          PROVE  \/ t \in {thread[c] : c \in Ctx} \ {NULL}
                 \/ \E L \in WaitList : OnList(t, L)
      <4>1. PICK c \in Ctx : /\ ThreadOf(c) = t
                             /\ Queued(Q, c) \/ \E d \in Ctx : thread[d] = t
        BY <1>1, <2>1, <3>2, BlockedPlace
      <4>2. t # NULL
        BY ThreadAssumption
      <4>3. Queued(Q, c) => \E L \in WaitList : OnList(t, L)
        BY <2>2, <4>1, ListFacts DEF Queued
      <4> QED BY <4>1, <4>2, <4>3
    <3>3. status[t] = "running" => t = cur
      BY <2>1 DEF Agree
    <3> QED BY <3>1, <3>2, <3>3
  <2> QED BY <2>3, <2>4, <2>5 DEF ListsAgree
<1>2. LockInv /\ WaitInv => LockExclusion
  <2> SUFFICES ASSUME LockInv, WaitInv PROVE LockExclusion
    OBVIOUS
  <2>1. ListsConsistent
    BY <1>1 DEF WaitInv, ListsConsistent
  <2>2. HolderOK /\ SpinOK
    BY DEF LockInv
  <2> QED BY <2>1, <2>2 DEF LockExclusion, HolderOK, SpinOK
<1> QED BY <1>2, LockInvariant, WaitInvariant, PTL

(* Whoever is ahead while the lock is free is awake and about to take it. *)
LEMMA AheadIsAwake ==
  ASSUME LockInv, NEW Q, Settled(Q), holder[ioqLock] = NULL, NEW v \in Level, Work(v) # 0,
         Q[CondOf(v)] # <<>>
  PROVE  \E c \in Ctx : c[2] = v /\ Awake(c)
<1>1. FlagInv /\ Placed(Q) /\ Served(Q)
  BY DEF Settled
<1>2. \A c \in Ctx : pc[c] \notin Inside
  <2>1. NULL \notin Thread /\ \A c \in Ctx : ThreadOf(c) \in Thread
    BY CtxFacts, ThreadAssumption
  <2> QED BY <2>1 DEF LockInv, HolderOK
<1>3. PICK A \in SUBSET Ctx : A = Ahead(Q, v) /\ Work(v) <= Cardinality(A)
  BY <1>1 DEF Ahead, Served
<1>4. A # {}
  <2>1. A = {} => Cardinality(A) = 0
    BY FS_EmptySet
  <2> QED BY <1>3, <2>1, LengthFacts
<1>5. PICK c \in Ctx : c \in A
  BY <1>4
<1>6. c[2] = v /\ pc[c] = "lockAcquire" /\ ~ Queued(Q, c)
  <2>1. pc[c] \notin Signals
    BY <1>2 DEF Inside, Signals
  <2>2. c[2] = v /\ pc[c] \in Want /\ ~ Queued(Q, c)
    BY <1>3, <1>5, <2>1 DEF Ahead
  <2>3. pc[c] = "lockAcquire"
    BY <1>2, <2>2 DEF Inside, Want
  <2> QED BY <2>2, <2>3
<1>7. status[ThreadOf(c)] # "blocked"
  <2> SUFFICES ASSUME status[ThreadOf(c)] = "blocked" PROVE FALSE
    OBVIOUS
  <2>1. PICK d \in Ctx : /\ ThreadOf(d) = ThreadOf(c) /\ pc[d] # "idle"
                         /\ Queued(Q, d) \/ \E e \in Ctx : pc[e] = "signalWake"
    BY <1>1, BlockedPlace, CtxFacts
  <2>2. d = c
    BY <1>1, <1>6, <2>1 DEF FlagInv
  <2> QED BY <1>2, <1>6, <2>1, <2>2 DEF Inside
<1> QED BY <1>6, <1>7 DEF Awake

(***************************************************************************)
(* No signal is missed: whenever the lock is free, a character with a      *)
(* reader still queued, or a free slot with a handler still queued, has    *)
(* another one awake ahead of it.  There are as many ahead as characters,  *)
(* or slots, since every ioqueuePutchar and Getchar wakes one of them.     *)
(***************************************************************************)
THEOREM NoSignalIsMissed == ASSUME OnlyProcesses PROVE Spec => []NoMissedSignal
<1>1. ASSUME LockInv, WaitInv, panic = "none", holder[ioqLock] = NULL, NEW v \in Level,
             Work(v) # 0, ~ ListEmpty(heap, CondOf(v))
      PROVE  \E c \in Ctx : c[2] = v /\ Awake(c)
  <2>1. PICK Q : Settled(Q)
    BY <1>1 DEF WaitInv
  <2>2. Lists(heap, Q) /\ CondOf(v) \in ListId
    BY <2>1, ListFacts DEF Settled, Placed, Agree
  <2>3. Len(Q[CondOf(v)]) # 0
    BY <1>1, <2>2, TestsOfLists
  <2>4. Q[CondOf(v)] # <<>>
    BY <2>3
  <2> QED BY <1>1, <2>1, <2>4, AheadIsAwake
<1>2. LockInv /\ WaitInv => NoMissedSignal
  <2> SUFFICES ASSUME LockInv, WaitInv, panic = "none", holder[ioqLock] = NULL
               PROVE  /\ ~ Empty /\ ~ ListEmpty(heap, condNotEmpty)
                           => \E t \in Thread : Awake(Task(t))
                      /\ ~ Full /\ ~ ListEmpty(heap, condNotFull)
                           => \E t \in Thread : Awake(Irq(t))
    BY DEF NoMissedSignal
  <2>1. "task" \in Level /\ "irq" \in Level
    BY ListFacts
  <2>2. ASSUME ~ Empty, ~ ListEmpty(heap, condNotEmpty)
        PROVE  \E t \in Thread : Awake(Task(t))
    <3>1. Work("task") # 0 /\ CondOf("task") = condNotEmpty
      BY <2>2, LengthFacts DEF Work, CondOf
    <3>2. PICK c \in Ctx : c[2] = "task" /\ Awake(c)
      BY <1>1, <2>1, <2>2, <3>1
    <3>3. ThreadOf(c) \in Thread /\ c = Task(ThreadOf(c))
      BY <3>2, CtxFacts
    <3> QED BY <3>2, <3>3
  <2>3. ASSUME ~ Full, ~ ListEmpty(heap, condNotFull)
        PROVE  \E t \in Thread : Awake(Irq(t))
    <3>1. Work("irq") # 0 /\ CondOf("irq") = condNotFull
      BY <2>3, LengthFacts DEF Work, CondOf
    <3>2. PICK c \in Ctx : c[2] = "irq" /\ Awake(c)
      BY <1>1, <2>1, <2>3, <3>1
    <3>3. ThreadOf(c) \in Thread /\ c = Irq(ThreadOf(c))
      BY <3>2, CtxFacts
    <3> QED BY <3>2, <3>3
  <2> QED BY <2>2, <2>3
<1> QED BY <1>2, LockInvariant, WaitInvariant, PTL

-----------------------------------------------------------------------------
(* Fewer keys are ahead of their readers than fill the ring and have a     *)
(* handler wait in every thread.                                           *)
FewKeys == Outstanding < BUFSIZE - 1 + Cardinality(Thread)

(* Were nobody ready, every thread would wait, and main, which never reads,*)
(* in a handler: the ring would be full.                                   *)
LEMMA SomebodyIsReady ==
  ASSUME FewKeys, LockInv, Bounded, NEW Q, Settled(Q), NEW c \in Ctx, WaitSchedule(c)
  PROVE  Len(Q[threadReadyList]) # 0
<1> SUFFICES ASSUME Len(Q[threadReadyList]) = 0 PROVE FALSE
  OBVIOUS
<1>1. At(c, pc[c]) /\ pc[c] = "waitSchedule"
  BY DEF WaitSchedule, At
<1>2. /\ Alone(c) /\ ThreadOf(c) = cur /\ FlagInv /\ Placed(Q) /\ Served(Q)
      /\ ret[c] = "waitSchedule"
      /\ cur \in Thread /\ Agree(Q) /\ Q \in [ListId -> Seq(Thread)]
  <2>1. /\ Alone(c) /\ ThreadOf(c) = cur /\ FlagInv /\ Placed(Q) /\ Served(Q)
        /\ Control(Loop(c), pc[c], ret[c], back[c])
    BY <1>1, Acting
  <2>2. ret[c] = "waitSchedule"
    BY <1>1, <2>1 DEF Control
  <2> QED BY <2>1, <2>2 DEF Placed, Agree, Lists
<1>3. status[cur] = "blocked" /\ Queued(Q, c)
  BY <1>2, CpuPlace
<1>4. Members(Q[threadReadyList]) = {}
  BY DEF Members
<1>5. \A t \in Thread : status[t] = "blocked"
  <2>1. pc[Task(Main)] # "boot"
    <3>1. Task(Main) \in Ctx
      BY CtxFacts, ThreadAssumption
    <3> QED BY <1>1, <1>2, <3>1, OthersFacts
  <2> QED BY <1>2, <1>3, <1>4, <2>1 DEF Placed, Agree, Status
<1>6. \A d \in Ctx : pc[d] \notin Signals \cup {"signalWake"}
  BY <1>1, <1>2, OthersFacts DEF Signals
<1>7. ASSUME NEW d \in Ctx, pc[d] # "idle" PROVE Queued(Q, d)
  <2>1. CASE d = c
    BY <1>3, <2>1
  <2>2. CASE d # c
    <3>1. /\ Sleeps(pc[d], ret[d]) /\ ThreadOf(d) \in Thread /\ ThreadOf(d) # NULL
          /\ Place(Q, d)
      BY <1>2, <1>7, <2>2, OthersFacts, CtxFacts, ThreadAssumption DEF Placed
    <3>2. \A e \in Ctx : thread[e] # ThreadOf(d)
      BY <1>2, <1>6, <3>1 DEF FlagInv
    <3> QED BY <1>5, <3>1, <3>2 DEF Place
  <2> QED BY <2>1, <2>2
<1>8. ASSUME NEW v \in Level, Q[CondOf(v)] # <<>> PROVE Work(v) = 0
  <2>1. Ahead(Q, v) = {}
    BY <1>6, <1>7 DEF Ahead, Want
  <2>2. Cardinality(Ahead(Q, v)) = 0
    BY <2>1, FS_EmptySet
  <2>3. Work(v) <= 0 /\ Work(v) \in Nat
    BY <1>2, <1>8, <2>2, LengthFacts DEF Served
  <2> QED BY <2>3
<1>9. \A d \in Ctx : Queued(Q, d) => Q[CondOf(d[2])] # <<>>
  BY EmptyMembers DEF Queued
<1>10. \A t \in Thread : Queued(Q, Task(t)) \/ Queued(Q, Irq(t))
  <2> TAKE t \in Thread
  <2>1. Busy(t) /\ Task(t) \in Ctx /\ Irq(t) \in Ctx
    BY <1>2, <1>5, CtxFacts DEF Placed
  <2> QED BY <1>7, <2>1 DEF Busy
<1>11. Queued(Q, Irq(Main))
  <2>1. PICK m \in Ctx : m = Task(Main) /\ m[1] = Main /\ m[2] = "task" /\ Main \in Thread
    BY CtxFacts, ThreadAssumption DEF ThreadOf
  <2>2. /\ pc[m] \in {"boot", "idle"} /\ Control(Loop(m), pc[m], ret[m], back[m])
        /\ Place(Q, m)
    BY <1>2, <2>1, ActsFacts, IoQueueAssumption DEF Calls, Placed
  <2>3. ~ Queued(Q, m)
    BY <2>2 DEF Place, Control, Sleeps
  <2> QED BY <1>10, <2>1, <2>3
<1>12. Irq(Main) \in Ctx /\ "irq" \in Level /\ "task" \in Level
  BY CtxFacts, ThreadAssumption, ListFacts
<1>13. Length = BUFSIZE - 1 /\ BUFSIZE \in Nat \ {0, 1}
  <2>1. Work("irq") = 0
    BY <1>8, <1>9, <1>11, <1>12, CtxFacts
  <2> QED BY <2>1, LengthFacts, IoQueueAssumption DEF Work
<1>14. \A t \in Thread : ~ Queued(Q, Task(t))
  <2>1. Work("task") # 0
    BY <1>13 DEF Work
  <2> QED BY <1>8, <1>9, <1>12, <2>1, CtxFacts
<1>15. \A t \in Thread : t \in Waiting
  <2> TAKE t \in Thread
  <2>1. PICK d \in Ctx : d = Irq(t) /\ d[2] = "irq" /\ Queued(Q, d)
    BY <1>10, <1>14, CtxFacts
  <2>2. Place(Q, d)
    BY <1>2 DEF Placed
  <2>3. Pending(pc[d], ret[d])
    BY <2>1, <2>2 DEF Place, Pending, Sleeps, AcquireLabel
  <2>4. ch[d] \in Char
    BY <2>1, <2>3 DEF LockInv, RingOK
  <2> QED BY <2>1, <2>4, WaitingFacts
<1>16. Waiting = Thread
  BY <1>15 DEF Waiting
<1>17. Cardinality(Thread) \in Nat /\ BUFSIZE - 1 + Cardinality(Thread) <= Outstanding
  BY <1>13, <1>16, WaitingType DEF Bounded
<1> QED BY <1>13, <1>17, IoQueueAssumption DEF FewKeys

(* The assertions of sync.c and thread.c hold, but for the one in schedule. *)
LEMMA PanicStep ==
  ASSUME LockInv, NEW Q, Settled(Q), panic = "none", Next
  PROVE  panic' = "none" \/ \E c \in Ctx : WaitSchedule(c) /\ Len(Q[threadReadyList]) = 0
<1>1. /\ FlagInv /\ Placed(Q) /\ Agree(Q) /\ Lists(heap, Q) /\ Q \in [ListId -> Seq(Thread)]
      /\ cur \in Thread
  BY DEF Settled, Placed, Agree, Lists
<1>2. CASE Tick
  <2>1. iflag[cur] /\ schedule(heap, status)
    BY <1>2 DEF Tick, Timer, TimerPreempts
  <2>2. status[cur] = "running"
    BY <1>1, <2>1 DEF Placed, FlagInv
  <2>3. Switched(Q, status)
    BY <1>1, <2>1, <2>2, UnlistedThread, ScheduleLists
  <2> QED BY <2>2, <2>3 DEF Switched
<1>3. CASE BootStep
  <2>1. CASE \E t \in Thread : status[t] = "unborn"
    <3>1. PICK t \in Thread : threadStart(t)
      BY <1>3, <2>1 DEF BootStep, Boot
    <3>2. OnNone(Q, t)
      BY <1>1, <3>1, UnlistedThread DEF threadStart
    <3> QED BY <1>1, <3>1, <3>2, StartLists
  <2>2. CASE ~ \E t \in Thread : status[t] = "unborn"
    BY <1>3, <2>2 DEF BootStep, Boot, schedVars
  <2> QED BY <2>1, <2>2
<1>4. ASSUME NEW c \in Ctx, WaitSchedule(c)
      PROVE  panic' = "none" \/ Len(Q[threadReadyList]) = 0
  <2>1. schedule(heap, status) /\ status[cur] \in {"running", "blocked"}
    BY <1>1, <1>4 DEF WaitSchedule, Placed
  <2>2. status[cur] = "running" => OnNone(Q, cur)
    BY <1>1, UnlistedThread
  <2>3. status[cur] = "blocked" => status = [status EXCEPT ![cur] = "blocked"]
    BY <1>1 DEF Agree
  <2>4. Switched(Q, status)
    BY <1>1, <2>1, <2>2, <2>3, ScheduleLists
  <2> QED BY <2>4 DEF Switched
<1>5. ASSUME NEW c \in Ctx, SignalWake(c) PROVE panic' = "none"
  <2>1. PICK p : /\ p = thread[c] /\ threadUnblock(p)
                 /\ pc[c] = "signalWake" /\ ThreadOf(c) = cur
    BY <1>5 DEF SignalWake, At
  <2>2. Alone(c) /\ Place(Q, c)
    BY <1>1, <2>1, AloneFacts DEF Placed
  <2>3. p \in Thread /\ OnNone(Q, p) /\ status[p] = "blocked"
    BY <2>1, <2>2 DEF Place
  <2>4. status[cur] = "running"
    <3>1. ret[c] # "waitSchedule"
      BY <2>1, ActsFacts DEF Control
    <3> QED BY <1>1, <2>2, <3>1, CpuPlace
  <2> QED BY <1>1, <2>1, <2>3, <2>4, UnblockLists
<1>6. ASSUME NEW c \in Ctx, NEW L \in ListId, L \in Condition, conditionSignal(c, L, "release")
      PROVE  panic' = "none"
  <2>1. ListEmpty(heap, L) \/ ListFirst(heap, L) \in Thread
    <3>1. ~ ListEmpty(heap, L) => Len(Q[L]) # 0
      BY <1>1, TestsOfLists
    <3> QED BY <1>1, <3>1, PopLists
  <2> QED BY <1>6, <2>1 DEF conditionSignal
<1>7. ASSUME NEW c \in Ctx, ReleaseClear(c) PROVE panic' = "none"
  <2>1. pc[c] = "lockRelease" /\ ThreadOf(c) = cur
    BY <1>7 DEF ReleaseClear, At
  <2>2. holder[lk[c]] = cur
    BY <2>1, ActsFacts DEF Inside
  <2> QED BY <1>7, <2>2 DEF ReleaseClear
<1>8. ASSUME NEW c \in Ctx, ReleasePop(c) PROVE panic' = "none"
  <2>1. ListEmpty(heap, ioqLock) /\ lk[c] = ioqLock
    <3>1. Q[ioqLock] = <<>> /\ ioqLock \in ListId
      BY <1>1, ListFacts DEF Placed
    <3> QED BY <1>1, <3>1, TestsOfLists, ActsFacts
  <2> QED BY <1>8, <2>1 DEF ReleasePop
<1>9. ASSUME NEW c \in Ctx, ReleaseWake(c) \/ AcquireBlock(c) PROVE FALSE
  BY <1>1, <1>9 DEF FlagInv, Never, ReleaseWake, AcquireBlock, At
<1>10. ASSUME NEW c \in Ctx, lockAcquire(c) \/ lockRelease(c) PROVE panic' = "none"
  BY <1>7, <1>8, <1>9, <1>10 DEF lockAcquire, AcquireTry, AcquireSpin, AcquireAppend,
     AcquireRecheck, AcquireRemove, AcquireUnspin, lockRelease, ReleaseSpin, ReleaseUnspin,
     schedVars
<1>11. ASSUME NEW c \in Ctx, GetSignal(c) \/ PutSignal(c) PROVE panic' = "none"
  <2>1. \A v : CondOf(v) \in Condition /\ CondOf(v) \in ListId
    BY ListFacts
  <2>2. CondOf("irq") = condNotFull /\ CondOf("task") = condNotEmpty
    BY DEF CondOf
  <2> QED BY <1>6, <1>11, <2>1, <2>2 DEF GetSignal, PutSignal
<1>12. ASSUME NEW c \in Ctx, GetLoop(c) \/ PutLoop(c) PROVE panic' = "none"
  BY <1>12 DEF GetLoop, PutLoop, conditionWait, schedVars
<1>13. ASSUME NEW c \in Ctx,
              GetAdvance(c) \/ PutAdvance(c) \/ Release(c) \/ Return(c) \/ WaitReturn(c)
       PROVE  panic' = "none"
  BY <1>13 DEF GetAdvance, PutAdvance, Release, Return, WaitReturn, schedVars
<1>14. CASE \E c \in Ctx : Step(c)
  BY <1>4, <1>5, <1>10, <1>11, <1>12, <1>13, <1>14 DEF Step, SyncStep
<1>15. CASE KeyPress \/ \E t \in Consumer : Getchar(t)
  BY <1>15 DEF KeyPress, Getchar, schedVars
<1> QED BY <1>2, <1>3, <1>14, <1>15 DEF Next

(***************************************************************************)
(* schedule always finds a thread, and no other assertion of thread.c or   *)
(* sync.c fails, as long as there are fewer keys pressed and not yet read  *)
(* than there are slots to put them into and threads whose handlers can    *)
(* wait for one.                                                           *)
(***************************************************************************)
THEOREM SomebodyRuns ==
  ASSUME OnlyProcesses, FewKeys PROVE Spec => [](panic = "none" /\ SomebodyReady)
<1>1. Init => panic = "none"
  BY DEF Init, ThreadsInit
<1>2. ASSUME LockInv, WaitInv, Bounded, panic = "none", [Next]_vars PROVE panic' = "none"
  <2>1. PICK Q : Settled(Q)
    BY <1>2 DEF WaitInv
  <2> QED BY <1>2, <2>1, PanicStep, SomebodyIsReady DEF vars, schedVars
<1>3. LockInv /\ WaitInv /\ Bounded /\ panic = "none" /\ [Next]_vars => (panic = "none")'
  BY <1>2
<1>4. panic = "none" => SomebodyReady
  BY DEF SomebodyReady
<1> QED BY <1>1, <1>3, <1>4, LockInvariant, WaitInvariant, BoundedInvariant, PTL DEF Spec
-----------------------------------------------------------------------------
(***************************************************************************)
(* keyboard.c, whose handler is the producer: the proofs about Keyboard    *)
(* for every set of keys, whatever the user does with them.                *)
(***************************************************************************)
(* A code of two bytes, the first of them 0xe0. *)
Extended(key) == key > 255

(* The byte that ends a make or break code, after the 0xe0 if there is one. *)
LastByte(key, bit) == IF Extended(key) THEN key - 57344 + bit ELSE key + bit

(***************************************************************************)
(* A flag says that a key of its kind is held; so it was when the keys in  *)
(* down were.                                                              *)
(***************************************************************************)
CtrlOK(down)  == ctrlStatus => CTRL_L_MAKE \in down
ShiftOK(down) == shiftStatus => down \cap Shift # {}
AltOK(down)   == altStatus => ALT_L_MAKE \in down
FlagsOK(down) == CtrlOK(down) /\ ShiftOK(down) /\ AltOK(down)

(* What was typed last, now that all bytes are read. *)
TypedOK ==
  /\ typed # None => typed[1] = pressed
  /\ pressed # None => (typed = None <=> pressed > 58 \/ keymap(pressed, 0) = None)
  /\ typed # None /\ held \cap Shift = {} =>
       typed = keymap(pressed, IF pressed \notin Symbol /\ capslockStatus THEN 1 ELSE 0)

-----------------------------------------------------------------------------
(* Where the handler is in the bytes of a key event. *)
Idle == wire = <<>> /\ ~ extScancode /\ FlagsOK(held) /\ TypedOK

(* The bytes of a key that was pressed are to come. *)
MakeComes ==
  /\ pressed \in held
  /\ FlagsOK(held)
  /\ IF extScancode THEN Extended(pressed) /\ wire = <<LastByte(pressed, 0)>>
     ELSE wire = Bytes(pressed, 0)

(* The key has been released, its flag may still be set. *)
BreakComes ==
  /\ pressed = None
  /\ \E key \in Key : /\ FlagsOK(held \cup {key})
                      /\ IF extScancode
                         THEN Extended(key) /\ wire = <<LastByte(key, 128)>>
                         ELSE wire = Bytes(key, 128)

(* Between its 0x1d and 0x9d, Pause looks like the left Ctrl. *)
PauseComes ==
  /\ pressed = None /\ ~ extScancode
  /\ ShiftOK(held) /\ AltOK(held)
  /\ \/ wire \in {<<225, 29, 69, 225, 157, 197>>, <<29, 69, 225, 157, 197>>,
                  <<197>>} /\ CtrlOK(held)
     \/ wire \in {<<69, 225, 157, 197>>, <<225, 157, 197>>, <<157, 197>>}

(* The handler and the keyboard agree on where they are in an event. *)
KeyboardInv ==
  /\ ctrlStatus \in BOOLEAN /\ shiftStatus \in BOOLEAN /\ altStatus \in BOOLEAN
  /\ capslockStatus \in BOOLEAN /\ extScancode \in BOOLEAN
  /\ held \subseteq Key
  /\ pressed # None => pressed \in held
  /\ Idle \/ MakeComes \/ BreakComes \/ PauseComes

-----------------------------------------------------------------------------
(* The bytes of a key, with an extended code and without. *)
LEMMA KeyFacts ==
  ASSUME NEW key \in Key
  PROVE  /\ key \in Nat /\ key # None
         /\ Extended(key) => /\ key - 57344 \in MakeByte
                             /\ \A bit : Bytes(key, bit) = <<224, LastByte(key, bit)>>
         /\ ~ Extended(key) => /\ key \in MakeByte
                               /\ \A bit : Bytes(key, bit) = <<LastByte(key, bit)>>
<1>1. key \in MakeByte \/ (key - 57344 \in MakeByte /\ key \in Nat)
  <2>1. key \in MakeByte \/ \E byte \in MakeByte : key = 57344 + byte
    BY KeyAssumption
  <2> QED BY <2>1 DEF MakeByte
<1>2. key \in Nat
  BY <1>1 DEF MakeByte
<1>3. Extended(key) <=> key > 255
  BY DEF Extended
<1>4. key > 255 => key - 57344 \in MakeByte
  BY <1>1 DEF MakeByte
<1>5. ~ (key > 255) => key \in MakeByte
  BY <1>1 DEF MakeByte
<1>6. \A bit : Extended(key) => Bytes(key, bit) = <<224, LastByte(key, bit)>>
  BY DEF Bytes, E0, LastByte, Extended
<1>7. \A bit : ~ Extended(key) => Bytes(key, bit) = <<LastByte(key, bit)>>
  BY DEF Bytes, LastByte, Extended
<1>8. key # None
  BY <1>2, KeyAssumption
<1> QED BY <1>2, <1>3, <1>4, <1>5, <1>6, <1>7, <1>8

(* The last byte of a code tells whether it is a make or a break code. *)
LEMMA LastFacts ==
  ASSUME NEW key \in Key
  PROVE  /\ LastByte(key, 0) \in 1 .. 127
         /\ LastByte(key, 128) \in 129 .. 255 /\ LastByte(key, 128) # E0
         /\ Extended(key) => /\ key = 57344 + LastByte(key, 0)
                             /\ key = 57344 + LastByte(key, 128) - 128
         /\ ~ Extended(key) => /\ key = LastByte(key, 0)
                               /\ key = LastByte(key, 128) - 128
<1>1. key \in Nat
  BY KeyFacts
<1>2. CASE Extended(key)
  <2>1. key - 57344 \in MakeByte
    BY <1>2, KeyFacts
  <2> QED BY <1>1, <1>2, <2>1 DEF LastByte, MakeByte, E0
<1>3. CASE ~ Extended(key)
  <2>1. key \in MakeByte
    BY <1>3, KeyFacts
  <2> QED BY <1>1, <1>3, <2>1 DEF LastByte, MakeByte, E0
<1> QED BY <1>2, <1>3

(* Both columns of the keymap are invisible or neither is. *)
LEMMA KeymapFacts ==
  ASSUME NEW idx \in Nat, NEW col \in {0, 1}
  PROVE  /\ keymap(idx, col) = None <=>
              idx \in {0, CTRL_L_MAKE, SHIFT_L_MAKE, SHIFT_R_MAKE,
                       ALT_L_MAKE, CAPS_LOCK_MAKE}
         /\ keymap(idx, col) # None => keymap(idx, col)[1] = idx
<1>1. <<idx, 0>> \in Nat \X Nat /\ <<idx, col>> \in Nat \X Nat
  OBVIOUS
<1>2. <<idx, 0>> # None /\ <<idx, col>> # None
  BY <1>1, KeyAssumption
<1>3. <<idx, 0>>[1] = idx /\ <<idx, col>>[1] = idx
  OBVIOUS
<1> QED BY <1>2, <1>3 DEF keymap

-----------------------------------------------------------------------------
(* The make code of a key that is held has been read. *)
LEMMA MakeRead ==
  ASSUME KeyboardInv, pressed \in held, FlagsOK(held),
         wire = <<LastByte(pressed, 0)>>,
         scancodeOf(LastByte(pressed, 0)) = pressed, Make
  PROVE  KeyboardInv'
<1> DEFINE k == pressed
           col == column(k)
           char == IF InKeymap(k) THEN keymap(k, col) ELSE None
           control == InKeymap(k) /\ char = None
<1>1. k \in Key /\ k \in Nat /\ k # None /\ k > 0
  BY KeyFacts, LastFacts DEF KeyboardInv, Extended
<1>2. Head(wire) = LastByte(pressed, 0) /\ Tail(wire) = <<>>
  OBVIOUS
<1>3. /\ wire' = <<>> /\ held' = held /\ pressed' = k
      /\ ctrlStatus'     = (ctrlStatus \/ (control /\ k \in Ctrl))
      /\ shiftStatus'    = (shiftStatus \/ (control /\ k \in Shift))
      /\ altStatus'      = (altStatus \/ (control /\ k \in Alt))
      /\ capslockStatus' = (capslockStatus # (control /\ k = CAPS_LOCK_MAKE))
      /\ extScancode' = FALSE
      /\ typed' = char
  BY <1>2 DEF Make, Received
<1>4. col \in {0, 1}
  BY DEF column
<1>5. /\ ctrlStatus \in BOOLEAN /\ shiftStatus \in BOOLEAN /\ altStatus \in BOOLEAN
      /\ capslockStatus \in BOOLEAN /\ extScancode \in BOOLEAN
  BY DEF KeyboardInv
<1>6. /\ keymap(k, col) = None <=> keymap(k, 0) = None
      /\ keymap(k, col) # None => keymap(k, col)[1] = k
  BY <1>1, <1>4, KeymapFacts
<1>7. InKeymap(k) <=> ~ (k > 58)
  BY <1>1 DEF InKeymap
<1>8. char # None => capslockStatus' = capslockStatus
  <2>1. char # None => ~ control
    OBVIOUS
  <2> HIDE DEF control, char
  <2> QED BY <1>3, <1>5, <2>1
<1>9. char # None /\ held \cap Shift = {} =>
        char = keymap(k, IF k \notin Symbol /\ capslockStatus' THEN 1 ELSE 0)
  <2> SUFFICES ASSUME char # None, held \cap Shift = {}
               PROVE  char = keymap(k, IF k \notin Symbol /\ capslockStatus'
                                          THEN 1 ELSE 0)
    OBVIOUS
  <2>1. char = keymap(k, col)
    OBVIOUS
  <2>2. shiftStatus = FALSE
    BY <1>5 DEF FlagsOK, ShiftOK
  <2>3. col = IF k \notin Symbol /\ capslockStatus THEN 1 ELSE 0
    BY <1>5, <2>2 DEF column
  <2> HIDE DEF char, col
  <2> QED BY <1>8, <2>1, <2>3
<1>10. TypedOK'
  <2>1. char # None => char[1] = k
    BY <1>6
  <2>2. char = None <=> k > 58 \/ keymap(k, 0) = None
    BY <1>6, <1>7
  <2> HIDE DEF char, control
  <2> QED BY <1>3, <1>9, <2>1, <2>2 DEF TypedOK
<1>11. FlagsOK(held)'
  <2>1. control /\ k \in Ctrl => k = CTRL_L_MAKE
    BY <1>1 DEF InKeymap, Ctrl, CTRL_L_MAKE, CTRL_R_MAKE
  <2>2. control /\ k \in Alt => k = ALT_L_MAKE
    BY <1>1 DEF InKeymap, Alt, ALT_L_MAKE, ALT_R_MAKE
  <2> HIDE DEF control, char
  <2>3. CtrlOK(held)'
    BY <1>3, <1>5, <2>1 DEF FlagsOK, CtrlOK
  <2>4. ShiftOK(held)'
    BY <1>3, <1>5 DEF FlagsOK, ShiftOK, Shift
  <2>5. AltOK(held)'
    BY <1>3, <1>5, <2>2 DEF FlagsOK, AltOK
  <2> QED BY <2>3, <2>4, <2>5 DEF FlagsOK
<1>12. Idle'
  BY <1>3, <1>10, <1>11 DEF Idle
<1>13. /\ ctrlStatus' \in BOOLEAN /\ shiftStatus' \in BOOLEAN /\ altStatus' \in BOOLEAN
       /\ capslockStatus' \in BOOLEAN /\ extScancode' \in BOOLEAN
  <2> HIDE DEF control, char
  <2> QED BY <1>3
<1>14. held' \subseteq Key /\ pressed' \in held'
  BY <1>3 DEF KeyboardInv
<1> QED BY <1>12, <1>13, <1>14 DEF KeyboardInv

(* The break code of a key that was released has been read. *)
LEMMA BreakRead ==
  ASSUME KeyboardInv, pressed = None, NEW key \in Key, FlagsOK(held \cup {key}),
         wire = <<LastByte(key, 128)>>,
         scancodeOf(LastByte(key, 128)) - 128 = key, Break
  PROVE  KeyboardInv'
<1>1. Head(wire) = LastByte(key, 128) /\ Tail(wire) = <<>>
  OBVIOUS
<1>2. /\ wire' = <<>> /\ held' = held /\ pressed' = None
      /\ ctrlStatus'  = (ctrlStatus /\ key \notin Ctrl)
      /\ shiftStatus' = (shiftStatus /\ key \notin Shift)
      /\ altStatus'   = (altStatus /\ key \notin Alt)
      /\ extScancode' = FALSE
      /\ typed' = None
      /\ capslockStatus' = capslockStatus
  BY <1>1 DEF Break, Received
<1>3. /\ ctrlStatus \in BOOLEAN /\ shiftStatus \in BOOLEAN /\ altStatus \in BOOLEAN
      /\ capslockStatus \in BOOLEAN /\ extScancode \in BOOLEAN /\ held \subseteq Key
  BY DEF KeyboardInv
<1>4. FlagsOK(held)'
  <2>1. CtrlOK(held)'
    BY <1>2, <1>3 DEF FlagsOK, CtrlOK, Ctrl
  <2>2. ShiftOK(held)'
    BY <1>2, <1>3 DEF FlagsOK, ShiftOK
  <2>3. AltOK(held)'
    BY <1>2, <1>3 DEF FlagsOK, AltOK, Alt
  <2> QED BY <2>1, <2>2, <2>3 DEF FlagsOK
<1>5. TypedOK'
  BY <1>2 DEF TypedOK
<1>6. Idle'
  BY <1>2, <1>4, <1>5 DEF Idle
<1> QED BY <1>2, <1>3, <1>6 DEF KeyboardInv

(* The 0xe0 of a code has been read. *)
LEMMA PrefixRead ==
  ASSUME KeyboardInv, ~ extScancode, Prefix, MakeComes \/ BreakComes
  PROVE  KeyboardInv'
<1>1. /\ Head(wire) = E0 /\ wire' = Tail(wire) /\ held' = held /\ pressed' = pressed
      /\ extScancode' = TRUE
      /\ UNCHANGED <<ctrlStatus, shiftStatus, altStatus, capslockStatus>>
  BY DEF Prefix, Received
<1>2. /\ ctrlStatus \in BOOLEAN /\ shiftStatus \in BOOLEAN /\ altStatus \in BOOLEAN
      /\ capslockStatus \in BOOLEAN /\ held \subseteq Key
      /\ pressed # None => pressed \in held
  BY DEF KeyboardInv
<1>3. \A down : FlagsOK(down) => FlagsOK(down)'
  BY <1>1 DEF FlagsOK, CtrlOK, ShiftOK, AltOK
<1>4. ASSUME NEW key \in Key, NEW bit \in {0, 128}, wire = Bytes(key, bit)
      PROVE  Extended(key) /\ wire' = <<LastByte(key, bit)>>
  <2>1. CASE Extended(key)
    <3>1. wire = <<224, LastByte(key, bit)>>
      BY <1>4, <2>1, KeyFacts
    <3> QED BY <1>1, <2>1, <3>1
  <2>2. CASE ~ Extended(key)
    <3>1. wire = <<LastByte(key, bit)>>
      BY <1>4, <2>2, KeyFacts
    <3>2. LastByte(key, bit) # E0
      BY LastFacts DEF E0
    <3> QED BY <1>1, <3>1, <3>2
  <2> QED BY <2>1, <2>2
<1>5. CASE MakeComes
  <2>1. pressed \in Key /\ wire = Bytes(pressed, 0)
    BY <1>2, <1>5 DEF MakeComes
  <2>2. Extended(pressed) /\ wire' = <<LastByte(pressed, 0)>>
    BY <1>4, <2>1
  <2>3. MakeComes'
    <3>1. /\ LastByte(pressed, 0)' = LastByte(pressed, 0)
          /\ Extended(pressed)' = Extended(pressed)
      BY <1>1 DEF LastByte, Extended
    <3>2. FlagsOK(held)'
      BY <1>1, <1>3, <1>5 DEF MakeComes, FlagsOK, CtrlOK, ShiftOK, AltOK
    <3>3. pressed' \in held'
      BY <1>1, <1>5 DEF MakeComes
    <3> QED BY <1>1, <2>2, <3>1, <3>2, <3>3 DEF MakeComes
  <2> QED BY <1>1, <1>2, <2>3 DEF KeyboardInv
<1>6. CASE BreakComes
  <2>1. PICK key \in Key : FlagsOK(held \cup {key}) /\ wire = Bytes(key, 128)
    BY <1>6 DEF BreakComes
  <2>2. Extended(key) /\ wire' = <<LastByte(key, 128)>>
    BY <1>4, <2>1
  <2>3. FlagsOK(held \cup {key})'
    BY <1>1, <1>3, <2>1 DEF FlagsOK, CtrlOK, ShiftOK, AltOK
  <2>4. BreakComes'
    <3>1. pressed' = None
      BY <1>1, <1>6 DEF BreakComes
    <3> QED BY <1>1, <2>2, <2>3, <3>1 DEF BreakComes
  <2> QED BY <1>1, <1>2, <2>4 DEF KeyboardInv
<1> QED BY <1>5, <1>6

(* The handler, when a make code is to come. *)
LEMMA MakeHandled ==
  ASSUME KeyboardInv, MakeComes, intrKeyboardHandler
  PROVE  KeyboardInv'
<1>1. pressed \in Key /\ pressed \in held /\ FlagsOK(held)
  BY DEF KeyboardInv, MakeComes
<1> DEFINE last == LastByte(pressed, 0)
<1>2. /\ last \in 1 .. 127
      /\ Extended(pressed) => pressed = 57344 + last
      /\ ~ Extended(pressed) => pressed = last
  BY <1>1, LastFacts
<1>3. last < 128 /\ last # E0 /\ ~ (last >= 128) /\ ~ (224 < 128) /\ E0 = 224
  BY <1>2 DEF E0
<1>4. \/ extScancode /\ Extended(pressed) /\ wire = <<last>>
      \/ ~ extScancode /\ Extended(pressed) /\ wire = <<224, last>>
      \/ ~ extScancode /\ ~ Extended(pressed) /\ wire = <<last>>
  BY <1>1, KeyFacts DEF MakeComes
<1> HIDE DEF last
<1>5. CASE wire = <<last>>
  <2>1. scancodeOf(last) = pressed
    BY <1>2, <1>4, <1>5 DEF scancodeOf
  <2>2. Head(wire) = last
    BY <1>5
  <2>3. Make
    BY <1>3, <2>2 DEF intrKeyboardHandler, Prefix, Break
  <2> QED BY <1>1, <1>5, <2>1, <2>3, MakeRead DEF last
<1>6. CASE wire = <<224, last>>
  <2>1. Head(wire) = 224 /\ wire # <<last>>
    BY <1>6
  <2>2. Prefix
    BY <1>3, <2>1 DEF intrKeyboardHandler, Make, Break
  <2>3. ~ extScancode
    BY <1>4, <2>1
  <2> QED BY <2>2, <2>3, PrefixRead
<1> QED BY <1>4, <1>5, <1>6

(* The handler, when a break code is to come. *)
LEMMA BreakHandled ==
  ASSUME KeyboardInv, BreakComes, intrKeyboardHandler
  PROVE  KeyboardInv'
<1>1. PICK key \in Key : /\ FlagsOK(held \cup {key})
                         /\ IF extScancode
                            THEN Extended(key) /\ wire = <<LastByte(key, 128)>>
                            ELSE wire = Bytes(key, 128)
  BY DEF BreakComes
<1> DEFINE last == LastByte(key, 128)
<1>2. /\ last \in 129 .. 255 /\ last # E0
      /\ Extended(key) => key = 57344 + last - 128
      /\ ~ Extended(key) => key = last - 128
  BY LastFacts
<1>3. ~ (last < 128) /\ ~ (224 < 128) /\ E0 = 224 /\ pressed = None
  BY <1>2 DEF E0, BreakComes
<1>4. \/ extScancode /\ Extended(key) /\ wire = <<last>>
      \/ ~ extScancode /\ Extended(key) /\ wire = <<224, last>>
      \/ ~ extScancode /\ ~ Extended(key) /\ wire = <<last>>
  BY <1>1, KeyFacts
<1> HIDE DEF last
<1>5. CASE wire = <<last>>
  <2>1. scancodeOf(last) - 128 = key
    BY <1>2, <1>4, <1>5 DEF scancodeOf
  <2>2. Head(wire) = last
    BY <1>5
  <2>3. Break
    BY <1>2, <1>3, <2>2 DEF intrKeyboardHandler, Prefix, Make
  <2> QED BY <1>1, <1>3, <1>5, <2>1, <2>3, BreakRead DEF last
<1>6. CASE wire = <<224, last>>
  <2>1. Head(wire) = 224 /\ wire # <<last>>
    BY <1>6
  <2>2. Prefix
    BY <1>3, <2>1 DEF intrKeyboardHandler, Make, Break
  <2>3. ~ extScancode
    BY <1>4, <2>1
  <2> QED BY <2>2, <2>3, PrefixRead
<1> QED BY <1>4, <1>5, <1>6

-----------------------------------------------------------------------------
(* A byte of Pause that is a break code. *)
LEMMA PauseBreak ==
  ASSUME KeyboardInv, ~ extScancode, pressed = None,
         NEW byte \in {225, 157, 197}, Head(wire) = byte, intrKeyboardHandler
  PROVE  /\ wire' = Tail(wire) /\ held' = held /\ pressed' = None
         /\ ctrlStatus' = (ctrlStatus /\ byte # 157)
         /\ UNCHANGED <<shiftStatus, altStatus, capslockStatus, extScancode>>
         /\ typed' = None
<1>1. scancodeOf(byte) - 128 \in {97, 29, 69} /\ (scancodeOf(byte) - 128 = 29
        <=> byte = 157)
  BY DEF scancodeOf
<1>2. ~ (byte < 128) /\ byte # E0
  BY DEF E0
<1>3. Break
  BY <1>2 DEF intrKeyboardHandler, Prefix, Make
<1>4. /\ scancodeOf(byte) - 128 \in Ctrl <=> byte = 157
      /\ scancodeOf(byte) - 128 \notin Shift
      /\ scancodeOf(byte) - 128 \notin Alt
  BY <1>1 DEF Ctrl, Shift, Alt, CTRL_L_MAKE, CTRL_R_MAKE,
              SHIFT_L_MAKE, SHIFT_R_MAKE, ALT_L_MAKE, ALT_R_MAKE
<1>5. /\ ctrlStatus \in BOOLEAN /\ shiftStatus \in BOOLEAN /\ altStatus \in BOOLEAN
      /\ extScancode = FALSE
  BY DEF KeyboardInv
<1>6. /\ wire' = Tail(wire) /\ held' = held /\ pressed' = pressed
      /\ ctrlStatus'  = (ctrlStatus /\ scancodeOf(byte) - 128 \notin Ctrl)
      /\ shiftStatus' = (shiftStatus /\ scancodeOf(byte) - 128 \notin Shift)
      /\ altStatus'   = (altStatus /\ scancodeOf(byte) - 128 \notin Alt)
      /\ extScancode' = FALSE
      /\ typed' = None
      /\ capslockStatus' = capslockStatus
  BY <1>3 DEF Break, Received
<1> QED BY <1>4, <1>5, <1>6

(* A byte of Pause that is a make code. *)
LEMMA PauseMake ==
  ASSUME KeyboardInv, ~ extScancode, pressed = None,
         NEW byte \in {29, 69}, Head(wire) = byte, intrKeyboardHandler
  PROVE  /\ wire' = Tail(wire) /\ held' = held /\ pressed' = None
         /\ ctrlStatus' \in BOOLEAN
         /\ UNCHANGED <<shiftStatus, altStatus, capslockStatus, extScancode>>
<1>1. scancodeOf(byte) = byte /\ byte < 128 /\ ~ (byte >= 128) /\ byte # E0
  BY DEF scancodeOf, E0
<1>2. Make
  BY <1>1 DEF intrKeyboardHandler, Prefix, Break
<1>3. byte \notin Shift /\ byte \notin Alt /\ byte # CAPS_LOCK_MAKE
  BY DEF Shift, Alt, SHIFT_L_MAKE, SHIFT_R_MAKE, ALT_L_MAKE,
         ALT_R_MAKE, CAPS_LOCK_MAKE
<1>4. /\ ctrlStatus \in BOOLEAN /\ shiftStatus \in BOOLEAN /\ altStatus \in BOOLEAN
      /\ capslockStatus \in BOOLEAN /\ extScancode = FALSE
  BY DEF KeyboardInv
<1>5. \E control \in BOOLEAN :
        /\ wire' = Tail(wire) /\ held' = held /\ pressed' = pressed
        /\ ctrlStatus'     = (ctrlStatus \/ (control /\ byte \in Ctrl))
        /\ shiftStatus'    = (shiftStatus \/ (control /\ byte \in Shift))
        /\ altStatus'      = (altStatus \/ (control /\ byte \in Alt))
        /\ capslockStatus' = (capslockStatus # (control /\ byte = CAPS_LOCK_MAKE))
        /\ extScancode' = FALSE
  <2> DEFINE char == IF InKeymap(byte) THEN keymap(byte, column(byte)) ELSE None
             control == InKeymap(byte) /\ char = None
  <2>1. /\ wire' = Tail(wire) /\ held' = held /\ pressed' = pressed
        /\ ctrlStatus'     = (ctrlStatus \/ (control /\ byte \in Ctrl))
        /\ shiftStatus'    = (shiftStatus \/ (control /\ byte \in Shift))
        /\ altStatus'      = (altStatus \/ (control /\ byte \in Alt))
        /\ capslockStatus' = (capslockStatus # (control /\ byte = CAPS_LOCK_MAKE))
        /\ extScancode' = FALSE
    BY <1>1, <1>2 DEF Make, Received
  <2>2. control \in BOOLEAN
    OBVIOUS
  <2> HIDE DEF control, char
  <2> QED BY <2>1, <2>2
<1> QED BY <1>3, <1>4, <1>5

(* The handler in the midst of Pause. *)
LEMMA PauseHandled ==
  ASSUME KeyboardInv, PauseComes, intrKeyboardHandler
  PROVE  KeyboardInv'
<1>1. pressed = None /\ ~ extScancode /\ ShiftOK(held) /\ AltOK(held)
  BY DEF PauseComes
<1>2. /\ ctrlStatus \in BOOLEAN /\ shiftStatus \in BOOLEAN /\ altStatus \in BOOLEAN
      /\ capslockStatus \in BOOLEAN /\ extScancode \in BOOLEAN /\ held \subseteq Key
  BY DEF KeyboardInv
<1>3. CASE wire \in {<<225, 29, 69, 225, 157, 197>>, <<225, 157, 197>>, <<157, 197>>,
                     <<197>>}
  <2>1. PICK byte \in {225, 157, 197} : Head(wire) = byte
    BY <1>3
  <2>2. /\ wire' = Tail(wire) /\ held' = held /\ pressed' = None
        /\ ctrlStatus' = (ctrlStatus /\ byte # 157)
        /\ UNCHANGED <<shiftStatus, altStatus, capslockStatus, extScancode>>
        /\ typed' = None
    BY <1>1, <2>1, PauseBreak
  <2>3. ShiftOK(held)' /\ AltOK(held)' /\ (CtrlOK(held) => CtrlOK(held)')
    BY <1>1, <1>2, <2>2 DEF ShiftOK, AltOK, CtrlOK
  <2>4. CASE wire = <<225, 29, 69, 225, 157, 197>>
    <3>1. CtrlOK(held)
      BY <2>4 DEF PauseComes
    <3>2. wire' = <<29, 69, 225, 157, 197>>
      BY <2>2, <2>4
    <3>3. PauseComes'
      BY <1>1, <2>2, <2>3, <3>1, <3>2 DEF PauseComes
    <3> QED BY <1>2, <2>2, <3>3 DEF KeyboardInv
  <2>5. CASE wire = <<225, 157, 197>>
    <3>1. wire' = <<157, 197>>
      BY <2>2, <2>5
    <3>2. PauseComes'
      BY <1>1, <2>2, <2>3, <3>1 DEF PauseComes
    <3> QED BY <1>2, <2>2, <3>2 DEF KeyboardInv
  <2>6. CASE wire = <<157, 197>>
    <3>1. wire' = <<197>> /\ byte = 157
      BY <2>1, <2>2, <2>6
    <3>2. CtrlOK(held)'
      BY <2>2, <3>1 DEF CtrlOK
    <3>3. PauseComes'
      BY <1>1, <2>2, <2>3, <3>1, <3>2 DEF PauseComes
    <3> QED BY <1>2, <2>2, <3>3 DEF KeyboardInv
  <2>7. CASE wire = <<197>>
    <3>1. wire' = <<>>
      BY <2>2, <2>7
    <3>2. CtrlOK(held)
      BY <2>7 DEF PauseComes
    <3>3. TypedOK'
      BY <2>2 DEF TypedOK
    <3>4. Idle'
      BY <1>1, <2>2, <2>3, <3>1, <3>2, <3>3 DEF Idle, FlagsOK
    <3> QED BY <1>2, <2>2, <3>4 DEF KeyboardInv
  <2> QED BY <1>3, <2>4, <2>5, <2>6, <2>7
<1>4. CASE wire \in {<<29, 69, 225, 157, 197>>, <<69, 225, 157, 197>>}
  <2>1. PICK byte \in {29, 69} : Head(wire) = byte
    BY <1>4
  <2>2. /\ wire' = Tail(wire) /\ held' = held /\ pressed' = None
        /\ ctrlStatus' \in BOOLEAN
        /\ UNCHANGED <<shiftStatus, altStatus, capslockStatus, extScancode>>
    BY <1>1, <2>1, PauseMake
  <2>3. ShiftOK(held)' /\ AltOK(held)'
    BY <1>1, <2>2 DEF ShiftOK, AltOK
  <2>4. wire' \in {<<69, 225, 157, 197>>, <<225, 157, 197>>}
    <3>1. CASE wire = <<29, 69, 225, 157, 197>>
      BY <2>2, <3>1
    <3>2. CASE wire = <<69, 225, 157, 197>>
      BY <2>2, <3>2
    <3> QED BY <1>4, <3>1, <3>2
  <2>5. PauseComes'
    BY <1>1, <2>2, <2>3, <2>4 DEF PauseComes
  <2> QED BY <1>2, <2>2, <2>5 DEF KeyboardInv
<1> QED BY <1>3, <1>4 DEF PauseComes

-----------------------------------------------------------------------------
(* When all bytes are read the handler is at rest. *)
LEMMA AtRest == KeyboardInv /\ wire = <<>> => Idle
<1> SUFFICES ASSUME KeyboardInv, wire = <<>>
             PROVE  Idle
  OBVIOUS
<1>1. \A a, b : <<a>> # <<>> /\ <<a, b>> # <<>>
  OBVIOUS
<1>2. \A key, bit : Bytes(key, bit) # <<>>
  BY <1>1 DEF Bytes
<1>3. ~ MakeComes
  BY <1>1, <1>2 DEF MakeComes
<1>4. ~ BreakComes
  BY <1>1, <1>2 DEF BreakComes
<1>5. ~ PauseComes
  <2>1. /\ <<225, 29, 69, 225, 157, 197>> # <<>> /\ <<29, 69, 225, 157, 197>> # <<>>
        /\ <<69, 225, 157, 197>> # <<>> /\ <<225, 157, 197>> # <<>>
        /\ <<157, 197>> # <<>> /\ <<197>> # <<>>
    OBVIOUS
  <2> QED BY <2>1, Zenon DEF PauseComes
<1> QED BY <1>3, <1>4, <1>5 DEF KeyboardInv

(* What the user does next. *)
LEMMA UserSteps ==
  ASSUME KeyboardInv, wire = <<>>, Idle,
         \/ \E key \in Key : Press(key)
         \/ \E key \in held : LetGo(key)
         \/ Repeat
         \/ Pause
  PROVE  KeyboardInv'
<1>1. /\ UNCHANGED <<ctrlStatus, shiftStatus, altStatus, capslockStatus, extScancode>>
      /\ ~ extScancode
  BY DEF Press, LetGo, Repeat, Pause, flags, Idle
<1>2. /\ ctrlStatus \in BOOLEAN /\ shiftStatus \in BOOLEAN /\ altStatus \in BOOLEAN
      /\ capslockStatus \in BOOLEAN /\ extScancode \in BOOLEAN /\ held \subseteq Key
      /\ pressed # None => pressed \in held
  BY DEF KeyboardInv
<1>3. CtrlOK(held) /\ ShiftOK(held) /\ AltOK(held)
  BY DEF Idle, FlagsOK
<1>4. ASSUME NEW key \in Key, Press(key)
      PROVE  KeyboardInv'
  <2>1. held' = held \cup {key} /\ pressed' = key /\ wire' = Bytes(key, 0)
    BY <1>4 DEF Press
  <2>2. CtrlOK(held)' /\ ShiftOK(held)' /\ AltOK(held)'
    BY <1>1, <1>3, <2>1 DEF CtrlOK, ShiftOK, AltOK
  <2>3. MakeComes'
    BY <1>1, <2>1, <2>2 DEF MakeComes, FlagsOK, Bytes
  <2> QED BY <1>1, <1>2, <2>1, <2>3 DEF KeyboardInv
<1>5. ASSUME NEW key \in held, LetGo(key)
      PROVE  KeyboardInv'
  <2>1. held' = held \ {key} /\ pressed' = None /\ wire' = Bytes(key, 128)
    BY <1>5 DEF LetGo
  <2>2. held' \cup {key} = held /\ key \in Key
    BY <1>2, <2>1
  <2>3. BreakComes'
    <3>1. FlagsOK(held \cup {key})'
      BY <1>1, <1>3, <2>2 DEF FlagsOK, CtrlOK, ShiftOK, AltOK
    <3>2. ~ extScancode' /\ pressed' = None /\ wire' = Bytes(key, 128)
      BY <1>1, <2>1
    <3> QED BY <2>2, <3>1, <3>2 DEF BreakComes
  <2> QED BY <1>1, <1>2, <2>1, <2>3 DEF KeyboardInv
<1>6. CASE Repeat
  <2>1. /\ held' = held /\ pressed' = pressed /\ wire' = Bytes(pressed, 0)
        /\ pressed \in held
    BY <1>6 DEF Repeat
  <2>2. CtrlOK(held)' /\ ShiftOK(held)' /\ AltOK(held)'
    BY <1>1, <1>3, <2>1 DEF CtrlOK, ShiftOK, AltOK
  <2>3. MakeComes'
    BY <1>1, <2>1, <2>2 DEF MakeComes, FlagsOK, Bytes
  <2> QED BY <1>1, <1>2, <2>1, <2>3 DEF KeyboardInv
<1>7. CASE Pause
  <2>1. held' = held /\ pressed' = None /\ wire' = <<225, 29, 69, 225, 157, 197>>
    BY <1>7 DEF Pause, PauseBytes
  <2>2. CtrlOK(held)' /\ ShiftOK(held)' /\ AltOK(held)'
    BY <1>1, <1>3, <2>1 DEF CtrlOK, ShiftOK, AltOK
  <2>3. PauseComes'
    BY <1>1, <2>1, <2>2 DEF PauseComes
  <2> QED BY <1>1, <1>2, <2>1, <2>3 DEF KeyboardInv
<1> QED BY <1>4, <1>5, <1>6, <1>7

(* The invariant of the handler and the keyboard, for every step. *)
LEMMA KeyboardInvariant == KeyboardSpec => []KeyboardInv
<1>1. KeyboardInit => KeyboardInv
  <2> SUFFICES ASSUME KeyboardInit
               PROVE  KeyboardInv
    OBVIOUS
  <2>1. FlagsOK(held)
    BY DEF KeyboardInit, FlagsOK, CtrlOK, ShiftOK, AltOK
  <2>2. TypedOK
    BY DEF KeyboardInit, TypedOK
  <2>3. Idle
    BY <2>1, <2>2 DEF KeyboardInit, Idle
  <2> QED BY <2>3 DEF KeyboardInit, KeyboardInv
<1>2. KeyboardInv /\ [KeyboardNext]_keyboardVars => KeyboardInv'
  <2> SUFFICES ASSUME KeyboardInv, [KeyboardNext]_keyboardVars
               PROVE  KeyboardInv'
    OBVIOUS
  <2>1. Idle \/ MakeComes \/ BreakComes \/ PauseComes
    BY DEF KeyboardInv
  <2>2. CASE intrKeyboardHandler
    <3>1. wire # <<>>
      BY <2>2 DEF intrKeyboardHandler, Prefix, Break, Make, Received
    <3>2. ~ Idle
      BY <3>1 DEF Idle
    <3> QED BY <2>1, <2>2, <3>2, MakeHandled, BreakHandled, PauseHandled
  <2>3. ASSUME \/ \E key \in Key : Press(key)
               \/ \E key \in held : LetGo(key)
               \/ Repeat
               \/ Pause
        PROVE  KeyboardInv'
    <3>1. wire = <<>>
      BY <2>3 DEF Press, LetGo, Repeat, Pause
    <3>2. Idle
      BY <3>1, AtRest
    <3> QED BY <2>3, <3>1, <3>2, UserSteps
  <2>4. CASE UNCHANGED keyboardVars
    <3>1. /\ UNCHANGED <<ctrlStatus, shiftStatus, altStatus, capslockStatus, extScancode>>
          /\ UNCHANGED <<typed, wire, held, pressed>>
      BY <2>4 DEF keyboardVars, flags
    <3>2. \A down : FlagsOK(down) <=> FlagsOK(down)'
      BY <3>1 DEF FlagsOK, CtrlOK, ShiftOK, AltOK
    <3>3. Idle => Idle'
      BY <3>1 DEF Idle, TypedOK, FlagsOK, CtrlOK, ShiftOK, AltOK
    <3>4. MakeComes => MakeComes'
      BY <3>1 DEF MakeComes, FlagsOK, CtrlOK, ShiftOK, AltOK, LastByte, Extended,
                  Bytes
    <3>5. BreakComes => BreakComes'
      BY <3>1 DEF BreakComes, FlagsOK, CtrlOK, ShiftOK, AltOK, LastByte, Extended,
                  Bytes
    <3>6. PauseComes => PauseComes'
      BY <3>1 DEF PauseComes, CtrlOK, ShiftOK, AltOK
    <3> QED BY <2>1, <3>1, <3>3, <3>4, <3>5, <3>6 DEF KeyboardInv
  <2> QED BY <2>2, <2>3, <2>4 DEF KeyboardNext
<1> QED BY <1>1, <1>2, PTL DEF KeyboardSpec

(***************************************************************************)
(* For every keyboard and whatever the user does: when the bytes of an     *)
(* event are read, extScancode is FALSE again and no flag of Ctrl, Shift   *)
(* or Alt is left TRUE without a key held for it.                          *)
(***************************************************************************)
THEOREM NothingGetsStuck == KeyboardSpec => []NothingStuck
<1>1. KeyboardInv => NothingStuck
  <2> SUFFICES ASSUME KeyboardInv, wire = <<>>
               PROVE  Idle
    BY DEF NothingStuck, Idle, FlagsOK, CtrlOK, ShiftOK, AltOK
  <2> QED BY AtRest
<1> QED BY <1>1, KeyboardInvariant, PTL

(***************************************************************************)
(* For every keyboard and whatever the user does: what intrKeyboardHandler *)
(* puts into keyboardBuf is a character of the key that was pressed, or    *)
(* nothing if that key has none, shifted only for a reason.                *)
(***************************************************************************)
THEOREM TypesTheKey == KeyboardSpec => []TypesWhatIsPressed
<1>1. KeyboardInv => TypesWhatIsPressed
  <2> SUFFICES ASSUME KeyboardInv, wire = <<>>
               PROVE  Idle
    BY DEF TypesWhatIsPressed, Idle, TypedOK
  <2> QED BY AtRest
<1> QED BY <1>1, KeyboardInvariant, PTL
=============================================================================
