--------------------------- MODULE SemaphoresProofs ---------------------------
(***************************************************************************)
(* Proofs about Semaphores for every number of threads and every value.    *)
(* That the value counts rests on the lock alone, whoever calls.  What is  *)
(* said of the lists holds as long as at most one of the callers can be    *)
(* interrupted: a second one finds the lock taken with interrupts on, and  *)
(* a timer interrupt in lockAcquire then puts it on two lists.             *)
(***************************************************************************)
EXTENDS Semaphores, ThreadsProofs, TLAPS

AcquireLabel == {"lockAcquire", "acquireSpin", "acquireAppend", "acquireRecheck",
                 "acquireRemove", "acquireUnspin", "acquireBlock"}
ReleaseLabel == {"lockRelease", "releaseSpin", "releasePop", "releaseUnspin",
                 "releaseWake"}
Label == LockLabel \cup {"waitSchedule", "waitReturn", "downLoop", "downTake", "upAdd",
                         "upSignal", "signalWake", "release", "return"}

(* Where the lock is the caller's own. *)
Held == {"acquireRemove", "acquireUnspin", "waitReturn", "downLoop", "downTake",
         "upAdd", "upSignal", "signalWake", "release", "lockRelease"}

(* Where the call returns to (r) that a context at l is in, and where      *)
(* conditionWait or conditionSignal does (b).                              *)
Control(l, r, b) ==
  /\ l \in {"boot", "idle"} => r = "idle"
  /\ l \in AcquireLabel => r \in {"waitReturn", "downLoop", "upAdd"}
  /\ l \in ReleaseLabel => r \in {"waitSchedule", "return"}
  /\ l \in {"waitSchedule", "waitReturn", "return"} => r = l
  /\ l \in {"downLoop", "downTake"} => r \in {"waitReturn", "downLoop"}
  /\ l \in {"upAdd", "upSignal", "signalWake"} => r = "upAdd"
  /\ l = "release" => r \in {"waitReturn", "downLoop", "upAdd"}
  /\ r \in {"waitSchedule", "waitReturn"} => b = "downLoop"
  /\ l = "signalWake" => b = "release"

(* Only the boot thread boots, and it calls nothing. *)
Boots(t, l) == IF t = Main THEN l \in {"boot", "idle"} ELSE l # "boot"

TypeInv == /\ cur \in Thread
           /\ iflag \in [Thread -> BOOLEAN]
           /\ holder \in [Lock -> Thread \cup {NULL}]
           /\ pc \in [Ctx -> Label] /\ ret \in [Ctx -> Label]
           /\ back \in [Ctx -> Label]
           /\ lk \in [Ctx -> Lock]
           /\ thread \in [Ctx -> Thread \cup {NULL}]
           /\ oldStatus \in [Ctx -> BOOLEAN]

ControlOK == \A c \in Ctx : /\ Control(pc[c], ret[c], back[c])
                            /\ Boots(ThreadOf(c), pc[c])

HolderOK == \A c \in Ctx : holder[semLock] = ThreadOf(c) <=> pc[c] \in Held

ValueOK == value \in Nat /\ \A c \in Ctx : pc[c] = "downTake" => value # 0

LockInv == TypeInv /\ ControlOK /\ HolderOK /\ ValueOK

(* There is one lock, and no handler uses it: a context is a thread. *)
LEMMA CtxFacts ==
  /\ \A t \in Thread : Task(t) \in Ctx /\ ThreadOf(Task(t)) = t
  /\ \A c \in Ctx : ThreadOf(c) \in Thread /\ c = Task(ThreadOf(c))
  /\ semLock \in Lock /\ \A l \in Lock : l = semLock
  BY SemaphoresAssumption DEF Ctx, Task, ThreadOf

(* What LockInv says of the thread on the CPU and of its one context. *)
LEMMA TypeFacts ==
  ASSUME LockInv
  PROVE  /\ cur \in Thread /\ Task(cur) \in Ctx /\ ThreadOf(Task(cur)) = cur
         /\ \A c \in Ctx : ThreadOf(c) = cur <=> c = Task(cur)
         /\ \A c \in Ctx : lk[c] = semLock
         /\ Control(pc[Task(cur)], ret[Task(cur)], back[Task(cur)])
         /\ Boots(cur, pc[Task(cur)])
         /\ holder[semLock] = cur <=> pc[Task(cur)] \in Held
  BY CtxFacts DEF LockInv, TypeInv, ControlOK, HolderOK

(* Who acts is the thread on the CPU. *)
LEMMA ActsOnCpu ==
  ASSUME LockInv, NEW c \in Ctx, NEW l, At(c, l)
  PROVE  c = Task(cur) /\ pc[c] = l /\ panic = "none"
  BY TypeFacts DEF At

-----------------------------------------------------------------------------
(* The context c goes from its label to l1, to return to r1 or b1. *)
GoesTo(c, l1, r1, b1) ==
  /\ l1 \in Label /\ r1 \in Label /\ b1 \in Label
  /\ pc' = [pc EXCEPT ![c] = l1]
  /\ ret' = [ret EXCEPT ![c] = r1]
  /\ back' = [back EXCEPT ![c] = b1]

(* What that does to the lock: nothing, or it is taken, or given up. *)
LockStep(c, l1) ==
  \/ holder' = holder /\ (l1 \in Held <=> pc[c] \in Held)
  \/ /\ holder[semLock] = NULL /\ holder' = [holder EXCEPT ![semLock] = ThreadOf(c)]
     /\ l1 \in Held
  \/ /\ holder[semLock] = ThreadOf(c) /\ holder' = [holder EXCEPT ![semLock] = NULL]
     /\ l1 \notin Held

ValueStep(c, l1) == /\ value' \in Nat /\ (value' = value \/ pc[c] \in Held)
                    /\ l1 = "downTake" => value' # 0

(* A step of c to the labels l1, r1 and b1 keeps what is said of the       *)
(* control, the lock and the value, if it takes and gives back the lock    *)
(* as its labels say.                                                      *)
LEMMA ControlStep ==
  ASSUME LockInv, NEW c \in Ctx, NEW l1, NEW r1, NEW b1, GoesTo(c, l1, r1, b1),
         Control(l1, r1, b1), Boots(ThreadOf(c), l1), LockStep(c, l1), ValueStep(c, l1)
  PROVE  /\ ControlOK' /\ HolderOK' /\ ValueOK'
         /\ pc' \in [Ctx -> Label] /\ ret' \in [Ctx -> Label] /\ back' \in [Ctx -> Label]
         /\ holder' \in [Lock -> Thread \cup {NULL}]
<1>1. /\ \A d \in Ctx : /\ pc'[d] = IF d = c THEN l1 ELSE pc[d]
                        /\ ret'[d] = IF d = c THEN r1 ELSE ret[d]
                        /\ back'[d] = IF d = c THEN b1 ELSE back[d]
      /\ pc' \in [Ctx -> Label] /\ ret' \in [Ctx -> Label] /\ back' \in [Ctx -> Label]
  BY DEF LockInv, TypeInv, GoesTo
<1>2. /\ holder[semLock] \in Thread \cup {NULL} /\ NULL \notin Thread
      /\ \A d \in Ctx : holder[semLock] = ThreadOf(d) <=> pc[d] \in Held
      /\ \A d, e \in Ctx : ThreadOf(d) = ThreadOf(e) => d = e
      /\ \A d \in Ctx : ThreadOf(d) \in Thread
  BY CtxFacts, ThreadAssumption DEF LockInv, TypeInv, HolderOK
<1>3. /\ holder' \in [Lock -> Thread \cup {NULL}]
      /\ \/ holder'[semLock] = holder[semLock] /\ (l1 \in Held <=> pc[c] \in Held)
         \/ holder[semLock] = NULL /\ holder'[semLock] = ThreadOf(c) /\ l1 \in Held
         \/ holder[semLock] = ThreadOf(c) /\ holder'[semLock] = NULL /\ l1 \notin Held
  BY <1>2, CtxFacts DEF LockInv, TypeInv, LockStep
<1>4. ControlOK'
  BY <1>1 DEF LockInv, ControlOK
<1>5. HolderOK'
  BY <1>1, <1>2, <1>3 DEF HolderOK
<1>6. ValueOK'
  <2>1. ASSUME NEW d \in Ctx \ {c}, pc[d] = "downTake" PROVE value' = value
    BY <1>2, <2>1 DEF Held, ValueStep
  <2> QED BY <1>1, <2>1 DEF LockInv, ValueOK, ValueStep
<1> QED BY <1>1, <1>3, <1>4, <1>5, <1>6

(* schedule gives the CPU to a thread, or the kernel stops. *)
LEMMA ScheduleCpu ==
  ASSUME cur \in Thread, NEW h, NEW st, schedule(h, st)
  PROVE  cur' \in Thread
  BY DEF schedule

(* The context c takes a step of the control flow. *)
Follows(c) ==
  \E l1, r1, b1 : /\ GoesTo(c, l1, r1, b1) /\ Control(l1, r1, b1)
                  /\ Boots(ThreadOf(c), l1) /\ LockStep(c, l1) /\ ValueStep(c, l1)

RestTyped == /\ cur' \in Thread
             /\ iflag' \in [Thread -> BOOLEAN]
             /\ lk' \in [Ctx -> Lock]
             /\ thread' \in [Ctx -> Thread \cup {NULL}]
             /\ oldStatus' \in [Ctx -> BOOLEAN]

(* Such a step, with everything else of its type, keeps LockInv. *)
LEMMA FollowsInv ==
  ASSUME LockInv, NEW c \in Ctx, Follows(c), RestTyped PROVE LockInv'
  BY ControlStep DEF Follows, RestTyped, LockInv, TypeInv

(* Everything that the steps of the two calls of sync.c change of pc. *)
LEMMA AcquireMoves ==
  ASSUME LockInv, NEW c \in Ctx, lockAcquire(c), UNCHANGED <<condVars, value>>
  PROVE  Follows(c) /\ RestTyped
<1> DEFINE To(l1) == /\ GoesTo(c, l1, ret[c], back[c]) /\ Control(l1, ret[c], back[c])
                     /\ Boots(ThreadOf(c), l1) /\ LockStep(c, l1) /\ ValueStep(c, l1)
<1>1. /\ Control(pc[c], ret[c], back[c]) /\ Boots(ThreadOf(c), pc[c])
      /\ holder[semLock] = ThreadOf(c) <=> pc[c] \in Held
      /\ lk[c] = semLock /\ semLock \in Lock
      /\ pc \in [Ctx -> Label] /\ ret \in [Ctx -> Label] /\ back \in [Ctx -> Label]
      /\ value \in Nat /\ holder \in [Lock -> Thread \cup {NULL}] /\ TypeInv
  BY CtxFacts, TypeFacts DEF LockInv, ControlOK, HolderOK, ValueOK, TypeInv
<1>2. UNCHANGED <<ret, back, value, lk, thread, oldStatus, iflag>>
  BY DEF lockAcquire, AcquireTry, AcquireSpin, AcquireAppend, AcquireRecheck,
         AcquireRemove, AcquireUnspin, AcquireBlock, condVars
<1>3. cur' \in Thread
  BY ScheduleCpu DEF lockAcquire, AcquireTry, AcquireSpin, AcquireAppend, AcquireRecheck,
         AcquireRemove, AcquireUnspin, AcquireBlock, schedVars, LockInv, TypeInv
<1>4. RestTyped
  BY <1>1, <1>2, <1>3 DEF RestTyped, TypeInv
<1>5. \A l1 \in Label : pc' = [pc EXCEPT ![c] = l1] => GoesTo(c, l1, ret[c], back[c])
  BY <1>1, <1>2 DEF GoesTo
<1>6. \A l1 : l1 # "downTake" => ValueStep(c, l1)
  BY <1>1, <1>2 DEF ValueStep
<1> USE <1>1, <1>5, <1>6 DEF Label, LockLabel, Control, Boots, AcquireLabel,
       ReleaseLabel, LockStep, Held
<1>7. CASE AcquireTry(c)
  <2>1. CASE holder[semLock] = NULL
    <3>1. pc[c] = "lockAcquire" /\ ThreadOf(c) = cur /\ pc' = [pc EXCEPT ![c] = ret[c]]
          /\ holder' = [holder EXCEPT ![semLock] = cur]
      BY <1>7, <2>1 DEF AcquireTry, At, Cas, Goto
    <3>2. To(ret[c])
      BY <2>1, <3>1
    <3> QED BY <1>4, <3>2 DEF Follows
  <2>2. CASE holder[semLock] # NULL
    <3>1. pc[c] = "lockAcquire" /\ pc' = [pc EXCEPT ![c] = "acquireSpin"]
            /\ holder' = holder
      BY <1>7, <2>2 DEF AcquireTry, At, Cas, Goto
    <3>2. To("acquireSpin")
      BY <3>1
    <3> QED BY <1>4, <3>2 DEF Follows
  <2> QED BY <2>1, <2>2
<1>8. CASE AcquireRecheck(c)
  <2>1. CASE holder[semLock] = NULL
    <3>1. pc[c] = "acquireRecheck" /\ ThreadOf(c) = cur
            /\ pc' = [pc EXCEPT ![c] = "acquireRemove"]
          /\ holder' = [holder EXCEPT ![semLock] = cur]
      BY <1>8, <2>1 DEF AcquireRecheck, At, Cas, Goto
    <3>2. To("acquireRemove")
      BY <2>1, <3>1
    <3> QED BY <1>4, <3>2 DEF Follows
  <2>2. CASE holder[semLock] # NULL
    <3>1. pc[c] = "acquireRecheck" /\ pc' = [pc EXCEPT ![c] = "acquireBlock"]
            /\ holder' = holder
      BY <1>8, <2>2 DEF AcquireRecheck, At, Cas, Goto
    <3>2. To("acquireBlock")
      BY <3>1
    <3> QED BY <1>4, <3>2 DEF Follows
  <2> QED BY <2>1, <2>2
<1>9. CASE AcquireSpin(c)
  <2>1. pc[c] = "acquireSpin" /\ pc' = [pc EXCEPT ![c] = "acquireAppend"]
          /\ holder' = holder
    BY <1>9 DEF AcquireSpin, At, Goto, SpinAcquire
  <2>2. To("acquireAppend")
    BY <2>1
  <2> QED BY <1>4, <2>2 DEF Follows
<1>10. CASE AcquireAppend(c)
  <2>1. pc[c] = "acquireAppend" /\ pc' = [pc EXCEPT ![c] = "acquireRecheck"]
          /\ holder' = holder
    BY <1>10 DEF AcquireAppend, At, Goto, lockVars
  <2>2. To("acquireRecheck")
    BY <2>1
  <2> QED BY <1>4, <2>2 DEF Follows
<1>11. CASE AcquireRemove(c)
  <2>1. pc[c] = "acquireRemove" /\ pc' = [pc EXCEPT ![c] = "acquireUnspin"]
          /\ holder' = holder
    BY <1>11 DEF AcquireRemove, At, Goto, lockVars
  <2>2. To("acquireUnspin")
    BY <2>1
  <2> QED BY <1>4, <2>2 DEF Follows
<1>12. CASE AcquireUnspin(c)
  <2>1. pc[c] = "acquireUnspin" /\ pc' = [pc EXCEPT ![c] = ret[c]] /\ holder' = holder
    BY <1>12 DEF AcquireUnspin, At, Goto
  <2>2. To(ret[c])
    BY <2>1
  <2> QED BY <1>4, <2>2 DEF Follows
<1>13. CASE AcquireBlock(c)
  <2>1. pc[c] = "acquireBlock" /\ pc' = [pc EXCEPT ![c] = "lockAcquire"] /\ holder' = holder
    BY <1>13 DEF AcquireBlock, At, Goto
  <2>2. To("lockAcquire")
    BY <2>1
  <2> QED BY <1>4, <2>2 DEF Follows
<1> QED BY <1>7, <1>8, <1>9, <1>10, <1>11, <1>12, <1>13 DEF lockAcquire

(* The steps of lockRelease are such steps. *)
LEMMA ReleaseMoves ==
  ASSUME LockInv, NEW c \in Ctx, lockRelease(c), UNCHANGED <<condVars, value>>
  PROVE  Follows(c) /\ RestTyped
<1> DEFINE To(l1) == /\ GoesTo(c, l1, ret[c], back[c]) /\ Control(l1, ret[c], back[c])
                     /\ Boots(ThreadOf(c), l1) /\ LockStep(c, l1) /\ ValueStep(c, l1)
<1>1. /\ Control(pc[c], ret[c], back[c]) /\ Boots(ThreadOf(c), pc[c])
      /\ holder[semLock] = ThreadOf(c) <=> pc[c] \in Held
      /\ lk[c] = semLock /\ semLock \in Lock
      /\ pc \in [Ctx -> Label] /\ ret \in [Ctx -> Label] /\ back \in [Ctx -> Label]
      /\ value \in Nat /\ holder \in [Lock -> Thread \cup {NULL}] /\ TypeInv
  BY CtxFacts, TypeFacts DEF LockInv, ControlOK, HolderOK, ValueOK, TypeInv
<1>2. UNCHANGED <<ret, back, value, lk, oldStatus, iflag>>
  BY DEF lockRelease, ReleaseClear, ReleaseSpin, ReleasePop, ReleaseUnspin, ReleaseWake,
         condVars
<1>3. cur' = cur /\ thread' \in [Ctx -> Thread \cup {NULL}]
  BY <1>1 DEF lockRelease, ReleaseClear, ReleaseSpin, ReleasePop, ReleaseUnspin,
     ReleaseWake, schedVars, threadUnblock, TypeInv
<1>4. RestTyped
  BY <1>1, <1>2, <1>3 DEF RestTyped, TypeInv
<1>5. \A l1 \in Label : pc' = [pc EXCEPT ![c] = l1] => GoesTo(c, l1, ret[c], back[c])
  BY <1>1, <1>2 DEF GoesTo
<1>6. \A l1 : l1 # "downTake" => ValueStep(c, l1)
  BY <1>1, <1>2 DEF ValueStep
<1> USE <1>1, <1>5, <1>6 DEF Label, LockLabel, Control, Boots, AcquireLabel,
       ReleaseLabel, LockStep, Held
<1>7. CASE ReleaseClear(c)
  <2>1. /\ pc[c] = "lockRelease" /\ ThreadOf(c) = cur
        /\ pc' = [pc EXCEPT ![c] = "releaseSpin"]
        /\ holder' = [holder EXCEPT ![semLock] = NULL]
    BY <1>7 DEF ReleaseClear, At, Goto
  <2>2. To("releaseSpin")
    BY <2>1
  <2> QED BY <1>4, <2>2 DEF Follows
<1>8. CASE ReleaseSpin(c)
  <2>1. pc[c] = "releaseSpin" /\ pc' = [pc EXCEPT ![c] = "releasePop"] /\ holder' = holder
    BY <1>8 DEF ReleaseSpin, At, Goto, SpinAcquire
  <2>2. To("releasePop")
    BY <2>1
  <2> QED BY <1>4, <2>2 DEF Follows
<1>9. CASE ReleasePop(c)
  <2>1. pc[c] = "releasePop" /\ pc' = [pc EXCEPT ![c] = "releaseUnspin"] /\ holder' = holder
    BY <1>9 DEF ReleasePop, At, Goto, lockVars
  <2>2. To("releaseUnspin")
    BY <2>1
  <2> QED BY <1>4, <2>2 DEF Follows
<1>10. CASE ReleaseUnspin(c)
  <2> DEFINE l1 == IF thread[c] = NULL THEN ret[c] ELSE "releaseWake"
  <2>1. pc[c] = "releaseUnspin" /\ pc' = [pc EXCEPT ![c] = l1] /\ holder' = holder
    BY <1>10 DEF ReleaseUnspin, At, Goto
  <2>2. To(l1)
    BY <2>1
  <2> QED BY <1>4, <2>2 DEF Follows
<1>11. CASE ReleaseWake(c)
  <2>1. pc[c] = "releaseWake" /\ pc' = [pc EXCEPT ![c] = ret[c]] /\ holder' = holder
    BY <1>11 DEF ReleaseWake, At, Goto, lockVars
  <2>2. To(ret[c])
    BY <2>1
  <2> QED BY <1>4, <2>2 DEF Follows
<1> QED BY <1>7, <1>8, <1>9, <1>10, <1>11 DEF lockRelease

(* So are those of conditionWait and conditionSignal, *)
LEMMA ConditionMoves ==
  ASSUME LockInv, NEW c \in Ctx, UNCHANGED value,
         WaitSchedule(c) \/ WaitReturn(c) \/ SignalWake(c)
  PROVE  Follows(c) /\ RestTyped
<1> DEFINE To(l1, r1) == /\ GoesTo(c, l1, r1, back[c]) /\ Control(l1, r1, back[c])
                         /\ Boots(ThreadOf(c), l1) /\ LockStep(c, l1) /\ ValueStep(c, l1)
<1>1. /\ Control(pc[c], ret[c], back[c]) /\ Boots(ThreadOf(c), pc[c])
      /\ lk[c] = semLock /\ semLock \in Lock
      /\ pc \in [Ctx -> Label] /\ ret \in [Ctx -> Label] /\ back \in [Ctx -> Label]
      /\ value \in Nat /\ TypeInv
  BY CtxFacts, TypeFacts DEF LockInv, ControlOK, HolderOK, ValueOK, TypeInv
<1>2. UNCHANGED <<back, value, holder>>
  BY DEF WaitSchedule, WaitReturn, SignalWake, condVars, lockVars
<1>3. \A l1, r1 \in Label : pc' = [pc EXCEPT ![c] = l1] /\ ret' = [ret EXCEPT ![c] = r1]
                              => GoesTo(c, l1, r1, back[c])
  BY <1>1, <1>2 DEF GoesTo
<1>4. \A l1 : l1 # "downTake" => ValueStep(c, l1)
  BY <1>1, <1>2 DEF ValueStep
<1> USE <1>1, <1>3, <1>4 DEF Label, LockLabel, Control, Boots, AcquireLabel, ReleaseLabel,
                             LockStep, Held
<1>5. CASE WaitSchedule(c)
  <2>1. /\ pc[c] = "waitSchedule" /\ pc' = [pc EXCEPT ![c] = "lockAcquire"]
        /\ ret' = [ret EXCEPT ![c] = "waitReturn"] /\ lk' = [lk EXCEPT ![c] = semLock]
        /\ UNCHANGED <<iflag, thread, oldStatus>>
    BY <1>5 DEF WaitSchedule, At, Goto, Call, condVars
  <2>2. To("lockAcquire", "waitReturn")
    BY <1>2, <2>1
  <2>3. cur' \in Thread
    BY <1>5, ScheduleCpu DEF WaitSchedule, TypeInv
  <2>4. RestTyped
    BY <2>1, <2>3 DEF RestTyped, TypeInv
  <2> QED BY <2>2, <2>4 DEF Follows
<1>6. CASE WaitReturn(c)
  <2>1. /\ pc[c] = "waitReturn" /\ pc' = [pc EXCEPT ![c] = back[c]] /\ cur' = cur
        /\ ret' = [ret EXCEPT ![c] = ret[c]] /\ UNCHANGED <<lk, thread, oldStatus>>
        /\ iflag' = [iflag EXCEPT ![cur] = oldStatus[c]]
    BY <1>6 DEF WaitReturn, At, Goto, condVars, schedVars
  <2>2. To(back[c], ret[c])
    BY <1>2, <2>1
  <2>3. RestTyped
    BY <2>1 DEF RestTyped, TypeInv
  <2> QED BY <2>2, <2>3 DEF Follows
<1>7. CASE SignalWake(c)
  <2>1. /\ pc[c] = "signalWake" /\ pc' = [pc EXCEPT ![c] = back[c]] /\ cur' = cur
        /\ ret' = [ret EXCEPT ![c] = ret[c]] /\ UNCHANGED <<iflag, lk, oldStatus>>
        /\ thread' = [thread EXCEPT ![c] = NULL]
    BY <1>7 DEF SignalWake, At, Goto, condVars, schedVars, threadUnblock
  <2>2. To(back[c], ret[c])
    BY <1>2, <2>1
  <2>3. RestTyped
    BY <2>1 DEF RestTyped, TypeInv
  <2> QED BY <2>2, <2>3 DEF Follows
<1> QED BY <1>5, <1>6, <1>7

(* those of semaphoreDown and semaphoreUp themselves, *)
LEMMA CallMoves ==
  ASSUME LockInv, NEW c \in Ctx,
         DownLoop(c) \/ DownTake(c) \/ UpAdd(c) \/ UpSignal(c) \/ Release(c) \/ Return(c)
  PROVE  Follows(c) /\ RestTyped
<1> DEFINE To(l1, r1, b1) == /\ GoesTo(c, l1, r1, b1) /\ Control(l1, r1, b1)
                             /\ Boots(ThreadOf(c), l1) /\ LockStep(c, l1)
                             /\ ValueStep(c, l1)
<1>1. /\ Control(pc[c], ret[c], back[c]) /\ Boots(ThreadOf(c), pc[c])
      /\ lk[c] = semLock /\ semLock \in Lock
      /\ pc \in [Ctx -> Label] /\ ret \in [Ctx -> Label] /\ back \in [Ctx -> Label]
      /\ value \in Nat /\ (pc[c] = "downTake" => value # 0) /\ TypeInv
  BY CtxFacts, TypeFacts DEF LockInv, ControlOK, HolderOK, ValueOK, TypeInv
<1>2. ret = [ret EXCEPT ![c] = ret[c]] /\ back = [back EXCEPT ![c] = back[c]]
      /\ pc = [pc EXCEPT ![c] = pc[c]]
  BY <1>1
<1>3. UNCHANGED holder
  BY DEF DownLoop, DownTake, UpAdd, UpSignal, Release, Return, conditionWait,
         conditionSignal, lockVars
<1> USE <1>1 DEF Label, LockLabel, Control, Boots, AcquireLabel, ReleaseLabel,
                 LockStep, ValueStep, Held, GoesTo
<1>4. CASE DownLoop(c) /\ value = 0
  <2>1. /\ pc[c] = "downLoop" /\ pc' = [pc EXCEPT ![c] = "lockRelease"]
        /\ ret' = [ret EXCEPT ![c] = "waitSchedule"]
        /\ back' = [back EXCEPT ![c] = "downLoop"] /\ value' = value
        /\ cur' = cur /\ thread' = thread /\ lk' = [lk EXCEPT ![c] = semLock]
        /\ iflag' = [iflag EXCEPT ![cur] = FALSE]
        /\ oldStatus' = [oldStatus EXCEPT ![c] = iflag[cur]]
    BY <1>4 DEF DownLoop, conditionWait, At, Goto, Call
  <2>2. To("lockRelease", "waitSchedule", "downLoop")
    BY <1>3, <2>1
  <2>3. RestTyped
    BY <2>1 DEF RestTyped, TypeInv
  <2> QED BY <2>2, <2>3 DEF Follows
<1>5. CASE DownLoop(c) /\ value # 0
  <2>1. /\ pc[c] = "downLoop" /\ pc' = [pc EXCEPT ![c] = "downTake"]
        /\ UNCHANGED <<ret, back, value, cur, iflag, lk, thread, oldStatus>>
    BY <1>5 DEF DownLoop, At, Goto, schedVars, condVars
  <2>2. To("downTake", ret[c], back[c])
    BY <1>2, <1>3, <1>5, <2>1
  <2>3. RestTyped
    BY <2>1 DEF RestTyped, TypeInv
  <2> QED BY <2>2, <2>3 DEF Follows
<1>6. CASE DownTake(c)
  <2>1. /\ pc[c] = "downTake" /\ pc' = [pc EXCEPT ![c] = "release"] /\ value' = value - 1
        /\ UNCHANGED <<ret, back, cur, iflag, lk, thread, oldStatus>>
    BY <1>6 DEF DownTake, At, Goto, schedVars, condVars
  <2>2. To("release", ret[c], back[c])
    BY <1>2, <1>3, <2>1
  <2>3. RestTyped
    BY <2>1 DEF RestTyped, TypeInv
  <2> QED BY <2>2, <2>3 DEF Follows
<1>7. CASE UpAdd(c)
  <2>1. /\ pc[c] = "upAdd" /\ pc' = [pc EXCEPT ![c] = "upSignal"] /\ value' = value + 1
        /\ UNCHANGED <<ret, back, cur, iflag, lk, thread, oldStatus>>
    BY <1>7 DEF UpAdd, At, Goto, schedVars, condVars
  <2>2. To("upSignal", ret[c], back[c])
    BY <1>2, <1>3, <2>1
  <2>3. RestTyped
    BY <2>1 DEF RestTyped, TypeInv
  <2> QED BY <2>2, <2>3 DEF Follows
<1>8. CASE UpSignal(c)
  <2> DEFINE first == ListFirst(heap, semCond)
             l1 == IF ListEmpty(heap, semCond) THEN "release"
                   ELSE IF first \notin Thread THEN pc[c] ELSE "signalWake"
  <2>1. /\ pc[c] = "upSignal" /\ pc' = [pc EXCEPT ![c] = l1] /\ value' = value
        /\ back' = [back EXCEPT ![c] = "release"]
        /\ UNCHANGED <<ret, cur, iflag, lk, oldStatus>>
        /\ thread' \in {thread, [thread EXCEPT ![c] = first]}
        /\ thread' # thread => first \in Thread
    BY <1>2, <1>8 DEF UpSignal, conditionSignal, At, Goto
  <2> HIDE DEF first
  <2>2. To(l1, ret[c], "release")
    BY <1>2, <1>3, <2>1
  <2>3. RestTyped
    BY <2>1 DEF RestTyped, TypeInv
  <2> HIDE DEF l1
  <2> QED BY <2>2, <2>3 DEF Follows
<1>9. CASE Release(c)
  <2>1. /\ pc[c] = "release" /\ pc' = [pc EXCEPT ![c] = "lockRelease"]
        /\ ret' = [ret EXCEPT ![c] = "return"] /\ lk' = [lk EXCEPT ![c] = semLock]
        /\ UNCHANGED <<back, value, cur, iflag, thread, oldStatus>>
    BY <1>9 DEF Release, At, Goto, Call, schedVars, condVars
  <2>2. To("lockRelease", "return", back[c])
    BY <1>2, <1>3, <2>1
  <2>3. RestTyped
    BY <2>1 DEF RestTyped, TypeInv
  <2> QED BY <2>2, <2>3 DEF Follows
<1>10. CASE Return(c)
  <2>1. /\ pc[c] = "return" /\ pc' = [pc EXCEPT ![c] = "idle"]
        /\ ret' = [ret EXCEPT ![c] = "idle"] /\ back' = [back EXCEPT ![c] = "idle"]
        /\ oldStatus' = [oldStatus EXCEPT ![c] = TRUE]
        /\ iflag' = [iflag EXCEPT ![cur] = TRUE]
        /\ UNCHANGED <<value, cur, lk, thread>>
    BY <1>10 DEF Return, At, Goto, schedVars
  <2>2. To("idle", "idle", "idle")
    BY <1>3, <2>1
  <2>3. RestTyped
    BY <2>1 DEF RestTyped, TypeInv
  <2> QED BY <2>2, <2>3 DEF Follows
<1> QED BY <1>4, <1>5, <1>6, <1>7, <1>8, <1>9, <1>10

(* a call of either, *)
LEMMA EnterMoves ==
  ASSUME LockInv, NEW t \in Thread \ {Main}, NEW label \in {"downLoop", "upAdd"},
         Enter(t, label)
  PROVE  Follows(Task(t)) /\ RestTyped
<1> DEFINE c == Task(t)
<1>1. /\ pc[c] = "idle" /\ pc' = [pc EXCEPT ![c] = "lockAcquire"]
      /\ ret' = [ret EXCEPT ![c] = label] /\ lk' = [lk EXCEPT ![c] = semLock]
      /\ iflag' = [iflag EXCEPT ![t] = t \notin Process]
      /\ UNCHANGED <<back, value, cur, thread, oldStatus, holder>>
  BY DEF Enter, At, Goto, Call, schedVars, condVars, lockVars
<1>2. c \in Ctx /\ ThreadOf(c) = t /\ semLock \in Lock
  BY CtxFacts
<1> HIDE DEF c
<1>3. /\ Control(pc[c], ret[c], back[c]) /\ value \in Nat /\ TypeInv
      /\ pc \in [Ctx -> Label] /\ ret \in [Ctx -> Label] /\ back \in [Ctx -> Label]
  BY <1>2 DEF LockInv, ControlOK, ValueOK, TypeInv
<1>4. RestTyped
  BY <1>1, <1>2, <1>3 DEF RestTyped, TypeInv
<1>5. GoesTo(c, "lockAcquire", label, back[c])
  BY <1>1, <1>2, <1>3 DEF GoesTo, Label, LockLabel
<1>6. Control("lockAcquire", label, back[c]) /\ Boots(ThreadOf(c), "lockAcquire")
  BY <1>1, <1>2, <1>3 DEF Control, Boots, AcquireLabel, ReleaseLabel
<1>7. LockStep(c, "lockAcquire") /\ ValueStep(c, "lockAcquire")
  BY <1>1, <1>3 DEF LockStep, ValueStep, Held
<1>8. Follows(c)
  BY <1>5, <1>6, <1>7 DEF Follows
<1> QED BY <1>4, <1>8 DEF c

(* and what main does at boot. *)
LEMMA BootMoves ==
  ASSUME LockInv, BootStep
  PROVE  Follows(Task(Main)) /\ RestTyped
<1> DEFINE c == Task(Main)
           l1 == IF \E t \in Thread : status[t] = "unborn" THEN "boot" ELSE "idle"
<1>1. /\ pc[c] = "boot" /\ pc' = [pc EXCEPT ![c] = l1]
      /\ cur' = cur /\ iflag' \in {iflag, [iflag EXCEPT ![Main] = TRUE]}
      /\ UNCHANGED <<ret, back, value, lk, thread, oldStatus, holder>>
  <2>1. c \in Ctx /\ pc \in [Ctx -> Label]
    BY CtxFacts, ThreadAssumption DEF LockInv, TypeInv
  <2> QED BY <2>1 DEF BootStep, Boot, At, Goto, Task, schedVars, condVars, lockVars,
         threadStart
<1>2. c \in Ctx /\ ThreadOf(c) = Main
  BY CtxFacts, ThreadAssumption
<1> HIDE DEF c
<1>3. /\ Control(pc[c], ret[c], back[c]) /\ value \in Nat /\ TypeInv
      /\ pc \in [Ctx -> Label] /\ ret \in [Ctx -> Label] /\ back \in [Ctx -> Label]
  BY <1>2 DEF LockInv, ControlOK, ValueOK, TypeInv
<1>4. RestTyped
  BY <1>1, <1>2, <1>3 DEF RestTyped, TypeInv
<1>5. l1 \in {"boot", "idle"}
  OBVIOUS
<1> HIDE DEF l1
<1>6. GoesTo(c, l1, ret[c], back[c])
  BY <1>1, <1>2, <1>3, <1>5 DEF GoesTo, Label, LockLabel
<1>7. Control(l1, ret[c], back[c]) /\ Boots(ThreadOf(c), l1)
  BY <1>1, <1>2, <1>3, <1>5 DEF Control, Boots, AcquireLabel, ReleaseLabel
<1>8. LockStep(c, l1) /\ ValueStep(c, l1)
  BY <1>1, <1>3, <1>5 DEF LockStep, ValueStep, Held
<1>9. Follows(c)
  BY <1>6, <1>7, <1>8 DEF Follows
<1> QED BY <1>4, <1>9 DEF c

(* Nobody holds the lock when the kernel starts. *)
LEMMA LockInvInit == Init => LockInv
<1> SUFFICES ASSUME Init PROVE LockInv
  OBVIOUS
<1>1. /\ cur = Main /\ holder = [l \in Lock |-> NULL] /\ value = Initial
      /\ pc = [c \in Ctx |-> IF c = Task(Main) THEN "boot" ELSE "idle"]
      /\ ret = [c \in Ctx |-> "idle"] /\ back = [c \in Ctx |-> "idle"]
      /\ lk \in [Ctx -> Lock] /\ thread = [c \in Ctx |-> NULL]
      /\ oldStatus = [c \in Ctx |-> TRUE] /\ iflag = [t \in Thread |-> t # Main]
  BY DEF Init, ThreadsInit, LocksInit, ConditionsInit, Task
<1>2. Main \in Thread /\ NULL \notin Thread /\ Initial \in Nat
  BY ThreadAssumption, SemaphoresAssumption
<1>3. TypeInv
  BY <1>1, <1>2 DEF TypeInv, Label, LockLabel
<1>4. ControlOK
  BY <1>1, <1>2, CtxFacts DEF ControlOK, Control, Boots, AcquireLabel, ReleaseLabel
<1>5. HolderOK /\ ValueOK
  BY <1>1, <1>2, CtxFacts DEF HolderOK, ValueOK, Held
<1> QED BY <1>3, <1>4, <1>5 DEF LockInv

(* Every step keeps LockInv, whoever calls and whoever is interrupted. *)
LEMMA LockInvNext == LockInv /\ [Next]_vars => LockInv'
<1> SUFFICES ASSUME LockInv, [Next]_vars PROVE LockInv'
  OBVIOUS
<1>1. CASE BootStep
  BY <1>1, BootMoves, FollowsInv, CtxFacts, ThreadAssumption
<1>2. CASE Tick
  <2>1. cur' \in Thread
    BY <1>2, ScheduleCpu DEF Tick, Timer, TimerPreempts, LockInv, TypeInv
  <2>2. UNCHANGED <<iflag, holder, pc, ret, back, lk, thread, oldStatus, value>>
    BY <1>2 DEF Tick, Timer, TimerPreempts, lockVars, callVars, condVars
  <2> QED BY <2>1, <2>2 DEF LockInv, TypeInv, ControlOK, HolderOK, ValueOK
<1>3. CASE \E t \in Thread \ {Main} : semaphoreDown(t) \/ semaphoreUp(t)
  <2>1. PICK t \in Thread \ {Main} : Enter(t, "downLoop") \/ Enter(t, "upAdd")
    BY <1>3 DEF semaphoreDown, semaphoreUp
  <2> QED BY <2>1, EnterMoves, FollowsInv, CtxFacts
<1>4. CASE \E c \in Ctx : Step(c)
  <2>1. PICK c \in Ctx : Step(c)
    BY <1>4
  <2>2. CASE (lockAcquire(c) \/ lockRelease(c)) /\ UNCHANGED <<condVars, value>>
    BY <2>2, AcquireMoves, ReleaseMoves, FollowsInv
  <2>3. CASE (WaitSchedule(c) \/ WaitReturn(c) \/ SignalWake(c)) /\ UNCHANGED value
    BY <2>3, ConditionMoves, FollowsInv
  <2>4. CASE DownLoop(c) \/ DownTake(c) \/ UpAdd(c) \/ UpSignal(c) \/ Release(c)
          \/ Return(c)
    BY <2>4, CallMoves, FollowsInv
  <2> QED BY <2>1, <2>2, <2>3, <2>4 DEF Step, SyncStep
<1>5. CASE UNCHANGED vars
  BY <1>5 DEF vars, lockVars, callVars, condVars, schedVars, LockInv, TypeInv, ControlOK,
              HolderOK, ValueOK
<1> QED BY <1>1, <1>2, <1>3, <1>4, <1>5 DEF Next

(* The lock has one holder, who is where the code holds it. *)
LEMMA LockInvariant == Spec => []LockInv
  BY LockInvInit, LockInvNext, PTL DEF Spec

(***************************************************************************)
(* semaphoreUp and semaphoreDown count, and never below zero: the unit     *)
(* that semaphoreDown has seen is still there when it takes it, because    *)
(* only the holder of the lock changes the value.                          *)
(***************************************************************************)
THEOREM SemaphoreCounts == Spec => ImplementsSemaphore
<1>1. Init => Counter!Init
  BY DEF Init, Counter!Init
<1>2. LockInv /\ [Next]_vars => [Counter!Up \/ Counter!Down]_value
  <2> SUFFICES ASSUME LockInv, [Next]_vars, value' # value
               PROVE  Counter!Up \/ Counter!Down
    OBVIOUS
  <2>1. \E c \in Ctx : DownTake(c) \/ UpAdd(c)
    BY DEF Next, vars, BootStep, Tick, semaphoreDown, semaphoreUp, Enter, Step, DownLoop,
           UpSignal, Release, Return
  <2>2. PICK c \in Ctx : DownTake(c) \/ UpAdd(c)
    BY <2>1
  <2>3. value \in Nat /\ (pc[c] = "downTake" => value # 0)
    BY DEF LockInv, ValueOK
  <2> QED BY <2>2, <2>3 DEF DownTake, UpAdd, At, Counter!Up, Counter!Down
<1> QED BY <1>1, <1>2, LockInvariant, PTL DEF Spec, ImplementsSemaphore, Counter!Spec

-----------------------------------------------------------------------------
(***************************************************************************)
(* From here on at most one thread calls with interrupts on.               *)
(***************************************************************************)
OneContender == \A t, u \in Thread \ (Process \cup {Main}) : t = u

(* Between conditionWait and the schedule that follows. *)
Sleeping(l, r) == l = "waitSchedule" \/ (l \in ReleaseLabel /\ r = "waitSchedule")

(* Inside conditionWait, which runs with interrupts off. *)
Waits(l, r) == \/ Sleeping(l, r)
               \/ r = "waitReturn" /\ l \in AcquireLabel \cup {"waitReturn"}

FlagAt(t, l, r) == IF t = Main THEN l # "boot"
                   ELSE IF t \in Process THEN l = "idle" ELSE ~ Waits(l, r)

FlagsOK == \A c \in Ctx :
  /\ iflag[ThreadOf(c)] = FlagAt(ThreadOf(c), pc[c], ret[c])
  /\ Waits(pc[c], ret[c]) => oldStatus[c] = (ThreadOf(c) \notin Process)

(* With interrupts off a thread leaves the CPU only to wait. *)
OffCpu == \A c \in Ctx :
  ThreadOf(c) # cur /\ ~ iflag[ThreadOf(c)] => pc[c] = "lockAcquire"

(* Only a process ever queues itself on the lock, which the one contender  *)
(* that was preempted has: the lock is still taken when it is tried again. *)
SpinOK == \A c \in Ctx : pc[c] \in AcquireLabel \ {"lockAcquire"} =>
  /\ ThreadOf(c) = cur /\ cur \in Process /\ holder[semLock] # NULL
  /\ pc[c] \notin {"acquireRemove", "acquireUnspin"}

FlagInv == FlagsOK /\ OffCpu /\ SpinOK

(* If the lock is taken, the thread on the CPU has it, or the contender. *)
LEMMA WhoHolds ==
  ASSUME OneContender, LockInv, FlagInv, cur \notin Process, pc[Task(cur)] = "lockAcquire"
  PROVE  holder[semLock] = NULL
<1>1. SUFFICES ASSUME NEW c \in Ctx, holder[semLock] = ThreadOf(c) PROVE FALSE
  BY CtxFacts DEF LockInv, TypeInv
<1>2. pc[c] \in Held /\ Boots(ThreadOf(c), pc[c])
  BY <1>1 DEF LockInv, HolderOK, ControlOK
<1>3. ThreadOf(c) # cur /\ ThreadOf(c) # Main /\ cur # Main
  BY <1>1, <1>2, TypeFacts DEF Held, Boots
<1>4. ThreadOf(c) \in Process
  BY <1>3, CtxFacts, TypeFacts DEF OneContender
<1>5. ~ iflag[ThreadOf(c)]
  BY <1>2, <1>3, <1>4 DEF FlagInv, FlagsOK, FlagAt, Held
<1> QED BY <1>2, <1>3, <1>5 DEF FlagInv, OffCpu, Held

(* The thread on the CPU goes on at l1, in a call that returns to r1. *)
Own(l1, r1) == /\ pc' = [pc EXCEPT ![Task(cur)] = l1]
               /\ ret' = [ret EXCEPT ![Task(cur)] = r1]

(* A step of the thread on the CPU moves no other context. *)
LEMMA OwnFacts ==
  ASSUME LockInv, NEW l1, NEW r1, Own(l1, r1)
  PROVE  \A c \in Ctx : /\ pc'[c] = IF c = Task(cur) THEN l1 ELSE pc[c]
                        /\ ret'[c] = IF c = Task(cur) THEN r1 ELSE ret[c]
  BY TypeFacts DEF LockInv, TypeInv, Own

(* What is to be said of the flag and the lock after a step. *)
FlagsStep(l1, r1) ==
  /\ \A t \in Thread \ {cur} : iflag'[t] = iflag[t]
  /\ \A c \in Ctx \ {Task(cur)} : oldStatus'[c] = oldStatus[c]
  /\ iflag'[cur] = FlagAt(cur, l1, r1)
  /\ Waits(l1, r1) => oldStatus'[Task(cur)] = (cur \notin Process)
  /\ cur' # cur => l1 = "lockAcquire" \/ iflag'[cur]
  /\ l1 \in AcquireLabel \ {"lockAcquire"} =>
       /\ cur' = cur /\ cur \in Process /\ holder'[semLock] # NULL
       /\ l1 \notin {"acquireRemove", "acquireUnspin"}

(* A step that saves, restores and clears the interrupt flag as its        *)
(* labels say keeps FlagInv.                                               *)
LEMMA FlagStep ==
  ASSUME LockInv, FlagInv, NEW l1, NEW r1, Own(l1, r1), FlagsStep(l1, r1)
  PROVE  FlagInv'
<1>1. /\ \A c \in Ctx : /\ pc'[c] = IF c = Task(cur) THEN l1 ELSE pc[c]
                        /\ ret'[c] = IF c = Task(cur) THEN r1 ELSE ret[c]
      /\ cur \in Thread /\ \A c \in Ctx : ThreadOf(c) = cur <=> c = Task(cur)
      /\ \A c \in Ctx : ThreadOf(c) \in Thread
  BY OwnFacts, TypeFacts, CtxFacts
<1>2. FlagsOK'
  BY <1>1 DEF FlagInv, FlagsOK, FlagsStep
<1>3. OffCpu'
  BY <1>1 DEF FlagInv, OffCpu, FlagsStep
<1>4. SpinOK'
  BY <1>1 DEF FlagInv, SpinOK, FlagsStep
<1> QED BY <1>2, <1>3, <1>4 DEF FlagInv

(* A step that does nothing to the flag does not enter or leave a call. *)
Alike(l1, r1) ==
  LET c == Task(cur)
  IN  /\ l1 \in {"boot", "idle"} <=> pc[c] \in {"boot", "idle"}
      /\ l1 = "boot" <=> pc[c] = "boot"
      /\ Waits(l1, r1) <=> Waits(pc[c], ret[c])

(* So does a step that leaves the flag alone, between labels where the     *)
(* flag is to be the same.                                                 *)
LEMMA AlikeStep ==
  ASSUME LockInv, FlagInv, NEW l1, NEW r1, Own(l1, r1), Alike(l1, r1),
         UNCHANGED <<iflag, oldStatus>>,
         cur' # cur => l1 = "lockAcquire",
         l1 \in AcquireLabel \ {"lockAcquire"} =>
           /\ cur' = cur /\ cur \in Process /\ holder'[semLock] # NULL
           /\ l1 \notin {"acquireRemove", "acquireUnspin"}
  PROVE  FlagInv'
<1>1. /\ iflag[cur] = FlagAt(cur, pc[Task(cur)], ret[Task(cur)])
      /\ Waits(pc[Task(cur)], ret[Task(cur)]) => oldStatus[Task(cur)] = (cur \notin Process)
      /\ Boots(cur, pc[Task(cur)])
  BY TypeFacts DEF FlagInv, FlagsOK
<1>2. FlagAt(cur, l1, r1) = FlagAt(cur, pc[Task(cur)], ret[Task(cur)])
  BY <1>1 DEF FlagAt, Alike, Boots
<1>3. FlagsStep(l1, r1)
  BY <1>1, <1>2 DEF FlagsStep, Alike
<1> QED BY <1>3, FlagStep

(* Steps of lockAcquire: the one contender never finds the lock taken, so  *)
(* only a process goes on to acquireSpin.                                  *)
LEMMA AcquireFlags ==
  ASSUME OneContender, LockInv, FlagInv, NEW c \in Ctx, lockAcquire(c),
         UNCHANGED <<condVars, value>>
  PROVE  FlagInv'
<1>1. /\ c = Task(cur) /\ Control(pc[c], ret[c], back[c])
      /\ lk[c] = semLock /\ semLock \in Lock /\ UNCHANGED <<iflag, oldStatus>>
      /\ ret' = [ret EXCEPT ![c] = ret[c]]
      /\ (holder[semLock] = cur <=> pc[c] \in Held)
  <2>1. c = Task(cur)
    BY ActsOnCpu DEF lockAcquire, AcquireTry, AcquireSpin, AcquireAppend, AcquireRecheck,
                     AcquireRemove, AcquireUnspin, AcquireBlock
  <2>2. ret' = ret /\ UNCHANGED <<iflag, oldStatus>>
    BY DEF lockAcquire, AcquireTry, AcquireSpin, AcquireAppend, AcquireRecheck,
           AcquireRemove, AcquireUnspin, AcquireBlock, condVars
  <2> QED BY <2>1, <2>2, TypeFacts, CtxFacts DEF LockInv, TypeInv
<1>2. pc[c] \in AcquireLabel \ {"lockAcquire"} =>
        /\ cur \in Process /\ holder[semLock] # NULL
        /\ pc[c] \notin {"acquireRemove", "acquireUnspin"}
  BY DEF FlagInv, SpinOK
<1>3. pc[c] = "lockAcquire" /\ holder[semLock] # NULL => cur \in Process
  BY <1>1, WhoHolds
<1> USE DEF Alike, Waits, Sleeping, Own, AcquireLabel, ReleaseLabel, Control
<1>4. CASE AcquireTry(c)
  <2>1. CASE holder[semLock] = NULL
    <3>1. pc[c] = "lockAcquire" /\ pc' = [pc EXCEPT ![c] = ret[c]] /\ cur' = cur
      BY <1>1, <1>4, <2>1 DEF AcquireTry, At, Cas, Goto, schedVars
    <3>2. Own(ret[c], ret[c]) /\ Alike(ret[c], ret[c])
      BY <1>1, <3>1
    <3> QED BY <1>1, <3>1, <3>2, AlikeStep
  <2>2. CASE holder[semLock] # NULL
    <3>1. /\ pc[c] = "lockAcquire" /\ pc' = [pc EXCEPT ![c] = "acquireSpin"] /\ cur' = cur
          /\ holder' = holder
      BY <1>1, <1>4, <2>2 DEF AcquireTry, At, Cas, Goto, schedVars
    <3>2. Own("acquireSpin", ret[c]) /\ Alike("acquireSpin", ret[c])
      BY <1>1, <3>1
    <3> QED BY <1>1, <1>3, <2>2, <3>1, <3>2, AlikeStep
  <2> QED BY <2>1, <2>2
<1>5. CASE AcquireSpin(c) \/ AcquireAppend(c) \/ AcquireRecheck(c)
  <2> DEFINE l1 == IF pc[c] = "acquireSpin" THEN "acquireAppend"
                   ELSE IF pc[c] = "acquireAppend" THEN "acquireRecheck" ELSE "acquireBlock"
  <2>1. /\ pc[c] \in {"acquireSpin", "acquireAppend", "acquireRecheck"}
    BY <1>5 DEF AcquireSpin, AcquireAppend, AcquireRecheck, At
  <2>2. pc' = [pc EXCEPT ![c] = l1] /\ cur' = cur /\ holder' = holder
    BY <1>1, <1>2, <1>5, <2>1 DEF AcquireSpin, AcquireAppend, AcquireRecheck, At, Goto,
       Cas, SpinAcquire, schedVars, lockVars
  <2>3. Own(l1, ret[c]) /\ Alike(l1, ret[c])
    BY <1>1, <2>1, <2>2
  <2>4. l1 \in {"acquireAppend", "acquireRecheck", "acquireBlock"}
    OBVIOUS
  <2> HIDE DEF l1
  <2> QED BY <1>1, <1>2, <2>1, <2>2, <2>3, <2>4, AlikeStep
<1>6. ~ AcquireRemove(c) /\ ~ AcquireUnspin(c)
  BY <1>2 DEF AcquireRemove, AcquireUnspin, At
<1>7. CASE AcquireBlock(c)
  <2>1. pc[c] = "acquireBlock" /\ pc' = [pc EXCEPT ![c] = "lockAcquire"]
    BY <1>7 DEF AcquireBlock, At, Goto
  <2>2. Own("lockAcquire", ret[c]) /\ Alike("lockAcquire", ret[c])
    BY <1>1, <2>1
  <2> QED BY <1>1, <2>1, <2>2, AlikeStep
<1> QED BY <1>4, <1>5, <1>6, <1>7 DEF lockAcquire

(* The steps of lockRelease leave the flag alone. *)
LEMMA ReleaseFlags ==
  ASSUME LockInv, FlagInv, NEW c \in Ctx, lockRelease(c), UNCHANGED <<condVars, value>>
  PROVE  FlagInv'
<1> DEFINE l1 == IF pc[c] = "lockRelease" THEN "releaseSpin"
                 ELSE IF pc[c] = "releaseSpin" THEN "releasePop"
                 ELSE IF pc[c] = "releasePop" THEN "releaseUnspin"
                 ELSE IF pc[c] = "releaseUnspin" /\ thread[c] # NULL THEN "releaseWake"
                 ELSE ret[c]
<1>1. pc[c] \in ReleaseLabel /\ c = Task(cur)
  BY ActsOnCpu DEF lockRelease, ReleaseClear, ReleaseSpin, ReleasePop, ReleaseUnspin,
                   ReleaseWake, ReleaseLabel
<1>2. /\ Control(pc[c], ret[c], back[c]) /\ lk[c] = semLock
      /\ (holder[semLock] = cur <=> pc[c] \in Held)
  BY <1>1, TypeFacts
<1>3. ret' = ret /\ UNCHANGED <<iflag, oldStatus, cur>>
  BY DEF lockRelease, ReleaseClear, ReleaseSpin, ReleasePop, ReleaseUnspin, ReleaseWake,
         condVars, schedVars, threadUnblock
<1>4. pc' = [pc EXCEPT ![c] = l1]
  BY <1>2 DEF lockRelease, ReleaseClear, ReleaseSpin, ReleasePop, ReleaseUnspin,
     ReleaseWake, At, Goto, SpinAcquire, Held
<1>5. Own(l1, ret[c]) /\ Alike(l1, ret[c]) /\ l1 \notin AcquireLabel
  <2>1. ret = [ret EXCEPT ![c] = ret[c]]
    BY DEF LockInv, TypeInv
  <2> QED BY <1>1, <1>2, <1>3, <1>4, <2>1
          DEF Own, Alike, Waits, Sleeping, AcquireLabel, ReleaseLabel, Control
<1> HIDE DEF l1
<1> QED BY <1>3, <1>5, AlikeStep

(* conditionWait gives back on return the flag it found. *)
LEMMA ConditionFlags ==
  ASSUME LockInv, FlagInv, NEW c \in Ctx,
         WaitSchedule(c) \/ WaitReturn(c) \/ SignalWake(c)
  PROVE  FlagInv'
<1>1. /\ c = Task(cur) /\ pc[c] \in {"waitSchedule", "waitReturn", "signalWake"}
      /\ pc \in [Ctx -> Label] /\ ret = [ret EXCEPT ![c] = ret[c]]
      /\ iflag \in [Thread -> BOOLEAN] /\ cur \in Thread
  BY ActsOnCpu DEF WaitSchedule, WaitReturn, SignalWake, LockInv, TypeInv
<1>2. Control(pc[c], ret[c], back[c]) /\ Boots(cur, pc[c])
  BY <1>1, TypeFacts
<1> USE DEF Alike, Waits, Sleeping, Own, AcquireLabel, ReleaseLabel, Control
<1>3. CASE WaitSchedule(c)
  <2>1. /\ pc[c] = "waitSchedule" /\ pc' = [pc EXCEPT ![c] = "lockAcquire"]
        /\ ret' = [ret EXCEPT ![c] = "waitReturn"] /\ UNCHANGED <<iflag, oldStatus>>
    BY <1>3 DEF WaitSchedule, At, Goto, Call, condVars
  <2>2. Own("lockAcquire", "waitReturn") /\ Alike("lockAcquire", "waitReturn")
    BY <1>1, <1>2, <2>1
  <2> QED BY <2>1, <2>2, AlikeStep
<1>4. CASE WaitReturn(c)
  <2>1. /\ pc[c] = "waitReturn" /\ pc' = [pc EXCEPT ![c] = "downLoop"]
        /\ ret' = [ret EXCEPT ![c] = ret[c]] /\ UNCHANGED <<cur, oldStatus>>
        /\ iflag' = [iflag EXCEPT ![cur] = oldStatus[c]] /\ ret[c] = "waitReturn"
    BY <1>1, <1>2, <1>4 DEF WaitReturn, At, Goto, condVars, schedVars
  <2>2. oldStatus[c] = (cur \notin Process) /\ cur # Main
    BY <1>1, <1>2, <2>1, TypeFacts DEF FlagInv, FlagsOK, Boots
  <2>3. Own("downLoop", ret[c]) /\ ~ Waits("downLoop", ret[c])
    BY <1>1, <2>1
  <2>4. FlagsStep("downLoop", ret[c])
    BY <1>1, <2>1, <2>2, <2>3 DEF FlagsStep, FlagAt
  <2> QED BY <2>3, <2>4, FlagStep
<1>5. CASE SignalWake(c)
  <2>1. /\ pc[c] = "signalWake" /\ pc' = [pc EXCEPT ![c] = "release"] /\ ret[c] = "upAdd"
        /\ ret' = ret /\ UNCHANGED <<cur, iflag, oldStatus>>
    BY <1>2, <1>5 DEF SignalWake, At, Goto, condVars, schedVars, threadUnblock
  <2>2. Own("release", ret[c]) /\ Alike("release", ret[c])
    BY <1>1, <1>2, <2>1
  <2> QED BY <2>1, <2>2, AlikeStep
<1> QED BY <1>3, <1>4, <1>5

(* semaphoreDown and semaphoreUp turn interrupts off only through          *)
(* conditionWait.                                                          *)
LEMMA CallFlags ==
  ASSUME LockInv, FlagInv, NEW c \in Ctx,
         DownLoop(c) \/ DownTake(c) \/ UpAdd(c) \/ UpSignal(c) \/ Release(c) \/ Return(c)
  PROVE  FlagInv'
<1>1. /\ c = Task(cur)
      /\ pc[c] \in {"downLoop", "downTake", "upAdd", "upSignal", "release", "return"}
      /\ pc \in [Ctx -> Label] /\ ret = [ret EXCEPT ![c] = ret[c]]
      /\ pc = [pc EXCEPT ![c] = pc[c]]
      /\ iflag \in [Thread -> BOOLEAN] /\ cur \in Thread /\ oldStatus \in [Ctx -> BOOLEAN]
  BY ActsOnCpu DEF DownLoop, DownTake, UpAdd, UpSignal, Release, Return, LockInv, TypeInv
<1>2. /\ Control(pc[c], ret[c], back[c]) /\ Boots(cur, pc[c]) /\ cur # Main
      /\ iflag[cur] = FlagAt(cur, pc[c], ret[c])
  BY <1>1, TypeFacts DEF Boots, FlagInv, FlagsOK
<1> USE DEF Alike, Waits, Sleeping, Own, AcquireLabel, ReleaseLabel, Control
<1>3. CASE DownLoop(c) /\ value = 0
  <2>1. /\ pc[c] = "downLoop" /\ pc' = [pc EXCEPT ![c] = "lockRelease"]
        /\ ret' = [ret EXCEPT ![c] = "waitSchedule"] /\ cur' = cur
        /\ iflag' = [iflag EXCEPT ![cur] = FALSE]
        /\ oldStatus' = [oldStatus EXCEPT ![c] = iflag[cur]]
    BY <1>3 DEF DownLoop, conditionWait, At, Goto, Call
  <2>2. Own("lockRelease", "waitSchedule") /\ Waits("lockRelease", "waitSchedule")
    BY <1>1, <2>1
  <2>3. iflag[cur] = (cur \notin Process)
    BY <1>2, <2>1 DEF FlagAt
  <2>4. FlagsStep("lockRelease", "waitSchedule")
    BY <1>1, <1>2, <2>1, <2>2, <2>3 DEF FlagsStep, FlagAt
  <2> QED BY <2>2, <2>4, FlagStep
<1>4. CASE Return(c)
  <2>1. /\ pc' = [pc EXCEPT ![c] = "idle"] /\ ret' = [ret EXCEPT ![c] = "idle"]
             /\ cur' = cur
        /\ iflag' = [iflag EXCEPT ![cur] = TRUE]
        /\ oldStatus' = [oldStatus EXCEPT ![c] = TRUE]
    BY <1>4 DEF Return, Goto, schedVars
  <2>2. Own("idle", "idle") /\ ~ Waits("idle", "idle")
    BY <1>1, <2>1
  <2>3. FlagsStep("idle", "idle")
    BY <1>1, <1>2, <2>1, <2>2 DEF FlagsStep, FlagAt
  <2> QED BY <2>2, <2>3, FlagStep
<1>5. CASE \/ DownLoop(c) /\ value # 0
           \/ DownTake(c) \/ UpAdd(c) \/ UpSignal(c) \/ Release(c)
  <2>1. UNCHANGED <<iflag, oldStatus, cur>>
    BY <1>5 DEF DownLoop, DownTake, UpAdd, UpSignal, Release, conditionSignal,
       schedVars, condVars
  <2>2. \E l1 \in {"downTake", "release", "upSignal", "signalWake", "lockRelease"},
           r1 \in {ret[c], "return"} :
             /\ pc' = [pc EXCEPT ![c] = l1] /\ ret' = [ret EXCEPT ![c] = r1]
             /\ l1 = "lockRelease" <=> r1 = "return"
    BY <1>1, <1>2, <1>5 DEF DownLoop, DownTake, UpAdd, UpSignal, Release, conditionSignal,
         At, Goto, Call
  <2>3. PICK l1 \in {"downTake", "release", "upSignal", "signalWake", "lockRelease"},
             r1 \in {ret[c], "return"} :
             /\ pc' = [pc EXCEPT ![c] = l1] /\ ret' = [ret EXCEPT ![c] = r1]
             /\ l1 = "lockRelease" <=> r1 = "return"
    BY <2>2
  <2>4. Own(l1, r1) /\ Alike(l1, r1)
    BY <1>1, <1>2, <2>3
  <2> QED BY <2>1, <2>3, <2>4, AlikeStep
<1> QED BY <1>3, <1>4, <1>5

(* A process calls with interrupts off, a kernel thread with them on. *)
LEMMA EnterFlags ==
  ASSUME LockInv, FlagInv, NEW t \in Thread \ {Main}, NEW label \in {"downLoop", "upAdd"},
         Enter(t, label)
  PROVE  FlagInv'
<1>1. Task(t) = Task(cur) /\ pc[Task(t)] = "idle" /\ t = cur
  BY CtxFacts, TypeFacts DEF Enter, At
<1>2. /\ Own("lockAcquire", label) /\ cur' = cur /\ oldStatus' = oldStatus
      /\ iflag' = [iflag EXCEPT ![cur] = cur \notin Process]
  BY <1>1 DEF Enter, Call, Goto, Own, schedVars, condVars
<1>3. ~ Waits("lockAcquire", label)
  BY DEF Waits, Sleeping, ReleaseLabel, AcquireLabel
<1>4. FlagsStep("lockAcquire", label)
  BY <1>1, <1>2, <1>3 DEF FlagsStep, FlagAt, LockInv, TypeInv
<1> QED BY <1>2, <1>4, FlagStep

(* main turns interrupts on when it has started its threads. *)
LEMMA BootFlags ==
  ASSUME LockInv, FlagInv, BootStep
  PROVE  FlagInv'
<1>1. /\ cur = Main /\ pc[Task(cur)] = "boot" /\ ret[Task(cur)] = "idle"
      /\ pc \in [Ctx -> Label] /\ ret \in [Ctx -> Label] /\ iflag \in [Thread -> BOOLEAN]
  BY TypeFacts, CtxFacts, ThreadAssumption
     DEF BootStep, Boot, At, Task, ThreadOf, LockInv, TypeInv, Control
<1>2. /\ ret' = ret /\ cur' = cur /\ oldStatus' = oldStatus
  BY DEF BootStep, Boot, schedVars, condVars, threadStart
<1>3. CASE \E t \in Thread : status[t] = "unborn"
  <2>1. pc' = pc /\ iflag' = iflag
    BY <1>3 DEF BootStep, Boot
  <2>2. Own(pc[Task(cur)], ret[Task(cur)])
    BY <1>1, <1>2, <2>1 DEF Own
  <2>3. Alike(pc[Task(cur)], ret[Task(cur)])
    BY DEF Alike
  <2> QED BY <1>1, <1>2, <2>1, <2>2, <2>3, AlikeStep DEF AcquireLabel
<1>4. CASE ~ \E t \in Thread : status[t] = "unborn"
  <2>1. pc' = [pc EXCEPT ![Task(cur)] = "idle"] /\ iflag' = [iflag EXCEPT ![cur] = TRUE]
    BY <1>1, <1>4 DEF BootStep, Boot, Goto, Task
  <2>2. Own("idle", ret[Task(cur)])
    BY <1>1, <1>2, <2>1 DEF Own
  <2>3. FlagsStep("idle", ret[Task(cur)])
    BY <1>1, <1>2, <2>1, TypeFacts
       DEF FlagsStep, FlagAt, Waits, Sleeping, AcquireLabel, ReleaseLabel
  <2> QED BY <2>2, <2>3, FlagStep
<1> QED BY <1>3, <1>4

(* A preempted thread has its interrupts on. *)
LEMMA TickFlags ==
  ASSUME LockInv, FlagInv, Tick
  PROVE  FlagInv'
<1>1. /\ iflag[cur] /\ UNCHANGED <<iflag, pc, ret, oldStatus, holder>>
  BY DEF Tick, Timer, TimerPreempts, lockVars, callVars, condVars
<1>2. FlagsOK'
  BY <1>1 DEF FlagInv, FlagsOK
<1>3. OffCpu'
  BY <1>1 DEF FlagInv, OffCpu
<1>4. \A c \in Ctx : pc[c] \notin AcquireLabel \ {"lockAcquire"}
  <2>1. ASSUME NEW c \in Ctx, pc[c] \in AcquireLabel \ {"lockAcquire"} PROVE FALSE
    <3>1. ThreadOf(c) = cur /\ cur \in Process /\ cur # Main
      BY <2>1, SemaphoresAssumption DEF FlagInv, SpinOK
    <3>2. ~ iflag[cur]
      BY <2>1, <3>1 DEF FlagInv, FlagsOK, FlagAt, AcquireLabel
    <3> QED BY <1>1, <3>2
  <2> QED BY <2>1
<1>5. SpinOK'
  BY <1>1, <1>4 DEF SpinOK
<1> QED BY <1>2, <1>3, <1>5 DEF FlagInv

(* The kernel starts with interrupts off. *)
LEMMA FlagInvInit == Init => FlagInv
<1> SUFFICES ASSUME Init PROVE FlagInv
  OBVIOUS
<1>1. /\ cur = Main /\ iflag = [t \in Thread |-> t # Main]
      /\ pc = [c \in Ctx |-> IF c = Task(Main) THEN "boot" ELSE "idle"]
      /\ ret = [c \in Ctx |-> "idle"]
  BY DEF Init, ThreadsInit, LocksInit, ConditionsInit, Task
<1>2. FlagsOK
  <2>1. ~ Waits("idle", "idle") /\ ~ Waits("boot", "idle")
    BY DEF Waits, Sleeping, AcquireLabel, ReleaseLabel
  <2>2. ASSUME NEW c \in Ctx
        PROVE  /\ iflag[ThreadOf(c)] = FlagAt(ThreadOf(c), pc[c], ret[c])
               /\ ~ Waits(pc[c], ret[c])
    <3>1. ThreadOf(c) \in Thread /\ ret[c] = "idle"
      BY <1>1, CtxFacts
    <3>2. CASE ThreadOf(c) = Main
      <4>1. pc[c] = "boot" /\ iflag[Main] = FALSE
        BY <1>1, <3>1, <3>2, CtxFacts
      <4> QED BY <2>1, <3>1, <3>2, <4>1 DEF FlagAt
    <3>3. CASE ThreadOf(c) # Main
      <4>1. pc[c] = "idle" /\ iflag[ThreadOf(c)] = TRUE
        BY <1>1, <3>1, <3>3, CtxFacts, ThreadAssumption
      <4> QED BY <2>1, <3>1, <3>3, <4>1 DEF FlagAt
    <3> QED BY <3>2, <3>3
  <2> QED BY <2>2 DEF FlagsOK
<1>3. OffCpu
  BY <1>1, CtxFacts DEF OffCpu
<1>4. SpinOK
  BY <1>1 DEF SpinOK, AcquireLabel
<1> QED BY <1>2, <1>3, <1>4 DEF FlagInv

(* Every step keeps FlagInv. *)
LEMMA FlagInvNext == OneContender /\ LockInv /\ FlagInv /\ [Next]_vars => FlagInv'
<1> SUFFICES ASSUME OneContender, LockInv, FlagInv, [Next]_vars PROVE FlagInv'
  OBVIOUS
<1>1. CASE BootStep
  BY <1>1, BootFlags
<1>2. CASE Tick
  BY <1>2, TickFlags
<1>3. CASE \E t \in Thread \ {Main} : semaphoreDown(t) \/ semaphoreUp(t)
  BY <1>3, EnterFlags DEF semaphoreDown, semaphoreUp
<1>4. CASE \E c \in Ctx : Step(c)
  <2>1. PICK c \in Ctx : Step(c)
    BY <1>4
  <2>2. CASE (lockAcquire(c) \/ lockRelease(c)) /\ UNCHANGED <<condVars, value>>
    BY <2>2, AcquireFlags, ReleaseFlags
  <2>3. CASE (WaitSchedule(c) \/ WaitReturn(c) \/ SignalWake(c)) /\ UNCHANGED value
    BY <2>3, ConditionFlags
  <2>4. CASE DownLoop(c) \/ DownTake(c) \/ UpAdd(c) \/ UpSignal(c) \/ Release(c)
          \/ Return(c)
    BY <2>4, CallFlags
  <2> QED BY <2>1, <2>2, <2>3, <2>4 DEF Step, SyncStep
<1>5. CASE UNCHANGED vars
  BY <1>5 DEF vars, lockVars, callVars, condVars, schedVars, FlagInv, FlagsOK, OffCpu,
     SpinOK
<1> QED BY <1>1, <1>2, <1>3, <1>4, <1>5 DEF Next

(* The interrupt flag is what the place in the code says, and SpinOK       *)
(* holds.                                                                  *)
LEMMA FlagInvariant == ASSUME OneContender PROVE Spec => []FlagInv
<1>1. Init => FlagInv
  BY FlagInvInit
<1>2. LockInv /\ FlagInv /\ [Next]_vars => FlagInv'
  BY FlagInvNext
<1> QED BY <1>1, <1>2, LockInvariant, PTL DEF Spec

-----------------------------------------------------------------------------
(***************************************************************************)
(* Where each thread is: on the CPU, on one list, or in the hands of the   *)
(* one that took it off its waiters list and is about to wake it.          *)
(***************************************************************************)
Queueing == {"acquireRecheck", "acquireBlock"}

Place(Q, t, l, r) ==
  /\ t \in Members(Q[semLock]) => IF t = cur THEN l \in Queueing
                                  ELSE status[t] = "blocked" /\ l = "lockAcquire"
  /\ t \in Members(Q[semCond]) =>
       IF t = cur THEN Sleeping(l, r)
       ELSE status[t] = "blocked" /\ l = "lockAcquire" /\ r = "waitReturn"
  /\ l \in Queueing => t \in Members(Q[semLock])
  /\ Sleeping(l, r) => t \in Members(Q[semCond])
  /\ status[t] = "blocked" => \/ t \in Members(Q[semLock]) \cup Members(Q[semCond])
                              \/ \E c \in Ctx : thread[c] = t
  /\ status[t] = "unborn" => l = "idle"
  /\ t = cur => status[t] = IF Sleeping(l, r) THEN "blocked" ELSE "running"

Places(Q) == \A t \in Thread : Place(Q, t, pc[Task(t)], ret[Task(t)])

Waking == {"releaseWake", "signalWake"}

Waker(Q, c, l) ==
  /\ thread[c] # NULL =>
       /\ thread[c] # cur /\ OnNone(Q, thread[c]) /\ status[thread[c]] = "blocked"
       /\ pc[Task(thread[c])] = "lockAcquire"
       /\ l \in Waking \cup {"releaseUnspin"}
  /\ l \in Waking => thread[c] # NULL

Wakers(Q) == /\ \A c \in Ctx : Waker(Q, c, pc[c])
             /\ \A c, d \in Ctx : thread[c] = thread[d] /\ thread[c] # NULL => c = d

(* Nothing else is a list of waiters, and main never waits. *)
Where(Q) == /\ Places(Q) /\ Wakers(Q)
            /\ \A L \in WaitList \ {semLock, semCond} : Members(Q[L]) = {}
            /\ status[Main] \in {"running", "ready"}
            /\ panic = "none"

Placed(Q) == Agree(Q) /\ Where(Q)

(* The two lists of waiters that the semaphore has, and the ready list. *)
LEMMA ListFacts ==
  /\ semLock \in WaitList /\ semCond \in WaitList /\ semLock # semCond
  /\ \A L \in ListId : L \in WaitList \/ L = threadReadyList
  /\ WaitList \subseteq ListId /\ threadReadyList \in ListId \ WaitList
  BY SemaphoresAssumption, LockAssumption, ConditionAssumption, ThreadAssumption
     DEF ListId

(* Where the thread on the CPU is. *)
LEMMA CpuPlace ==
  ASSUME LockInv, NEW Q, Placed(Q)
  PROVE  /\ status[cur] = IF Sleeping(pc[Task(cur)], ret[Task(cur)]) THEN "blocked"
                          ELSE "running"
         /\ cur \in Members(Q[semLock]) <=> pc[Task(cur)] \in Queueing
         /\ cur \in Members(Q[semCond]) <=> Sleeping(pc[Task(cur)], ret[Task(cur)])
         /\ pc[Task(cur)] \notin Queueing /\ ~ Sleeping(pc[Task(cur)], ret[Task(cur)])
              => OnNone(Q, cur)
<1>1. Place(Q, cur, pc[Task(cur)], ret[Task(cur)])
  BY TypeFacts DEF Placed, Where, Places
<1>2. cur \notin Members(Q[threadReadyList])
  BY <1>1, TypeFacts DEF Placed, Agree, Place
<1> QED BY <1>1, <1>2, ListFacts DEF Placed, Where, Place, OnNone

(* Where any other is. *)
LEMMA OtherPlace ==
  ASSUME LockInv, NEW Q, Placed(Q), NEW t \in Thread, t # cur
  PROVE  /\ ~ Sleeping(pc[Task(t)], ret[Task(t)]) /\ pc[Task(t)] \notin Queueing
         /\ status[t] # "running"
         /\ status[t] # "blocked" => t \notin Members(Q[semLock]) \cup Members(Q[semCond])
<1>1. Place(Q, t, pc[Task(t)], ret[Task(t)])
  BY DEF Placed, Where, Places
<1> QED BY <1>1 DEF Place, Sleeping, Queueing, ReleaseLabel, Placed, Agree

(* A step that moves no thread. *)
LEMMA QuietStep ==
  ASSUME LockInv, NEW Q, Placed(Q), NEW l1, NEW r1, Own(l1, r1),
         UNCHANGED <<heap, status, cur, panic, thread>>,
         l1 \in Queueing <=> pc[Task(cur)] \in Queueing,
         Sleeping(l1, r1) <=> Sleeping(pc[Task(cur)], ret[Task(cur)]),
         thread[Task(cur)] # NULL => l1 \in Waking \cup {"releaseUnspin"},
         l1 \in Waking => thread[Task(cur)] # NULL
  PROVE  Placed(Q)'
<1>1. \A t \in Thread : /\ pc'[Task(t)] = IF t = cur THEN l1 ELSE pc[Task(t)]
                        /\ ret'[Task(t)] = IF t = cur THEN r1 ELSE ret[Task(t)]
  BY OwnFacts, CtxFacts, TypeFacts
<1>2. \A c \in Ctx : pc'[c] = IF c = Task(cur) THEN l1 ELSE pc[c]
  BY OwnFacts
<1>3. Agree(Q)'
  BY DEF Placed, Agree
<1>4. Places(Q)'
  <2>1. SUFFICES ASSUME NEW t \in Thread PROVE Place(Q, t, pc[Task(t)], ret[Task(t)])'
    BY DEF Places
  <2>2. Place(Q, t, pc[Task(t)], ret[Task(t)])
    BY DEF Placed, Where, Places
  <2>3. CASE t = cur
    <3>1. status[t] # "unborn"
      BY <2>3, CpuPlace
    <3> QED BY <1>1, <2>2, <2>3, <3>1 DEF Place
  <2>4. CASE t # cur
    BY <1>1, <2>2, <2>4 DEF Place
  <2> QED BY <2>3, <2>4
<1>5. Wakers(Q)'
  <2>1. ASSUME NEW c \in Ctx PROVE Waker(Q, c, pc[c])'
    <3>1. Waker(Q, c, pc[c])
      BY DEF Placed, Where, Wakers
    <3>2. thread[c] # NULL => thread[c] \in Thread
      BY DEF LockInv, TypeInv
    <3> QED BY <1>1, <1>2, <3>1, <3>2 DEF Waker
  <2> QED BY <2>1 DEF Placed, Where, Wakers
<1> QED BY <1>3, <1>4, <1>5 DEF Placed, Where

(* The labels and returns of a step of the thread on the CPU. *)
LEMMA OwnTasks ==
  ASSUME LockInv, NEW l1, NEW r1, Own(l1, r1)
  PROVE  /\ \A t \in Thread : /\ pc'[Task(t)] = IF t = cur THEN l1 ELSE pc[Task(t)]
                              /\ ret'[Task(t)] = IF t = cur THEN r1 ELSE ret[Task(t)]
         /\ \A c \in Ctx : pc'[c] = IF c = Task(cur) THEN l1 ELSE pc[c]
  BY OwnFacts, CtxFacts, TypeFacts

(* The thread on the CPU puts itself on a list of waiters. *)
LEMMA QueueStep ==
  ASSUME LockInv, NEW Q, Placed(Q), NEW L \in {semLock, semCond}, NEW l1, NEW r1,
         Own(l1, r1), heap' = ListAppend(heap, L, cur), UNCHANGED <<cur, panic, thread>>,
         pc[Task(cur)] \notin Queueing \cup Waking \cup {"releaseUnspin"},
         ~ Sleeping(pc[Task(cur)], ret[Task(cur)]), cur # Main, l1 \notin Waking,
         IF L = semLock
         THEN l1 \in Queueing /\ ~ Sleeping(l1, r1) /\ status' = status
         ELSE /\ l1 \notin Queueing /\ Sleeping(l1, r1)
              /\ status' = [status EXCEPT ![cur] = "blocked"],
         NEW R, R = [Q EXCEPT ![L] = Append(Q[L], cur)]
  PROVE  Placed(R)' /\ OnNone(Q, cur)
<1>1. /\ \A t \in Thread : /\ pc'[Task(t)] = IF t = cur THEN l1 ELSE pc[Task(t)]
                           /\ ret'[Task(t)] = IF t = cur THEN r1 ELSE ret[Task(t)]
      /\ \A c \in Ctx : pc'[c] = IF c = Task(cur) THEN l1 ELSE pc[c]
      /\ cur \in Thread /\ Task(cur) \in Ctx /\ cur' = cur
  BY OwnTasks, TypeFacts
<1>2. OnNone(Q, cur) /\ status[cur] = "running" /\ L \in WaitList /\ L \in ListId
  BY CpuPlace, ListFacts
<1>3. /\ Lists(heap', R) /\ Gains(Q, R, L, cur)
      /\ \A M \in ListId \ {L} : R[M] = Q[M]
  <2>1. Lists(heap, Q) /\ Q \in [ListId -> Seq(Thread)]
    BY DEF Placed, Agree, Lists
  <2> QED BY <1>1, <1>2, <2>1, AppendLists
<1>4. \A M \in ListId, t \in Thread : t # cur => (t \in Members(R[M])
        <=> t \in Members(Q[M]))
  BY <1>3 DEF Gains
<1>5. /\ cur \in Members(R[L]) /\ \A M \in ListId \ {L} : cur \notin Members(R[M])
  BY <1>2, <1>3 DEF Gains, OnNone
<1>6. /\ \A t \in Thread \ {cur} : status'[t] = status[t]
      /\ status'[cur] = IF L = semLock THEN "running" ELSE "blocked"
      /\ status' \in [Thread -> Status]
  <2>1. status \in [Thread -> Status]
    BY DEF Placed, Agree
  <2> QED BY <1>1, <1>2, <2>1 DEF Status
<1>7. Agree(R)'
  <2>1. ASSUME NEW t \in Thread
        PROVE  /\ status'[t] = "ready" <=> t \in Members(R[threadReadyList])
               /\ status'[t] = "running" => t = cur
    BY <1>1, <1>2, <1>3, <1>6, ListFacts DEF Placed, Agree, OnNone
  <2> QED BY <1>1, <1>3, <1>6, <2>1 DEF Agree
<1>8. Places(R)'
  <2>1. SUFFICES ASSUME NEW t \in Thread PROVE Place(R, t, pc[Task(t)], ret[Task(t)])'
    BY DEF Places
  <2>2. Place(Q, t, pc[Task(t)], ret[Task(t)])
    BY DEF Placed, Where, Places
  <2>3. CASE t = cur
    BY <1>1, <1>5, <1>6, <2>3, ListFacts DEF Place
  <2>4. CASE t # cur
    BY <1>1, <1>4, <1>6, <2>2, <2>4, ListFacts DEF Place
  <2> QED BY <2>3, <2>4
<1>9. Wakers(R)'
  <2>1. ASSUME NEW c \in Ctx PROVE Waker(R, c, pc[c])'
    <3>1. Waker(Q, c, pc[c]) /\ (thread[c] # NULL => thread[c] \in Thread)
      BY DEF Placed, Where, Wakers, LockInv, TypeInv
    <3> QED BY <1>1, <1>4, <1>6, <3>1 DEF Waker, OnNone
  <2> QED BY <2>1 DEF Placed, Where, Wakers
<1>10. /\ \A M \in WaitList \ {semLock, semCond} : Members(R[M]) = {}
       /\ status'[Main] \in {"running", "ready"} /\ panic' = "none"
  BY <1>3, <1>6, ListFacts, ThreadAssumption DEF Placed, Where
<1> QED BY <1>2, <1>7, <1>8, <1>9, <1>10 DEF Placed, Where

(* The thread on the CPU takes the first waiter off a list. *)
LEMMA PopStep ==
  ASSUME LockInv, NEW Q, Placed(Q), NEW L \in {semLock, semCond}, NEW l1, NEW r1,
         Own(l1, r1), Len(Q[L]) # 0, heap' = ListPop(heap, L),
         thread' = [thread EXCEPT ![Task(cur)] = ListFirst(heap, L)],
         UNCHANGED <<status, cur, panic>>, cur \notin Members(Q[L]),
         pc[Task(cur)] \notin Queueing \cup Waking \cup {"releaseUnspin"},
         l1 \in {"releaseUnspin", "signalWake"},
         Sleeping(l1, r1) <=> Sleeping(pc[Task(cur)], ret[Task(cur)]),
         NEW R, R = [Q EXCEPT ![L] = Tail(Q[L])]
  PROVE  Placed(R)'
<1> DEFINE p == Q[L][1]
<1>1. /\ \A t \in Thread : /\ pc'[Task(t)] = IF t = cur THEN l1 ELSE pc[Task(t)]
                           /\ ret'[Task(t)] = IF t = cur THEN r1 ELSE ret[Task(t)]
      /\ \A c \in Ctx : pc'[c] = IF c = Task(cur) THEN l1 ELSE pc[c]
      /\ cur \in Thread /\ Task(cur) \in Ctx /\ cur' = cur
  BY OwnTasks, TypeFacts
<1>2. L \in WaitList /\ L \in ListId /\ Lists(heap, Q) /\ Q \in [ListId -> Seq(Thread)]
  BY ListFacts DEF Placed, Agree, Lists
<1>3. /\ p = ListFirst(heap, L) /\ p \in Thread /\ p \in Members(Q[L])
      /\ Lists(heap', R) /\ Loses(Q, R, L, p)
  BY <1>2, PopLists DEF ListPop
<1> HIDE DEF p
<1>4. \A M \in ListId \ {L} : R[M] = Q[M] /\ p \notin Members(Q[M])
  BY <1>2, <1>3 DEF Lists
<1>5. /\ \A M \in ListId, t \in Thread \ {p} : t \in Members(R[M]) <=> t \in Members(Q[M])
      /\ OnNone(R, p)
  BY <1>3, <1>4 DEF Loses, OnNone
<1>6. /\ p # cur /\ status[p] = "blocked" /\ pc[Task(p)] = "lockAcquire" /\ p # NULL
      /\ Task(p) # Task(cur)
  <2>1. Place(Q, p, pc[Task(p)], ret[Task(p)])
    BY <1>3 DEF Placed, Where, Places
  <2>2. p # cur
    BY <1>3
  <2> QED BY <1>1, <1>3, <2>1, <2>2, CtxFacts, ThreadAssumption DEF Place
<1>7. thread[Task(cur)] = NULL
  BY <1>1 DEF Placed, Where, Wakers, Waker
<1>8. \A c \in Ctx : thread'[c] = IF c = Task(cur) THEN p ELSE thread[c]
  BY <1>3 DEF LockInv, TypeInv
<1>9. Agree(R)'
  <2>1. ASSUME NEW t \in Thread
        PROVE  status[t] = "ready" <=> t \in Members(R[threadReadyList])
    BY <1>2, <1>4, ListFacts DEF Placed, Agree
  <2> QED BY <1>1, <1>3, <2>1 DEF Agree, Placed
<1>10. Places(R)'
  <2>1. SUFFICES ASSUME NEW t \in Thread PROVE Place(R, t, pc[Task(t)], ret[Task(t)])'
    BY DEF Places
  <2>2. Place(Q, t, pc[Task(t)], ret[Task(t)])
    BY DEF Placed, Where, Places
  <2>3. CASE t = p
    <3>1. \E c \in Ctx : thread'[c] = p
      BY <1>1, <1>8
    <3>2. /\ p \notin Members(R[semLock]) /\ p \notin Members(R[semCond])
      BY <1>5, ListFacts DEF OnNone
    <3>3. pc'[Task(p)] = "lockAcquire" /\ ~ Sleeping("lockAcquire", ret'[Task(p)])
      BY <1>1, <1>3, <1>6 DEF Sleeping, ReleaseLabel
    <3> QED BY <1>1, <1>6, <2>3, <3>1, <3>2, <3>3 DEF Place, Queueing
  <2>4. CASE t = cur
    <3>1. status[t] # "unborn" /\ l1 \notin Queueing
      BY <2>4, CpuPlace DEF Queueing
    <3>2. (\E c \in Ctx : thread[c] = t) => \E c \in Ctx : thread'[c] = t
      BY <1>7, <1>8, ThreadAssumption
    <3> QED BY <1>1, <1>5, <1>6, <2>2, <2>4, <3>1, <3>2, ListFacts DEF Place
  <2>5. CASE t # p /\ t # cur
    <3>1. (\E c \in Ctx : thread[c] = t) => \E c \in Ctx : thread'[c] = t
      BY <1>7, <1>8, ThreadAssumption
    <3> QED BY <1>1, <1>5, <2>2, <2>5, <3>1, ListFacts DEF Place
  <2> QED BY <2>3, <2>4, <2>5
<1>11. \A c \in Ctx : thread[c] # p
  BY <1>2, <1>3, <1>6 DEF Placed, Where, Wakers, Waker, OnNone
<1>12. Wakers(R)'
  <2>1. ASSUME NEW c \in Ctx PROVE Waker(R, c, pc[c])'
    <3>1. Waker(Q, c, pc[c]) /\ (thread[c] # NULL => thread[c] \in Thread)
      BY DEF Placed, Where, Wakers, LockInv, TypeInv
    <3>2. CASE c = Task(cur)
      BY <1>1, <1>3, <1>5, <1>6, <1>8, <3>2 DEF Waker, Waking
    <3>3. CASE c # Task(cur)
      <4>1. thread[c] # NULL => OnNone(R, thread[c])
        BY <1>5, <1>11, <3>1 DEF Waker, OnNone
      <4> QED BY <1>1, <1>8, <3>1, <3>3, <4>1 DEF Waker
    <3> QED BY <3>2, <3>3
  <2>2. \A c, d \in Ctx : thread'[c] = thread'[d] /\ thread'[c] # NULL => c = d
    <3>1. \A c, d \in Ctx : thread[c] = thread[d] /\ thread[c] # NULL => c = d
      BY DEF Placed, Where, Wakers
    <3> QED BY <1>8, <1>11, <3>1
  <2> QED BY <2>1, <2>2 DEF Wakers
<1>13. \A M \in WaitList \ {semLock, semCond} : Members(R[M]) = {}
  BY <1>4, ListFacts DEF Placed, Where
<1> QED BY <1>9, <1>10, <1>12, <1>13 DEF Placed, Where

(* It wakes the thread that it has taken off a list: nothing is asserted in vain. *)
LEMMA WakeStep ==
  ASSUME LockInv, NEW Q, Placed(Q), NEW l1, NEW r1, Own(l1, r1),
         pc[Task(cur)] \in Waking, threadUnblock(thread[Task(cur)]),
         thread' = [thread EXCEPT ![Task(cur)] = NULL],
         l1 \notin Waking \cup Queueing,
         Sleeping(l1, r1) <=> Sleeping(pc[Task(cur)], ret[Task(cur)])
  PROVE  /\ OnNone(Q, thread[Task(cur)]) /\ thread[Task(cur)] \in Thread
         /\ \E R : /\ Placed(R)'
                   /\ OnlyReady(Q, R, <<thread[Task(cur)]>> \o Q[threadReadyList])
<1> DEFINE p == thread[Task(cur)]
<1>1. /\ \A t \in Thread : /\ pc'[Task(t)] = IF t = cur THEN l1 ELSE pc[Task(t)]
                           /\ ret'[Task(t)] = IF t = cur THEN r1 ELSE ret[Task(t)]
      /\ \A c \in Ctx : pc'[c] = IF c = Task(cur) THEN l1 ELSE pc[c]
      /\ cur \in Thread /\ Task(cur) \in Ctx
  BY OwnTasks, TypeFacts
<1>2. /\ p \in Thread /\ p # cur /\ OnNone(Q, p) /\ status[p] = "blocked"
      /\ pc[Task(p)] = "lockAcquire"
  BY <1>1 DEF Placed, Where, Wakers, Waker, LockInv, TypeInv
<1>3. threadUnblock(p)
        /\ \A c \in Ctx : thread'[c] = IF c = Task(cur) THEN NULL ELSE thread[c]
  BY DEF LockInv, TypeInv
<1> HIDE DEF p
<1>4. /\ panic' = "none" /\ cur' = cur
      /\ \A u \in Thread : u # p => status'[u] = status[u]
  BY <1>2, <1>3, UnblockLists DEF Placed
<1>5. PICK R : Agree(R)' /\ OnlyReady(Q, R, <<p>> \o Q[threadReadyList])
  <2>1. \E R : Agree(R)' /\ OnlyReady(Q, R, AfterUnblock(Q, p))
    BY <1>2, <1>3, UnblockLists DEF Placed
  <2> QED BY <1>4, <2>1 DEF AfterUnblock
<1>6. \A L \in WaitList : R[L] = Q[L]
  BY <1>5, WaitListsKept DEF Placed, Agree
<1>7. status'[p] = "ready"
  BY <1>2, <1>3, <1>4 DEF threadUnblock, Placed, Agree
<1>8. Places(R)'
  <2>1. SUFFICES ASSUME NEW t \in Thread PROVE Place(R, t, pc[Task(t)], ret[Task(t)])'
    BY DEF Places
  <2>2. Place(Q, t, pc[Task(t)], ret[Task(t)])
    BY DEF Placed, Where, Places
  <2>3. CASE t = p
    <3>1. p \notin Members(R[semLock]) /\ p \notin Members(R[semCond])
      BY <1>2, <1>6, ListFacts DEF OnNone
    <3>2. pc'[Task(p)] = "lockAcquire" /\ ~ Sleeping("lockAcquire", ret'[Task(p)])
      BY <1>1, <1>2 DEF Sleeping, ReleaseLabel
    <3> QED BY <1>2, <1>4, <1>7, <2>3, <3>1, <3>2 DEF Place, Queueing
  <2>4. CASE t # p
    <3>1. (\E c \in Ctx : thread[c] = t) => \E c \in Ctx : thread'[c] = t
      <4>1. thread[Task(cur)] = p
        BY DEF p
      <4> QED BY <1>3, <2>4, <4>1
    <3>2. CASE t = cur
      <4>1. status[t] # "unborn" /\ pc[Task(t)] \notin Queueing
        BY <3>2, CpuPlace DEF Waking, Queueing
      <4> QED BY <1>1, <1>4, <1>6, <2>2, <2>4, <3>1, <3>2, <4>1, ListFacts DEF Place
    <3>3. CASE t # cur
      BY <1>1, <1>4, <1>6, <2>2, <2>4, <3>1, <3>3, ListFacts DEF Place
    <3> QED BY <3>2, <3>3
  <2> QED BY <2>3, <2>4
<1>9. Wakers(R)'
  <2>1. ASSUME NEW c \in Ctx PROVE Waker(R, c, pc[c])'
    <3>1. Waker(Q, c, pc[c]) /\ (thread[c] # NULL => thread[c] \in Thread)
      BY DEF Placed, Where, Wakers, LockInv, TypeInv
    <3>2. CASE c = Task(cur)
      BY <1>1, <1>3, <3>2 DEF Waker
    <3>3. CASE c # Task(cur)
      <4>1. thread[c] # NULL => thread[c] # p
        BY <1>1, <3>3 DEF Placed, Where, Wakers, p
      <4>2. thread[c] # NULL => OnNone(R, thread[c])
        <5>1. ASSUME thread[c] # NULL PROVE OnNone(R, thread[c])
          <6>1. OnNone(Q, thread[c]) /\ status[thread[c]] = "blocked"
            BY <3>1, <5>1 DEF Waker
          <6>2. status'[thread[c]] = "blocked"
            BY <1>4, <3>1, <4>1, <5>1, <6>1
          <6>3. thread[c] \notin Members(R[threadReadyList])
            BY <1>5, <3>1, <5>1, <6>2 DEF Agree
          <6> QED BY <1>6, <6>1, <6>3, ListFacts DEF OnNone
        <5> QED BY <5>1
      <4> QED BY <1>1, <1>3, <1>4, <3>1, <3>3, <4>1, <4>2 DEF Waker
    <3> QED BY <3>2, <3>3
  <2> QED BY <1>3, <2>1, ThreadAssumption DEF Placed, Where, Wakers
<1>10. /\ \A M \in WaitList \ {semLock, semCond} : Members(R[M]) = {}
       /\ status'[Main] \in {"running", "ready"}
  <2>1. Main # p
    BY <1>2 DEF Placed, Where
  <2> QED BY <1>4, <1>6, <2>1, ThreadAssumption DEF Placed, Where
<1>11. Placed(R)'
  BY <1>4, <1>5, <1>8, <1>9, <1>10 DEF Placed, Where
<1> QED BY <1>2, <1>5, <1>11 DEF p

(* Where the thread on the CPU has to be when it gives it up, with the     *)
(* statuses st, to go on later at l1.                                      *)
Parts(Q, st, l1, r1) ==
  /\ \/ /\ st = [status EXCEPT ![cur] = "blocked"] /\ st[cur] = "blocked"
        /\ cur \in Members(Q[semLock]) /\ cur # Main /\ l1 = "lockAcquire"
        /\ cur \notin Members(Q[semCond])
     \/ /\ st = status /\ st[cur] = "blocked" /\ cur # Main /\ cur \in Members(Q[semCond])
        /\ l1 = "lockAcquire" /\ r1 = "waitReturn" /\ cur \notin Members(Q[semLock])
     \/ /\ st = status /\ st[cur] = "running" /\ OnNone(Q, cur)
  /\ l1 \notin Queueing /\ ~ Sleeping(l1, r1)
  /\ thread[Task(cur)] # NULL => l1 \in Waking \cup {"releaseUnspin"}
  /\ l1 \in Waking => thread[Task(cur)] # NULL

(* schedule by a thread that is ready to run on or is in a queue of        *)
(* waiters: another thread gets the CPU and everybody still has one        *)
(* place.                                                                  *)
LEMMA SwitchStep ==
  ASSUME LockInv, NEW Q, Placed(Q), NEW st, NEW l1, NEW r1, Own(l1, r1),
         Parts(Q, st, l1, r1), schedule(heap, st), thread' = thread
  PROVE  /\ st[cur] # "running" => Len(Q[threadReadyList]) # 0
         /\ \E R : /\ Placed(R)'
                   /\ OnlyReady(Q, R, IF st[cur] = "running"
                                      THEN Tail(Append(Q[threadReadyList], cur))
                                      ELSE Tail(Q[threadReadyList]))
<1>1. /\ \A t \in Thread : /\ pc'[Task(t)] = IF t = cur THEN l1 ELSE pc[Task(t)]
                           /\ ret'[Task(t)] = IF t = cur THEN r1 ELSE ret[Task(t)]
      /\ \A c \in Ctx : pc'[c] = IF c = Task(cur) THEN l1 ELSE pc[c]
      /\ cur \in Thread /\ Task(cur) \in Ctx
  BY OwnTasks, TypeFacts
<1>2. /\ status[cur] # "ready" /\ Agree(Q)
      /\ status[Main] \in {"running", "ready"} /\ Main \in Thread
  BY CpuPlace, ThreadAssumption DEF Placed, Where
<1>3. /\ \/ st = [status EXCEPT ![cur] = "blocked"]
         \/ st = status /\ status[cur] = "running" /\ OnNone(Q, cur)
      /\ st[cur] \in {"blocked", "running"} /\ (st[cur] # "running" => cur # Main)
      /\ st[cur] = "running" => OnNone(Q, cur)
      /\ \A t \in Thread \ {cur} : st[t] = status[t]
  <2>1. status \in [Thread -> Status]
    BY <1>2 DEF Agree
  <2>2. st = status /\ st[cur] = "blocked" => st = [status EXCEPT ![cur] = "blocked"]
    BY <2>1
  <2> QED BY <1>1, <2>1, <2>2 DEF Parts
<1>4. Switched(Q, st) /\ \E R : Agree(R)' /\ OnlyReady(Q, R, AfterSchedule(Q, st))
  BY <1>2, <1>3, ScheduleLists
<1>5. Len(Q[threadReadyList]) = 0 => st[cur] = "running"
  <2>1. ASSUME Len(Q[threadReadyList]) = 0, st[cur] # "running" PROVE FALSE
    <3>1. Main # cur /\ status[Main] = "ready"
      BY <1>2, <1>3, <2>1 DEF Agree
    <3>2. Main \in Members(Q[threadReadyList])
      BY <1>2, <3>1 DEF Agree
    <3> QED BY <2>1, <3>2 DEF Members
  <2> QED BY <2>1
<1>6. panic' = "none" /\ cur' \in Thread /\ (cur' = cur \/ status[cur'] = "ready")
  BY <1>4, <1>5 DEF Switched
<1>7. st[cur] # "running" => cur' # cur
  BY <1>2, <1>6, LeavesCpu
<1>8. \A t \in Thread : status'[t] = IF t = cur' THEN "running"
                                     ELSE IF t = cur /\ st[t] = "running" THEN "ready"
                                     ELSE st[t]
  BY <1>4, <1>6 DEF Switched
<1>9. PICK R : /\ Agree(R)'
               /\ OnlyReady(Q, R, IF st[cur] = "running"
                                  THEN Tail(Append(Q[threadReadyList], cur))
                                  ELSE Tail(Q[threadReadyList]))
  BY <1>4, <1>6 DEF AfterSchedule
<1>10. \A L \in WaitList : R[L] = Q[L]
  BY <1>9, WaitListsKept DEF Placed, Agree
<1>11. Places(R)'
  <2>1. SUFFICES ASSUME NEW t \in Thread PROVE Place(R, t, pc[Task(t)], ret[Task(t)])'
    BY DEF Places
  <2>2. Place(Q, t, pc[Task(t)], ret[Task(t)])
    BY DEF Placed, Where, Places
  <2>3. CASE t = cur
    <3>1. CASE st[cur] = "running"
      <4>1. t \notin Members(R[semLock]) /\ t \notin Members(R[semCond])
        BY <1>3, <1>10, <2>3, <3>1, ListFacts DEF OnNone
      <4>2. status'[t] \in {"running", "ready"} /\ (t = cur' => status'[t] = "running")
        BY <1>8, <2>3, <3>1
      <4> QED BY <1>1, <2>3, <4>1, <4>2 DEF Place, Parts
    <3>2. CASE st[cur] = "blocked"
      <4>1. status'[t] = "blocked" /\ t # cur'
        BY <1>7, <1>8, <2>3, <3>2
      <4>2. \/ /\ t \in Members(R[semLock]) /\ t \notin Members(R[semCond])
               /\ l1 = "lockAcquire"
            \/ /\ t \in Members(R[semCond]) /\ t \notin Members(R[semLock])
               /\ l1 = "lockAcquire" /\ r1 = "waitReturn"
        BY <1>10, <2>3, <3>2, ListFacts DEF Parts
      <4> QED BY <1>1, <2>3, <4>1, <4>2 DEF Place, Parts
    <3> QED BY <1>3, <3>1, <3>2
  <2>4. CASE t # cur /\ t = cur'
    <3>1. status[t] = "ready"
      BY <1>6, <2>4
    <3>2. /\ ~ Sleeping(pc[Task(t)], ret[Task(t)]) /\ pc[Task(t)] \notin Queueing
          /\ t \notin Members(Q[semLock]) \cup Members(Q[semCond])
      BY <2>4, <3>1, OtherPlace
    <3>3. status'[t] = "running"
      BY <1>8, <2>4
    <3> QED BY <1>1, <1>10, <2>4, <3>2, <3>3, ListFacts DEF Place
  <2>5. CASE t # cur /\ t # cur'
    <3>1. status'[t] = status[t]
      BY <1>3, <1>8, <2>5
    <3> QED BY <1>1, <1>10, <2>2, <2>5, <3>1, ListFacts DEF Place
  <2> QED BY <2>3, <2>4, <2>5
<1>12. Wakers(R)'
  <2>1. ASSUME NEW c \in Ctx PROVE Waker(R, c, pc[c])'
    <3>1. Waker(Q, c, pc[c])
      BY DEF Placed, Where, Wakers
    <3>2. ASSUME thread[c] # NULL
          PROVE  /\ thread[c] # cur' /\ OnNone(R, thread[c])
                 /\ status'[thread[c]] = "blocked"
                 /\ pc'[Task(thread[c])] = "lockAcquire"
      <4>1. /\ thread[c] \in Thread /\ thread[c] # cur /\ OnNone(Q, thread[c])
            /\ status[thread[c]] = "blocked" /\ pc[Task(thread[c])] = "lockAcquire"
        BY <3>1, <3>2 DEF Waker, LockInv, TypeInv
      <4>2. thread[c] # cur' /\ status'[thread[c]] = "blocked"
        BY <1>3, <1>6, <1>8, <4>1
      <4>3. thread[c] \notin Members(R[threadReadyList])
        BY <1>9, <4>1, <4>2 DEF Agree
      <4>4. OnNone(R, thread[c])
        BY <1>10, <4>1, <4>3, ListFacts DEF OnNone
      <4> QED BY <1>1, <4>1, <4>2, <4>4
    <3>3. /\ thread[c] # NULL => pc'[c] \in Waking \cup {"releaseUnspin"}
          /\ pc'[c] \in Waking => thread[c] # NULL
      BY <1>1, <3>1 DEF Waker, Parts
    <3> QED BY <3>2, <3>3 DEF Waker
  <2> QED BY <2>1 DEF Placed, Where, Wakers
<1>13. /\ \A M \in WaitList \ {semLock, semCond} : Members(R[M]) = {}
       /\ status'[Main] \in {"running", "ready"}
  BY <1>2, <1>3, <1>8, <1>10 DEF Placed, Where
<1>14. Placed(R)'
  BY <1>6, <1>9, <1>11, <1>12, <1>13 DEF Placed, Where
<1> QED BY <1>5, <1>9, <1>14

(* main starts a thread, which no list holds yet. *)
LEMMA StartStep ==
  ASSUME LockInv, NEW Q, Placed(Q), NEW t \in Thread, threadStart(t),
         UNCHANGED <<pc, ret, thread>>
  PROVE  /\ OnNone(Q, t)
         /\ \E R : Placed(R)' /\ OnlyReady(Q, R, Append(Q[threadReadyList], t))
<1>1. status[t] = "unborn" /\ t # cur
  BY CpuPlace DEF threadStart
<1>2. OnNone(Q, t)
  <2>1. t \notin Members(Q[semLock]) \cup Members(Q[semCond])
    BY <1>1, OtherPlace
  <2>2. t \notin Members(Q[threadReadyList])
    BY <1>1 DEF Placed, Agree
  <2> QED BY <2>1, <2>2, ListFacts DEF Placed, Where, OnNone
<1>3. /\ panic' = "none" /\ cur' = cur /\ status'[t] = "ready"
      /\ \A u \in Thread : u # t => status'[u] = status[u]
      /\ \E R : Agree(R)' /\ OnlyReady(Q, R, Append(Q[threadReadyList], t))
  BY <1>2, StartLists DEF Placed
<1>4. PICK R : Agree(R)' /\ OnlyReady(Q, R, Append(Q[threadReadyList], t))
  BY <1>3
<1>5. \A L \in WaitList : R[L] = Q[L]
  BY <1>4, WaitListsKept DEF Placed, Agree
<1>6. Places(R)'
  <2>1. SUFFICES ASSUME NEW u \in Thread PROVE Place(R, u, pc[Task(u)], ret[Task(u)])'
    BY DEF Places
  <2>2. Place(Q, u, pc[Task(u)], ret[Task(u)])
    BY DEF Placed, Where, Places
  <2>3. CASE u = t
    <3>1. u \notin Members(R[semLock]) /\ u \notin Members(R[semCond])
      BY <1>2, <1>5, <2>3, ListFacts DEF OnNone
    <3>2. ~ Sleeping(pc[Task(u)], ret[Task(u)]) /\ pc[Task(u)] \notin Queueing
      BY <1>1, <2>3, OtherPlace
    <3> QED BY <1>1, <1>3, <2>3, <3>1, <3>2 DEF Place
  <2>4. CASE u # t
    BY <1>3, <1>5, <2>2, <2>4, ListFacts DEF Place
  <2> QED BY <2>3, <2>4
<1>7. Wakers(R)'
  <2>1. ASSUME NEW c \in Ctx PROVE Waker(R, c, pc[c])'
    <3>1. Waker(Q, c, pc[c])
      BY DEF Placed, Where, Wakers
    <3>2. ASSUME thread[c] # NULL
          PROVE  status'[thread[c]] = "blocked" /\ OnNone(R, thread[c])
      <4>1. /\ thread[c] \in Thread /\ OnNone(Q, thread[c])
            /\ status[thread[c]] = "blocked"
        BY <3>1, <3>2 DEF Waker, LockInv, TypeInv
      <4>2. status'[thread[c]] = "blocked"
        BY <1>1, <1>3, <4>1
      <4>3. thread[c] \notin Members(R[threadReadyList])
        BY <1>4, <4>1, <4>2 DEF Agree
      <4> QED BY <1>5, <4>1, <4>2, <4>3, ListFacts DEF OnNone
    <3> QED BY <1>3, <3>1, <3>2 DEF Waker
  <2> QED BY <2>1 DEF Placed, Where, Wakers
<1>8. /\ \A M \in WaitList \ {semLock, semCond} : Members(R[M]) = {}
      /\ status'[Main] \in {"running", "ready"}
  BY <1>3, <1>5, ThreadAssumption DEF Placed, Where
<1> QED BY <1>2, <1>3, <1>4, <1>6, <1>7, <1>8 DEF Placed, Where

-----------------------------------------------------------------------------
(* When a thread queues itself on the lock, the lock is taken; when on the *)
(* condition, the value is 0; and only a signal lets it leave that.        *)
Enters(L) == \/ L = threadReadyList
             \/ L = semLock /\ holder[semLock] # NULL /\ holder' = holder
             \/ L = semCond /\ value = 0 /\ value' = 0

Leaves(L) == \/ L \in {threadReadyList, semLock}
             \/ L = semCond /\ pc[Task(cur)] = "upSignal" /\ pc'[Task(cur)] = "signalWake"

(* What may become of the queue L: its first thread leaves, or a thread    *)
(* that is in no queue enters; the ready list has other ways of its own.   *)
Moves(Q, L, new) ==
  \/ Len(Q[L]) # 0 /\ new = Tail(Q[L]) /\ Leaves(L)
  \/ \E t \in Thread :
       /\ OnNone(Q, t)
       /\ \/ new = Append(Q[L], t) /\ Enters(L)
          \/ L = threadReadyList /\ (new = <<t>> \o Q[L] \/ new = Tail(Append(Q[L], t)))

Moved(Q, R) == \/ R = Q
               \/ \E L \in ListId : R = [Q EXCEPT ![L] = R[L]] /\ Moves(Q, L, R[L])

Advances(Q) == \E R : Placed(R)' /\ Moved(Q, R)

(* A change of one queue is a change of the queues. *)
LEMMA OneMoved ==
  ASSUME NEW Q, Placed(Q), NEW L \in ListId, NEW new, Moves(Q, L, new),
         NEW R, R = [Q EXCEPT ![L] = new]
  PROVE  Moved(Q, R)
<1>1. R[L] = new
  BY DEF Placed, Agree, Lists
<1> QED BY <1>1 DEF Moved

(* A thread that is not about to wake another has none in its hands. *)
LEMMA EmptyHanded ==
  ASSUME LockInv, NEW Q, Placed(Q), pc[Task(cur)] \notin Waking \cup {"releaseUnspin"}
  PROVE  thread[Task(cur)] = NULL
  BY TypeFacts DEF Placed, Where, Wakers, Waker

(* lockAcquire queues the thread on the lock before it blocks it. *)
LEMMA AcquirePlaces ==
  ASSUME OneContender, LockInv, FlagInv, NEW Q, Placed(Q), NEW c \in Ctx,
         lockAcquire(c), UNCHANGED <<condVars, value>>
  PROVE  Advances(Q)
<1>1. /\ c = Task(cur) /\ Control(pc[c], ret[c], back[c]) /\ Boots(cur, pc[c])
      /\ lk[c] = semLock /\ ret' = [ret EXCEPT ![c] = ret[c]]
  <2>1. c = Task(cur) /\ ret' = ret
    BY ActsOnCpu DEF lockAcquire, AcquireTry, AcquireSpin, AcquireAppend, AcquireRecheck,
                     AcquireRemove, AcquireUnspin, AcquireBlock
  <2> QED BY <2>1, TypeFacts DEF LockInv, TypeInv
<1>2. pc[c] \in AcquireLabel \ {"lockAcquire"} =>
        holder[semLock] # NULL /\ pc[c] \notin {"acquireRemove", "acquireUnspin"}
  BY DEF FlagInv, SpinOK
<1>3. /\ pc[c] \in AcquireLabel /\ cur # Main /\ ~ Sleeping(pc[c], ret[c])
      /\ ret[c] \in {"waitReturn", "downLoop", "upAdd"} /\ thread' = thread
  <2>1. pc[c] \in AcquireLabel
    BY DEF lockAcquire, AcquireTry, AcquireSpin, AcquireAppend, AcquireRecheck,
           AcquireRemove, AcquireUnspin, AcquireBlock, At, AcquireLabel
  <2> QED BY <1>1, <2>1 DEF lockAcquire, AcquireTry, AcquireSpin, AcquireAppend,
             AcquireRecheck, AcquireRemove, AcquireUnspin, AcquireBlock,
             AcquireLabel, Boots, Sleeping, ReleaseLabel, Control
<1>4. thread[c] = NULL
  BY <1>1, <1>3, EmptyHanded DEF AcquireLabel, Waking
<1>5. \A l : l \notin {"waitSchedule"} \cup ReleaseLabel => ~ Sleeping(l, ret[c])
  BY DEF Sleeping
<1>6. CASE AcquireTry(c) \/ AcquireSpin(c) \/ AcquireRecheck(c)
  <2>1. \E l1 \in {"waitReturn", "downLoop", "upAdd", "acquireSpin", "acquireAppend",
                   "acquireBlock"} :
          /\ pc' = [pc EXCEPT ![c] = l1]
          /\ pc[c] \in Queueing <=> l1 \in Queueing
    BY <1>1, <1>2, <1>3, <1>6 DEF AcquireTry, AcquireSpin, AcquireRecheck, At, Cas, Goto,
         SpinAcquire, Queueing, AcquireLabel
  <2>2. PICK l1 \in {"waitReturn", "downLoop", "upAdd", "acquireSpin", "acquireAppend",
                     "acquireBlock"} :
          /\ pc' = [pc EXCEPT ![c] = l1]
          /\ pc[c] \in Queueing <=> l1 \in Queueing
    BY <2>1
  <2>3. UNCHANGED <<heap, status, cur, panic, thread>>
    BY <1>6 DEF AcquireTry, AcquireSpin, AcquireRecheck, schedVars
  <2>4. Own(l1, ret[c]) /\ ~ Sleeping(l1, ret[c]) /\ l1 \notin Waking
    BY <1>1, <1>5, <2>2 DEF Own, ReleaseLabel, Waking
  <2>5. Placed(Q)'
    BY <1>1, <1>3, <1>4, <2>2, <2>3, <2>4, QuietStep
  <2> QED BY <2>5 DEF Advances, Moved
<1>7. CASE AcquireAppend(c)
  <2>1. /\ pc[c] = "acquireAppend" /\ pc' = [pc EXCEPT ![c] = "acquireRecheck"]
        /\ heap' = ListAppend(heap, semLock, cur)
             /\ UNCHANGED <<status, cur, panic, thread>>
    BY <1>1, <1>7 DEF AcquireAppend, At, Goto
  <2>2. /\ Own("acquireRecheck", ret[c]) /\ ~ Sleeping("acquireRecheck", ret[c])
        /\ "acquireRecheck" \in Queueing \ Waking
        /\ pc[c] \notin Queueing \cup Waking \cup {"releaseUnspin"}
    BY <1>1, <1>5, <2>1 DEF Own, ReleaseLabel, Waking, Queueing
  <2>3. PICK R : R = [Q EXCEPT ![semLock] = Append(Q[semLock], cur)]
    OBVIOUS
  <2>4. Placed(R)' /\ OnNone(Q, cur)
    BY <1>1, <1>3, <2>1, <2>2, <2>3, QueueStep
  <2>5. Moved(Q, R)
    <3>1. Enters(semLock)
      BY <1>2, <1>7, <2>1 DEF Enters, AcquireAppend, lockVars, AcquireLabel
    <3>2. Moves(Q, semLock, Append(Q[semLock], cur)) /\ semLock \in ListId
      BY <2>4, <3>1, TypeFacts, ListFacts DEF Moves
    <3> QED BY <2>3, <3>2, OneMoved
  <2> QED BY <2>4, <2>5 DEF Advances
<1>8. ~ AcquireRemove(c) /\ ~ AcquireUnspin(c)
  BY <1>2 DEF AcquireRemove, AcquireUnspin, At, AcquireLabel
<1>9. CASE AcquireBlock(c)
  <2> DEFINE st == [status EXCEPT ![cur] = "blocked"]
  <2>1. /\ pc[c] = "acquireBlock" /\ pc' = [pc EXCEPT ![c] = "lockAcquire"]
        /\ schedule(heap, st)
    BY <1>9 DEF AcquireBlock, At, Goto
  <2>2. st[cur] = "blocked" /\ st = [status EXCEPT ![cur] = "blocked"]
    BY TypeFacts DEF Placed, Agree
  <2> HIDE DEF st
  <2>3. Own("lockAcquire", ret[c]) /\ ~ Sleeping("lockAcquire", ret[c])
    BY <1>1, <1>5, <2>1 DEF Own, ReleaseLabel
  <2>4. cur \in Members(Q[semLock]) /\ cur \notin Members(Q[semCond])
    BY <1>1, <1>3, <2>1, CpuPlace DEF Queueing
  <2>5. Parts(Q, st, "lockAcquire", ret[c])
    BY <1>1, <1>3, <1>4, <2>2, <2>3, <2>4 DEF Parts, Queueing, Waking
  <2>6. /\ Len(Q[threadReadyList]) # 0
        /\ \E R : Placed(R)' /\ OnlyReady(Q, R, Tail(Q[threadReadyList]))
    BY <1>3, <2>1, <2>2, <2>3, <2>5, SwitchStep
  <2>7. Moves(Q, threadReadyList, Tail(Q[threadReadyList])) /\ threadReadyList \in ListId
    BY <2>6, ListFacts DEF Moves, Leaves
  <2> QED BY <2>6, <2>7, OneMoved DEF Advances, OnlyReady
<1> QED BY <1>6, <1>7, <1>8, <1>9 DEF lockAcquire

(* The test for an empty list of waiters, and what listPop is given. *)
LEMMA FirstWaiter ==
  ASSUME NEW Q, Placed(Q), NEW L \in WaitList
  PROVE  /\ ListEmpty(heap, L) <=> Len(Q[L]) = 0
         /\ ~ ListEmpty(heap, L) => ListFirst(heap, L) \in Thread
<1>1. Lists(heap, Q) /\ L \in ListId
  BY ListFacts DEF Placed, Agree
<1>2. ListEmpty(heap, L) <=> Len(Q[L]) = 0
  BY <1>1, TestsOfLists
<1>3. ASSUME Len(Q[L]) # 0 PROVE ListFirst(heap, L) \in Thread
  BY <1>1, <1>3, FirstOfLists
<1> QED BY <1>2, <1>3

(* The first thread of a queue leaves it. *)
LEMMA PopMoved ==
  ASSUME NEW Q, Placed(Q), NEW L \in ListId, Len(Q[L]) # 0, Leaves(L),
         NEW R, R = [Q EXCEPT ![L] = Tail(Q[L])]
  PROVE  Moved(Q, R)
  BY OneMoved DEF Moves

(* A woken thread goes to the front of the ready list. *)
LEMMA WakeMoved ==
  ASSUME NEW Q, Placed(Q), NEW p \in Thread, OnNone(Q, p),
         NEW R, OnlyReady(Q, R, <<p>> \o Q[threadReadyList])
  PROVE  Moved(Q, R)
<1>1. Moves(Q, threadReadyList, <<p>> \o Q[threadReadyList]) /\ threadReadyList \in ListId
  BY ListFacts DEF Moves
<1> QED BY <1>1, OneMoved DEF OnlyReady

(* lockRelease takes the first waiter off and wakes it. *)
LEMMA ReleasePlaces ==
  ASSUME LockInv, NEW Q, Placed(Q), NEW c \in Ctx, lockRelease(c),
         UNCHANGED <<condVars, value>>
  PROVE  Advances(Q)
<1>1. pc[c] \in ReleaseLabel /\ c = Task(cur) /\ ret' = ret
  BY ActsOnCpu DEF lockRelease, ReleaseClear, ReleaseSpin, ReleasePop, ReleaseUnspin,
                   ReleaseWake, ReleaseLabel
<1>2. /\ Control(pc[c], ret[c], back[c]) /\ lk[c] = semLock
           /\ ret[c] \in {"waitSchedule", "return"}
      /\ (holder[semLock] = cur <=> pc[c] \in Held) /\ ret = [ret EXCEPT ![c] = ret[c]]
      /\ pc \in [Ctx -> Label] /\ thread \in [Ctx -> Thread \cup {NULL}]
  BY <1>1, TypeFacts DEF Control, LockInv, TypeInv
<1>3. /\ \A l \in ReleaseLabel : Sleeping(l, ret[c]) <=> ret[c] = "waitSchedule"
      /\ Sleeping(ret[c], ret[c]) <=> ret[c] = "waitSchedule"
      /\ \A l \in ReleaseLabel \cup {ret[c]} : l \notin Queueing
      /\ ret[c] \notin Waking
  BY <1>2 DEF Sleeping, ReleaseLabel, Queueing, Waking
<1>4. pc[c] \notin Waking \cup {"releaseUnspin"} => thread[c] = NULL
  BY <1>1, EmptyHanded
<1>5. pc[c] \in Waking => thread[c] # NULL /\ status[thread[c]] = "blocked"
  BY <1>1 DEF Placed, Where, Wakers, Waker
<1>6. CASE \/ ReleaseClear(c) \/ ReleaseSpin(c) \/ ReleaseUnspin(c)
           \/ ReleasePop(c) /\ ListEmpty(heap, semLock)
  <2> DEFINE l1 == IF pc[c] = "lockRelease" THEN "releaseSpin"
                   ELSE IF pc[c] = "releaseSpin" THEN "releasePop"
                   ELSE IF pc[c] = "releasePop" THEN "releaseUnspin"
                   ELSE IF thread[c] # NULL THEN "releaseWake" ELSE ret[c]
  <2>1. /\ pc' = [pc EXCEPT ![c] = l1] /\ UNCHANGED <<heap, status, cur, panic, thread>>
        /\ pc[c] \in {"lockRelease", "releaseSpin", "releasePop", "releaseUnspin"}
    BY <1>2, <1>6 DEF ReleaseClear, ReleaseSpin, ReleaseUnspin, ReleasePop, At, Goto,
       Held, SpinAcquire, schedVars
  <2>2. /\ l1 \in ReleaseLabel \cup {ret[c]}
        /\ thread[c] # NULL => l1 \in Waking \cup {"releaseUnspin"}
        /\ l1 \in Waking => thread[c] # NULL
    BY <1>3, <1>4, <2>1 DEF ReleaseLabel, Waking
  <2>3. Own(l1, ret[c])
    BY <1>1, <1>2, <2>1 DEF Own
  <2> HIDE DEF l1
  <2>4. Sleeping(l1, ret[c]) <=> Sleeping(pc[c], ret[c])
    BY <1>1, <1>3, <2>2
  <2>5. l1 \in Queueing <=> pc[c] \in Queueing
    BY <1>1, <1>3, <2>2
  <2>6. Placed(Q)'
    BY <1>1, <2>1, <2>2, <2>3, <2>4, <2>5, QuietStep
  <2> QED BY <2>6 DEF Advances, Moved
<1>7. CASE ReleasePop(c) /\ ~ ListEmpty(heap, semLock)
  <2>1. Len(Q[semLock]) # 0 /\ ListFirst(heap, semLock) \in Thread
    BY <1>7, FirstWaiter, ListFacts
  <2>2. /\ pc[c] = "releasePop" /\ pc' = [pc EXCEPT ![c] = "releaseUnspin"]
        /\ heap' = ListPop(heap, semLock) /\ UNCHANGED <<status, cur, panic>>
        /\ thread' = [thread EXCEPT ![c] = ListFirst(heap, semLock)]
    BY <1>2, <1>7, <2>1 DEF ReleasePop, At, Goto
  <2>3. Own("releaseUnspin", ret[c])
    BY <1>1, <1>2, <2>2 DEF Own
  <2>4. /\ pc[c] \notin Queueing \cup Waking \cup {"releaseUnspin"}
        /\ Sleeping("releaseUnspin", ret[c]) <=> Sleeping(pc[c], ret[c])
    BY <1>1, <1>3, <2>2 DEF Queueing, Waking, ReleaseLabel
  <2>5. cur \notin Members(Q[semLock])
    BY <1>1, <2>4, CpuPlace
  <2> DEFINE R == [Q EXCEPT ![semLock] = Tail(Q[semLock])]
  <2>6. R = [Q EXCEPT ![semLock] = Tail(Q[semLock])]
    OBVIOUS
  <2> HIDE DEF R
  <2>7. Placed(R)'
    BY <1>1, <2>1, <2>2, <2>3, <2>4, <2>5, <2>6, PopStep
  <2>8. Moved(Q, R)
    BY <2>1, <2>6, PopMoved, ListFacts DEF Leaves
  <2> QED BY <2>7, <2>8 DEF Advances
<1>8. CASE ReleaseWake(c)
  <2>1. /\ pc[c] = "releaseWake" /\ pc' = [pc EXCEPT ![c] = ret[c]]
        /\ thread' = [thread EXCEPT ![c] = NULL] /\ threadUnblock(thread[c])
    BY <1>5, <1>8 DEF ReleaseWake, At, Goto, Waking
  <2>2. Own(ret[c], ret[c]) /\ pc[c] \in Waking /\ ret[c] \notin Waking \cup Queueing
    BY <1>1, <1>2, <1>3, <2>1 DEF Own, Waking
  <2>3. Sleeping(ret[c], ret[c]) <=> Sleeping(pc[c], ret[c])
    BY <1>1, <1>3
  <2>4. /\ OnNone(Q, thread[c]) /\ thread[c] \in Thread
        /\ \E R : Placed(R)' /\ OnlyReady(Q, R, <<thread[c]>> \o Q[threadReadyList])
    BY <1>1, <2>1, <2>2, <2>3, WakeStep
  <2>5. PICK R : Placed(R)' /\ OnlyReady(Q, R, <<thread[c]>> \o Q[threadReadyList])
    BY <2>4
  <2>6. Moved(Q, R)
    BY <2>4, <2>5, WakeMoved
  <2> QED BY <2>5, <2>6 DEF Advances
<1> QED BY <1>6, <1>7, <1>8 DEF lockRelease

(* conditionWait blocks the thread it has queued; conditionSignal wakes    *)
(* the one that upSignal took off.                                         *)
LEMMA ConditionPlaces ==
  ASSUME LockInv, NEW Q, Placed(Q), NEW c \in Ctx,
         WaitSchedule(c) \/ WaitReturn(c) \/ SignalWake(c)
  PROVE  Advances(Q)
<1>1. /\ c = Task(cur) /\ pc[c] \in {"waitSchedule", "waitReturn", "signalWake"}
      /\ ret = [ret EXCEPT ![c] = ret[c]]
  BY ActsOnCpu DEF WaitSchedule, WaitReturn, SignalWake, LockInv, TypeInv
<1>2. Control(pc[c], ret[c], back[c]) /\ Boots(cur, pc[c])
  BY <1>1, TypeFacts
<1>3. pc[c] \notin Waking \cup {"releaseUnspin"} => thread[c] = NULL
  BY <1>1, EmptyHanded
<1>4. CASE WaitSchedule(c)
  <2>1. /\ pc[c] = "waitSchedule" /\ pc' = [pc EXCEPT ![c] = "lockAcquire"]
        /\ ret' = [ret EXCEPT ![c] = "waitReturn"] /\ thread' = thread
        /\ schedule(heap, status)
    BY <1>4 DEF WaitSchedule, At, Goto, Call
  <2>2. Sleeping(pc[c], ret[c]) /\ pc[c] \notin Queueing /\ cur # Main
    BY <1>2, <2>1 DEF Sleeping, Queueing, Boots
  <2>3. /\ status[cur] = "blocked" /\ cur \in Members(Q[semCond])
        /\ cur \notin Members(Q[semLock])
    BY <1>1, <2>2, CpuPlace
  <2>4. Own("lockAcquire", "waitReturn")
    BY <1>1, <2>1 DEF Own
  <2>5. Parts(Q, status, "lockAcquire", "waitReturn")
    BY <1>1, <1>3, <2>1, <2>2, <2>3 DEF Parts, Queueing, Waking, Sleeping, ReleaseLabel
  <2>6. /\ Len(Q[threadReadyList]) # 0
        /\ \E R : Placed(R)' /\ OnlyReady(Q, R, Tail(Q[threadReadyList]))
    BY <2>1, <2>3, <2>4, <2>5, SwitchStep
  <2> QED BY <2>6, PopMoved, ListFacts DEF Advances, OnlyReady, Leaves
<1>5. CASE WaitReturn(c)
  <2>1. /\ pc[c] = "waitReturn" /\ pc' = [pc EXCEPT ![c] = "downLoop"] /\ ret' = ret
        /\ UNCHANGED <<heap, status, cur, panic, thread>> /\ ret[c] = "waitReturn"
    BY <1>2, <1>5 DEF WaitReturn, At, Goto, Control, schedVars
  <2>2. /\ Own("downLoop", ret[c]) /\ ~ Sleeping("downLoop", ret[c])
        /\ ~ Sleeping(pc[c], ret[c]) /\ "downLoop" \notin Queueing \cup Waking
        /\ pc[c] \notin Queueing \cup Waking
    BY <1>1, <2>1 DEF Own, Sleeping, Queueing, Waking, ReleaseLabel
  <2>3. thread[c] = NULL
    BY <1>3, <2>1 DEF Waking
  <2>4. Placed(Q)'
    BY <1>1, <2>1, <2>2, <2>3, QuietStep
  <2> QED BY <2>4 DEF Advances, Moved
<1>6. CASE SignalWake(c)
  <2>1. /\ pc[c] = "signalWake" /\ pc' = [pc EXCEPT ![c] = "release"] /\ ret' = ret
        /\ thread' = [thread EXCEPT ![c] = NULL] /\ threadUnblock(thread[c])
        /\ ret[c] = "upAdd"
    BY <1>2, <1>6 DEF SignalWake, At, Goto, Control
  <2>2. /\ Own("release", ret[c]) /\ pc[c] \in Waking
             /\ "release" \notin Waking \cup Queueing
        /\ ~ Sleeping("release", ret[c]) /\ ~ Sleeping(pc[c], ret[c])
    BY <1>1, <2>1 DEF Own, Waking, Queueing, Sleeping, ReleaseLabel
  <2>3. /\ OnNone(Q, thread[c]) /\ thread[c] \in Thread
        /\ \E R : Placed(R)' /\ OnlyReady(Q, R, <<thread[c]>> \o Q[threadReadyList])
    BY <1>1, <2>1, <2>2, WakeStep
  <2> QED BY <2>3, WakeMoved DEF Advances
<1> QED BY <1>4, <1>5, <1>6

(* semaphoreDown queues the thread on the condition, semaphoreUp takes     *)
(* one off.                                                                *)
LEMMA CallPlaces ==
  ASSUME LockInv, NEW Q, Placed(Q), NEW c \in Ctx,
         DownLoop(c) \/ DownTake(c) \/ UpAdd(c) \/ UpSignal(c) \/ Release(c) \/ Return(c)
  PROVE  Advances(Q)
<1>1. /\ c = Task(cur) /\ ret = [ret EXCEPT ![c] = ret[c]]
      /\ pc[c] \in {"downLoop", "downTake", "upAdd", "upSignal", "release", "return"}
  BY ActsOnCpu DEF DownLoop, DownTake, UpAdd, UpSignal, Release, Return, LockInv, TypeInv
<1>2. /\ Control(pc[c], ret[c], back[c]) /\ cur # Main /\ ~ Sleeping(pc[c], ret[c])
      /\ pc[c] \notin Queueing \cup Waking \cup {"releaseUnspin"}
  BY <1>1, TypeFacts DEF Boots, Sleeping, ReleaseLabel, Queueing, Waking
<1>3. thread[c] = NULL
  BY <1>1, <1>2, EmptyHanded
<1>4. CASE DownLoop(c) /\ value = 0
  <2>1. /\ pc' = [pc EXCEPT ![c] = "lockRelease"]
             /\ ret' = [ret EXCEPT ![c] = "waitSchedule"]
        /\ heap' = ListAppend(heap, semCond, cur) /\ UNCHANGED <<cur, panic, thread>>
        /\ status' = [status EXCEPT ![cur] = "blocked"]
    BY <1>4 DEF DownLoop, conditionWait, Call, Goto
  <2>2. /\ Own("lockRelease", "waitSchedule") /\ Sleeping("lockRelease", "waitSchedule")
        /\ "lockRelease" \notin Queueing \cup Waking
    BY <1>1, <2>1 DEF Own, Sleeping, ReleaseLabel, Queueing, Waking
  <2>3. PICK R : R = [Q EXCEPT ![semCond] = Append(Q[semCond], cur)]
    OBVIOUS
  <2>4. Placed(R)' /\ OnNone(Q, cur)
    BY <1>1, <1>2, <2>1, <2>2, <2>3, ListFacts, QueueStep
  <2>5. Moved(Q, R)
    <3>1. Enters(semCond)
      BY <1>4 DEF Enters, DownLoop
    <3>2. Moves(Q, semCond, Append(Q[semCond], cur)) /\ semCond \in ListId
      BY <2>4, <3>1, TypeFacts, ListFacts DEF Moves
    <3> QED BY <2>3, <3>2, OneMoved
  <2> QED BY <2>4, <2>5 DEF Advances
<1>5. CASE UpSignal(c) /\ ~ ListEmpty(heap, semCond)
  <2>1. Len(Q[semCond]) # 0 /\ ListFirst(heap, semCond) \in Thread
    BY <1>5, FirstWaiter, ListFacts
  <2>2. /\ pc' = [pc EXCEPT ![c] = "signalWake"] /\ ret' = ret /\ pc[c] = "upSignal"
        /\ heap' = ListPop(heap, semCond) /\ UNCHANGED <<status, cur, panic>>
        /\ thread' = [thread EXCEPT ![c] = ListFirst(heap, semCond)]
    BY <1>5, <2>1 DEF UpSignal, conditionSignal, At, Goto
  <2>3. /\ Own("signalWake", ret[c]) /\ ret[c] = "upAdd" /\ ~ Sleeping("signalWake", ret[c])
    BY <1>1, <1>2, <2>2 DEF Own, Sleeping, ReleaseLabel, Control
  <2>4. cur \notin Members(Q[semCond])
    BY <1>1, <1>2, CpuPlace
  <2> DEFINE R == [Q EXCEPT ![semCond] = Tail(Q[semCond])]
  <2>5. R = [Q EXCEPT ![semCond] = Tail(Q[semCond])]
    OBVIOUS
  <2> HIDE DEF R
  <2>6. Placed(R)'
    BY <1>1, <1>2, <2>1, <2>2, <2>3, <2>4, <2>5, PopStep
  <2>7. Leaves(semCond)
    BY <1>1, <2>2 DEF Leaves, LockInv, TypeInv
  <2>8. Moved(Q, R)
    BY <2>1, <2>5, <2>7, PopMoved, ListFacts
  <2> QED BY <2>6, <2>8 DEF Advances
<1>6. CASE \/ DownLoop(c) /\ value # 0
           \/ UpSignal(c) /\ ListEmpty(heap, semCond)
           \/ DownTake(c) \/ UpAdd(c) \/ Release(c) \/ Return(c)
  <2>1. UNCHANGED <<heap, status, cur, panic, thread>>
    BY <1>6 DEF DownLoop, UpSignal, DownTake, UpAdd, Release, Return, conditionSignal,
       schedVars
  <2>2. \E l1 \in {"downTake", "release", "upSignal", "lockRelease", "idle"},
           r1 \in {ret[c], "return", "idle"} :
             /\ pc' = [pc EXCEPT ![c] = l1] /\ ret' = [ret EXCEPT ![c] = r1]
             /\ l1 = "lockRelease" <=> r1 = "return"
    BY <1>1, <1>2, <1>6 DEF DownLoop, DownTake, UpAdd, UpSignal, Release, Return,
         conditionSignal, At, Goto, Call, Control
  <2>3. PICK l1 \in {"downTake", "release", "upSignal", "lockRelease", "idle"},
             r1 \in {ret[c], "return", "idle"} :
             /\ pc' = [pc EXCEPT ![c] = l1] /\ ret' = [ret EXCEPT ![c] = r1]
             /\ l1 = "lockRelease" <=> r1 = "return"
    BY <2>2
  <2>4. Own(l1, r1) /\ ~ Sleeping(l1, r1) /\ l1 \notin Queueing \cup Waking
    BY <1>1, <1>2, <2>3 DEF Own, Sleeping, ReleaseLabel, Queueing, Waking, Control
  <2>5. /\ l1 \in Queueing <=> pc[Task(cur)] \in Queueing
        /\ Sleeping(l1, r1) <=> Sleeping(pc[Task(cur)], ret[Task(cur)])
        /\ thread[Task(cur)] = NULL /\ l1 \notin Waking
    BY <1>1, <1>2, <1>3, <2>4
  <2>6. Placed(Q)'
    BY <2>1, <2>4, <2>5, QuietStep
  <2>7. Moved(Q, Q)
    BY DEF Moved
  <2> QED BY <2>6, <2>7 DEF Advances
<1> QED BY <1>4, <1>5, <1>6

(* A call moves nobody. *)
LEMMA EnterPlaces ==
  ASSUME LockInv, NEW Q, Placed(Q), NEW t \in Thread \ {Main},
         NEW label \in {"downLoop", "upAdd"}, Enter(t, label)
  PROVE  Advances(Q)
<1>1. Task(t) = Task(cur) /\ pc[Task(t)] = "idle" /\ t = cur
  BY CtxFacts, TypeFacts DEF Enter, At
<1>2. Own("lockAcquire", label) /\ UNCHANGED <<heap, status, cur, panic, thread>>
  BY <1>1 DEF Enter, Call, Goto, Own, schedVars
<1>3. /\ ~ Sleeping("lockAcquire", label) /\ ~ Sleeping("idle", ret[Task(cur)])
      /\ "lockAcquire" \notin Queueing \cup Waking
      /\ "idle" \notin Queueing \cup Waking \cup {"releaseUnspin"}
  BY DEF Sleeping, ReleaseLabel, Queueing, Waking
<1>4. thread[Task(cur)] = NULL
  BY <1>1, <1>3, EmptyHanded
<1>5. Placed(Q)'
  BY <1>1, <1>2, <1>3, <1>4, QuietStep
<1> QED BY <1>5 DEF Advances, Moved

(* main puts its threads on the ready list and goes idle. *)
LEMMA BootPlaces ==
  ASSUME LockInv, NEW Q, Placed(Q), BootStep
  PROVE  Advances(Q)
<1>1. /\ cur = Main /\ pc[Task(cur)] = "boot" /\ ret[Task(cur)] = "idle"
      /\ pc \in [Ctx -> Label] /\ ret \in [Ctx -> Label]
  BY TypeFacts, CtxFacts, ThreadAssumption
     DEF BootStep, Boot, At, Task, ThreadOf, LockInv, TypeInv, Control
<1>2. ret' = ret /\ thread' = thread
  BY DEF BootStep, Boot
<1>3. CASE \E t \in Thread : status[t] = "unborn"
  <2>1. PICK t \in Thread : threadStart(t)
    BY <1>3 DEF BootStep, Boot
  <2>2. pc' = pc
    BY <1>3 DEF BootStep, Boot
  <2>3. /\ OnNone(Q, t)
        /\ \E R : Placed(R)' /\ OnlyReady(Q, R, Append(Q[threadReadyList], t))
    BY <1>2, <2>1, <2>2, StartStep
  <2>4. Moves(Q, threadReadyList, Append(Q[threadReadyList], t))
          /\ threadReadyList \in ListId
    BY <2>3, ListFacts DEF Moves, Enters
  <2> QED BY <2>3, <2>4, OneMoved DEF Advances, OnlyReady
<1>4. CASE ~ \E t \in Thread : status[t] = "unborn"
  <2>1. /\ pc' = [pc EXCEPT ![Task(cur)] = "idle"]
        /\ UNCHANGED <<heap, status, cur, panic, thread>>
    BY <1>1, <1>4 DEF BootStep, Boot, Goto, Task, schedVars
  <2>2. Own("idle", "idle")
    BY <1>1, <1>2, <2>1 DEF Own
  <2>3. /\ ~ Sleeping("idle", "idle") /\ ~ Sleeping("boot", "idle")
        /\ "idle" \notin Queueing \cup Waking
        /\ "boot" \notin Queueing \cup Waking \cup {"releaseUnspin"}
    BY DEF Sleeping, ReleaseLabel, Queueing, Waking
  <2>4. thread[Task(cur)] = NULL
    BY <1>1, <2>3, EmptyHanded
  <2>5. Placed(Q)'
    BY <1>1, <2>1, <2>2, <2>3, <2>4, QuietStep
  <2> QED BY <2>5 DEF Advances, Moved
<1> QED BY <1>3, <1>4

(* Only a thread that is in no queue is interrupted. *)
LEMMA InterruptedPlace ==
  ASSUME LockInv, FlagInv, NEW Q, Placed(Q), iflag[cur]
  PROVE  /\ ~ Sleeping(pc[Task(cur)], ret[Task(cur)]) /\ pc[Task(cur)] \notin Queueing
         /\ OnNone(Q, cur) /\ status[cur] = "running"
<1>1. /\ cur \in Thread /\ Task(cur) \in Ctx /\ ThreadOf(Task(cur)) = cur
      /\ Boots(cur, pc[Task(cur)])
  BY TypeFacts
<1>2. FlagAt(cur, pc[Task(cur)], ret[Task(cur)])
  BY <1>1 DEF FlagInv, FlagsOK
<1>3. ~ Sleeping(pc[Task(cur)], ret[Task(cur)])
  BY <1>1, <1>2 DEF FlagAt, Waits, Boots, Sleeping, ReleaseLabel
<1>4. pc[Task(cur)] \notin Queueing
  <2>1. ASSUME pc[Task(cur)] \in Queueing PROVE FALSE
    <3>1. cur \in Process /\ cur # Main
      BY <1>1, <2>1, SemaphoresAssumption DEF FlagInv, SpinOK, Queueing, AcquireLabel
    <3> QED BY <1>2, <2>1, <3>1 DEF FlagAt, Queueing
  <2> QED BY <2>1
<1> QED BY <1>3, <1>4, CpuPlace

(* A timer interrupt puts the thread it preempts on the ready list, which  *)
(* is in no queue then.                                                    *)
LEMMA TickPlaces ==
  ASSUME LockInv, FlagInv, NEW Q, Placed(Q), Tick
  PROVE  Advances(Q)
<1>1. /\ iflag[cur] /\ UNCHANGED <<pc, ret, thread>> /\ schedule(heap, status)
  BY DEF Tick, Timer, TimerPreempts, callVars
<1>2. /\ cur \in Thread /\ Task(cur) \in Ctx
      /\ pc \in [Ctx -> Label] /\ ret \in [Ctx -> Label]
  BY TypeFacts DEF LockInv, TypeInv
<1>3. /\ ~ Sleeping(pc[Task(cur)], ret[Task(cur)]) /\ pc[Task(cur)] \notin Queueing
      /\ OnNone(Q, cur) /\ status[cur] = "running"
  BY <1>1, InterruptedPlace
<1>4. Waker(Q, Task(cur), pc[Task(cur)])
  BY <1>2 DEF Placed, Where, Wakers
<1>5. Parts(Q, status, pc[Task(cur)], ret[Task(cur)])
  BY <1>3, <1>4 DEF Parts, Waker
<1>6. Own(pc[Task(cur)], ret[Task(cur)])
  BY <1>1, <1>2 DEF Own
<1>7. \E R : /\ Placed(R)'
             /\ OnlyReady(Q, R, Tail(Append(Q[threadReadyList], cur)))
  BY <1>1, <1>3, <1>5, <1>6, SwitchStep
<1>8. /\ Moves(Q, threadReadyList, Tail(Append(Q[threadReadyList], cur)))
      /\ threadReadyList \in ListId
  BY <1>2, <1>3, ListFacts DEF Moves
<1> QED BY <1>7, <1>8, OneMoved DEF Advances, OnlyReady

(* At the start main has the CPU and every queue is empty. *)
LEMMA PlacesInit == Init => Placed([L \in ListId |-> <<>>])
<1> SUFFICES ASSUME Init PROVE Placed([L \in ListId |-> <<>>])
  OBVIOUS
<1> DEFINE Q == [L \in ListId |-> <<>>]
<1>1. /\ heap = ListInit(ListId, Thread) /\ cur = Main /\ panic = "none"
      /\ status = [t \in Thread |-> IF t = Main THEN "running" ELSE "unborn"]
      /\ pc = [c \in Ctx |-> IF c = Task(Main) THEN "boot" ELSE "idle"]
      /\ ret = [c \in Ctx |-> "idle"] /\ thread = [c \in Ctx |-> NULL]
  BY DEF Init, ThreadsInit, LocksInit, Task
<1>2. Agree(Q)
  BY <1>1, InitLists
<1>3. \A L \in ListId : Members(Q[L]) = {}
  BY DEF Members
<1> HIDE DEF Q
<1>4. \A c \in Ctx : /\ pc[c] \in {"boot", "idle"} /\ ret[c] = "idle" /\ thread[c] = NULL
                     /\ pc[c] = "idle" \/ c = Task(Main)
  BY <1>1
<1>5. ~ Sleeping("boot", "idle") /\ ~ Sleeping("idle", "idle")
  BY DEF Sleeping, ReleaseLabel
<1>6. Places(Q)
  <2>1. SUFFICES ASSUME NEW t \in Thread PROVE Place(Q, t, pc[Task(t)], ret[Task(t)])
    BY DEF Places
  <2>2. /\ pc[Task(t)] \in {"boot", "idle"} /\ ret[Task(t)] = "idle"
        /\ t # Main => pc[Task(t)] = "idle"
    BY <1>4, CtxFacts, ThreadAssumption
  <2>3. status[t] = IF t = Main THEN "running" ELSE "unborn"
    BY <1>1
  <2> QED BY <1>1, <1>3, <1>5, <2>2, <2>3, ListFacts DEF Place, Queueing
<1>7. Wakers(Q)
  BY <1>4 DEF Wakers, Waker, Waking
<1>8. /\ \A L \in WaitList \ {semLock, semCond} : Members(Q[L]) = {}
      /\ status[Main] = "running"
  BY <1>1, <1>3, ListFacts, ThreadAssumption
<1> QED BY <1>1, <1>2, <1>6, <1>7, <1>8 DEF Placed, Where, Q

(* Every step keeps everybody in one place. *)
LEMMA PlacesNext ==
  ASSUME OneContender, LockInv, FlagInv, [Next]_vars, NEW Q, Placed(Q)
  PROVE  Advances(Q)
<1>1. CASE BootStep
  BY <1>1, BootPlaces
<1>2. CASE Tick
  BY <1>2, TickPlaces
<1>3. CASE \E t \in Thread \ {Main} : semaphoreDown(t) \/ semaphoreUp(t)
  BY <1>3, EnterPlaces DEF semaphoreDown, semaphoreUp
<1>4. CASE \E c \in Ctx : Step(c)
  <2>1. PICK c \in Ctx : Step(c)
    BY <1>4
  <2>2. CASE (lockAcquire(c) \/ lockRelease(c)) /\ UNCHANGED <<condVars, value>>
    BY <2>2, AcquirePlaces, ReleasePlaces
  <2>3. CASE (WaitSchedule(c) \/ WaitReturn(c) \/ SignalWake(c)) /\ UNCHANGED value
    BY <2>3, ConditionPlaces
  <2>4. CASE DownLoop(c) \/ DownTake(c) \/ UpAdd(c) \/ UpSignal(c) \/ Release(c)
          \/ Return(c)
    BY <2>4, CallPlaces
  <2> QED BY <2>1, <2>2, <2>3, <2>4 DEF Step, SyncStep
<1>5. CASE UNCHANGED vars
  <2>1. Placed(Q)'
    BY <1>5 DEF vars, lockVars, callVars, condVars, schedVars, Placed, Agree, Where,
       Places, Place, Wakers, Waker
  <2> QED BY <2>1 DEF Advances, Moved
<1> QED BY <1>1, <1>2, <1>3, <1>4, <1>5 DEF Next

PlaceInv == \E Q : Placed(Q)

(* There are queues that the lists hold and in which each thread has one   *)
(* place.                                                                  *)
LEMMA PlaceInvariant == ASSUME OneContender PROVE Spec => []PlaceInv
<1>1. Init => PlaceInv
  BY PlacesInit DEF PlaceInv
<1>2. LockInv /\ FlagInv /\ PlaceInv /\ [Next]_vars => PlaceInv'
  <2> SUFFICES ASSUME LockInv, FlagInv, PlaceInv, [Next]_vars PROVE PlaceInv'
    OBVIOUS
  <2>1. PICK Q : Placed(Q)
    BY DEF PlaceInv
  <2> QED BY <2>1, PlacesNext DEF Advances, PlaceInv
<1> QED BY <1>1, <1>2, LockInvariant, FlagInvariant, PTL DEF Spec

-----------------------------------------------------------------------------
(* The pointers are queues, and the lists as they are read off are those.  *)
LEMMA ContentsOfLists ==
  ASSUME NEW h, NEW Q, Lists(h, Q)
  PROVE  [L \in ListId |-> ListContents(h, L)] = Q
<1>1. ASSUME NEW L \in ListId PROVE ListContents(h, L) = Q[L]
  <2>1. HeapOK(h) /\ IsList(h, L, Q[L])
    BY DEF Lists
  <2> QED BY <2>1, ContentsOfList
<1> QED BY <1>1 DEF Lists

(* The queues are what is found by following the pointers from the heads. *)
LEMMA ContentsOfPlaced ==
  ASSUME NEW Q, Placed(Q)
  PROVE  /\ [L \in ListId |-> ListContents(heap, L)] = Q
         /\ \A L \in ListId : ListWellFormed(heap, L)
         /\ \A L \in ListId, t \in Thread : OnList(t, L) <=> t \in Members(Q[L])
<1>1. Lists(heap, Q) /\ Q \in [ListId -> Seq(Thread)] /\ HeapOK(heap)
  BY DEF Placed, Agree, Lists
<1>2. ASSUME NEW L \in ListId
      PROVE  ListWellFormed(heap, L) /\ ListContents(heap, L) = Q[L]
  <2>1. IsList(heap, L, Q[L])
    BY <1>1 DEF Lists
  <2> QED BY <1>1, <2>1, ContentsOfList
<1>3. ASSUME NEW L \in ListId, NEW t \in Thread PROVE OnList(t, L) <=> t \in Members(Q[L])
  BY <1>1, TestsOfLists DEF OnList
<1> QED BY <1>1, <1>2, <1>3

(***************************************************************************)
(* The lists of thread.c and sync.c and the statuses agree all along, also *)
(* between the statements of lockAcquire and lockRelease, whatever the     *)
(* number of processes that use the semaphore, and no assertion fails.     *)
(***************************************************************************)
THEOREM ListsAreConsistent ==
  ASSUME OneContender PROVE Spec => [](panic = "none" /\ ListsConsistent)
<1>1. ASSUME LockInv, NEW Q, Placed(Q) PROVE panic = "none" /\ ListsConsistent
  <2>1. ASSUME NEW t \in Thread PROVE Cardinality({L \in ListId : OnList(t, L)}) <= 1
    <3>1. \A L, M \in {K \in ListId : OnList(t, K)} : L = M
      BY <1>1, ContentsOfPlaced DEF Placed, Agree, Lists
    <3>2. CASE {K \in ListId : OnList(t, K)} = {}
      <4>1. Cardinality({K \in ListId : OnList(t, K)}) = 0
        BY <3>2, FS_EmptySet
      <4> QED BY <4>1
    <3>3. CASE {K \in ListId : OnList(t, K)} # {}
      <4>1. PICK L : {K \in ListId : OnList(t, K)} = {L}
        BY <3>1, <3>3
      <4>2. Cardinality({L}) = 1
        BY FS_Singleton
      <4> QED BY <4>1, <4>2
    <3> QED BY <3>2, <3>3
  <2>2. ASSUME NEW t \in Thread
        PROVE  /\ status[t] = "ready" <=> OnList(t, threadReadyList)
               /\ status[t] = "blocked" => \/ t \in {thread[c] : c \in Ctx} \ {NULL}
                                           \/ \E L \in WaitList : OnList(t, L)
               /\ status[t] = "running" => t = cur
    <3>1. Place(Q, t, pc[Task(t)], ret[Task(t)])
      BY <1>1 DEF Placed, Where, Places
    <3>2. \A L \in ListId : OnList(t, L) <=> t \in Members(Q[L])
      BY <1>1, ContentsOfPlaced
    <3>3. t # NULL
      BY ThreadAssumption
    <3> QED BY <1>1, <3>1, <3>2, <3>3, ListFacts DEF Place, Placed, Agree
  <2>3. \A L \in ListId : ListWellFormed(heap, L)
    BY <1>1, ContentsOfPlaced
  <2> QED BY <1>1, <2>1, <2>2, <2>3 DEF ListsConsistent, ListsAgree, Placed, Where
<1>2. LockInv /\ PlaceInv => panic = "none" /\ ListsConsistent
  BY <1>1 DEF PlaceInv
<1> QED BY <1>2, LockInvariant, PlaceInvariant, PTL

(***************************************************************************)
(* Whoever can be interrupted is TASK_RUNNING: conditionWait and           *)
(* lockAcquire block the caller only after they have turned interrupts     *)
(* off, or else a timer interrupt would take it off the CPU for ever.      *)
(***************************************************************************)
THEOREM InterruptibleRuns == ASSUME OneContender PROVE Spec => []InterruptibleIsRunning
<1>1. LockInv /\ FlagInv /\ PlaceInv => InterruptibleIsRunning
  BY InterruptedPlace DEF PlaceInv, InterruptibleIsRunning
<1> QED BY <1>1, LockInvariant, FlagInvariant, PlaceInvariant, PTL

(* What a step does to the queues is a change that Queues allows. *)
LEMMA MovedIsChange ==
  ASSUME NEW Q, NEW R, Placed(Q), Placed(R)', Moved(Q, R)
  PROVE  [InOrder!Next]_([L \in ListId |-> ListContents(heap, L)])
<1>1. [L \in ListId |-> ListContents(heap, L)] = Q
  BY ContentsOfPlaced
<1>2. [L \in ListId |-> ListContents(heap, L)]' = R
  <2>1. Lists(heap', R)
    BY DEF Placed, Agree
  <2> QED BY <2>1, ContentsOfLists
<1>3. Q \in [ListId -> Seq(Thread)]
  BY DEF Placed, Agree, Lists
<1>4. ASSUME NEW L \in ListId, R = [Q EXCEPT ![L] = R[L]], Moves(Q, L, R[L])
      PROVE  InOrder!Next
  <2>1. ASSUME NEW t \in Thread, OnNone(Q, t) PROVE ~ InOrder!Queued(t)
    <3>1. ASSUME NEW K \in ListId PROVE t \notin InOrder!ToSet(Q[K])
      BY <1>3, <2>1 DEF OnNone, Members, InOrder!ToSet
    <3> QED BY <1>1, <3>1 DEF InOrder!Queued
  <2>2. Q[L] \in Seq(Thread) /\ (Len(Q[L]) # 0 => Q[L] # <<>>)
    BY <1>3
  <2>3. InOrder!Change(L)
    BY <1>1, <1>2, <1>4, <2>1, <2>2
       DEF Moves, InOrder!Change, InOrder!Enter, InOrder!Leave, InOrder!GoFirst,
           InOrder!Yield
  <2> QED BY <2>3 DEF InOrder!Next
<1> QED BY <1>1, <1>2, <1>4 DEF Moved

(***************************************************************************)
(* The linked lists with their stale pointers are queues: waiters of the   *)
(* lock and of the condition leave in the order in which they came, and    *)
(* the ready list goes round, with one exception for a thread just woken.  *)
(***************************************************************************)
THEOREM ListsAreQueues == ASSUME OneContender PROVE Spec => ImplementsQueues
<1> DEFINE queues == [L \in ListId |-> ListContents(heap, L)]
<1>1. Init => InOrder!Init
  <2> SUFFICES ASSUME Init PROVE queues = [L \in ListId |-> <<>>]
    BY DEF InOrder!Init
  <2> QED BY PlacesInit, ContentsOfPlaced
<1>2. LockInv /\ FlagInv /\ PlaceInv /\ [Next]_vars => [InOrder!Next]_queues
  <2> SUFFICES ASSUME LockInv, FlagInv, PlaceInv, [Next]_vars PROVE [InOrder!Next]_queues
    OBVIOUS
  <2>1. PICK Q : Placed(Q)
    BY DEF PlaceInv
  <2>2. PICK R : Placed(R)' /\ Moved(Q, R)
    BY <2>1, PlacesNext DEF Advances
  <2> QED BY <2>1, <2>2, MovedIsChange
<1> QED BY <1>1, <1>2, LockInvariant, FlagInvariant, PlaceInvariant, PTL
        DEF Spec, ImplementsQueues, InOrder!Spec

-----------------------------------------------------------------------------
(* What a step leaves alone: the control flow of the threads that are not  *)
(* on the CPU, whom it does not block either.                              *)
LEMMA ScheduleBlocks ==
  ASSUME cur \in Thread, NEW h, NEW st \in [Thread -> Status], schedule(h, st)
  PROVE  \A t \in Thread : status'[t] = "blocked" => st[t] = "blocked"
  BY DEF schedule, Status

Bystanders ==
  /\ \A c \in Ctx \ {Task(cur)} :
       pc'[c] = pc[c] /\ ret'[c] = ret[c] /\ thread'[c] = thread[c]
  /\ \A t \in Thread \ {cur} : status'[t] = "blocked" => status[t] = "blocked"

(* A step of one thread neither wakes nor moves the others, except the     *)
(* one it wakes.                                                           *)
LEMMA StepBystanders ==
  ASSUME LockInv, status \in [Thread -> Status], NEW c \in Ctx, Step(c)
  PROVE  Bystanders /\ c = Task(cur)
<1>1. c = Task(cur)
  BY ActsOnCpu DEF Step, SyncStep, lockAcquire, AcquireTry, AcquireSpin, AcquireAppend,
     AcquireRecheck, AcquireRemove, AcquireUnspin, AcquireBlock, lockRelease,
     ReleaseClear, ReleaseSpin, ReleasePop, ReleaseUnspin, ReleaseWake, WaitSchedule,
     WaitReturn, SignalWake, DownLoop, DownTake, UpAdd, UpSignal, Release, Return
<1>2. Follows(c)
  <2>1. CASE (lockAcquire(c) \/ lockRelease(c)) /\ UNCHANGED <<condVars, value>>
    BY <2>1, AcquireMoves, ReleaseMoves
  <2>2. CASE (WaitSchedule(c) \/ WaitReturn(c) \/ SignalWake(c)) /\ UNCHANGED value
    BY <2>2, ConditionMoves
  <2>3. CASE DownLoop(c) \/ DownTake(c) \/ UpAdd(c) \/ UpSignal(c) \/ Release(c)
          \/ Return(c)
    BY <2>3, CallMoves
  <2> QED BY <2>1, <2>2, <2>3 DEF Step, SyncStep
<1>3. thread' = [thread EXCEPT ![c] = thread'[c]]
  <2>1. thread \in [Ctx -> Thread \cup {NULL}]
    BY DEF LockInv, TypeInv
  <2> QED BY <2>1 DEF Step, SyncStep, lockAcquire, AcquireTry, AcquireSpin, AcquireAppend,
      AcquireRecheck, AcquireRemove, AcquireUnspin, AcquireBlock, lockRelease,
      ReleaseClear, ReleaseSpin, ReleasePop, ReleaseUnspin, ReleaseWake, WaitSchedule,
      WaitReturn, SignalWake, DownLoop, DownTake, UpAdd, UpSignal, Release, Return,
      conditionWait, conditionSignal
<1>4. ASSUME NEW d \in Ctx \ {Task(cur)}
      PROVE  pc'[d] = pc[d] /\ ret'[d] = ret[d] /\ thread'[d] = thread[d]
  <2>1. pc'[d] = pc[d] /\ ret'[d] = ret[d]
    BY <1>1, <1>2 DEF Follows, GoesTo, LockInv, TypeInv
  <2>2. thread'[d] = thread[d]
    BY <1>1, <1>3 DEF LockInv, TypeInv
  <2> QED BY <2>1, <2>2
<1>5. \A t \in Thread \ {cur} : status'[t] = "blocked" => status[t] = "blocked"
  <2>1. cur \in Thread
    BY TypeFacts
  <2>2. CASE AcquireBlock(c) \/ WaitSchedule(c)
    <3>1. \E st \in [Thread -> Status] :
            /\ schedule(heap, st) /\ \A t \in Thread \ {cur} : st[t] = status[t]
      BY <2>1, <2>2 DEF AcquireBlock, WaitSchedule, Status
    <3> QED BY <2>1, <3>1, ScheduleBlocks
  <2>3. CASE ReleaseWake(c) \/ SignalWake(c)
    BY <2>3 DEF ReleaseWake, SignalWake, threadUnblock, schedVars
  <2>4. CASE DownLoop(c)
    BY <2>1, <2>4 DEF DownLoop, conditionWait, schedVars
  <2>5. CASE ~ (AcquireBlock(c) \/ WaitSchedule(c) \/ ReleaseWake(c) \/ SignalWake(c)
          \/ DownLoop(c))
    <3>1. status' = status
      BY <2>5 DEF Step, SyncStep, lockAcquire, AcquireTry, AcquireSpin, AcquireAppend,
         AcquireRecheck, AcquireRemove, AcquireUnspin, lockRelease, ReleaseClear,
         ReleaseSpin, ReleasePop, ReleaseUnspin, WaitReturn, DownTake, UpAdd, UpSignal,
         Release, Return, conditionSignal, schedVars
    <3> QED BY <3>1
  <2> QED BY <2>2, <2>3, <2>4, <2>5
<1> QED BY <1>1, <1>4, <1>5 DEF Bystanders

(* Neither does any other step. *)
LEMMA NextBystanders ==
  ASSUME LockInv, status \in [Thread -> Status], [Next]_vars
  PROVE  Bystanders
<1>1. cur \in Thread /\ \A t \in Thread : Task(t) = Task(cur) => t = cur
  BY TypeFacts, CtxFacts
<1>2. CASE BootStep
  <2>1. /\ UNCHANGED <<ret, thread>>
        /\ pc' = pc \/ pc' = [pc EXCEPT ![Task(Main)] = "idle"]
        /\ cur = Main
    BY <1>2, CtxFacts DEF BootStep, Boot, At, Goto, Task, ThreadOf
  <2>2. \A t \in Thread : status'[t] = "blocked" => status[t] = "blocked"
    BY <1>2 DEF BootStep, Boot, threadStart, schedVars
  <2> QED BY <2>1, <2>2 DEF Bystanders, LockInv, TypeInv
<1>3. CASE Tick
  <2>1. \A t \in Thread : status'[t] = "blocked" => status[t] = "blocked"
    BY <1>1, <1>3, ScheduleBlocks DEF Tick, Timer, TimerPreempts
  <2> QED BY <1>3, <2>1 DEF Bystanders, Tick, Timer, callVars
<1>4. CASE \E t \in Thread \ {Main} : semaphoreDown(t) \/ semaphoreUp(t)
  <2>1. PICK t \in Thread, label \in {"downLoop", "upAdd"} : Enter(t, label)
    BY <1>4 DEF semaphoreDown, semaphoreUp
  <2>2. t = cur
    BY <2>1, CtxFacts DEF Enter, At
  <2> QED BY <2>1, <2>2 DEF Enter, Call, Goto, schedVars, Bystanders, LockInv, TypeInv
<1>5. CASE \E c \in Ctx : Step(c)
  BY <1>5, StepBystanders
<1>6. CASE UNCHANGED vars
  BY <1>6 DEF vars, callVars, schedVars, Bystanders
<1> QED BY <1>2, <1>3, <1>4, <1>5, <1>6 DEF Next

(* Only lockRelease makes the lock free. *)
LEMMA HolderFalls ==
  ASSUME LockInv, [Next]_vars, holder[semLock] # NULL, holder'[semLock] = NULL
  PROVE  \E c \in Ctx : ReleaseClear(c)
<1>1. holder' # holder
  OBVIOUS
<1>2. \E c \in Ctx : Step(c)
  BY <1>1 DEF Next, vars, BootStep, Boot, Tick, Timer, semaphoreDown, semaphoreUp,
     Enter, lockVars
<1>3. PICK c \in Ctx : Step(c)
  BY <1>2
<1>4. AcquireTry(c) \/ AcquireRecheck(c) \/ ReleaseClear(c)
  BY <1>1, <1>3 DEF Step, SyncStep, lockAcquire, AcquireSpin, AcquireAppend,
     AcquireRemove, AcquireUnspin, AcquireBlock, lockRelease,
     ReleaseSpin, ReleasePop, ReleaseUnspin, ReleaseWake, WaitSchedule, WaitReturn,
     SignalWake, DownLoop, DownTake, UpAdd, UpSignal, Release, Return, conditionWait,
     conditionSignal, lockVars
<1>5. lk[c] = semLock
  BY TypeFacts
<1>6. ~ AcquireTry(c) /\ ~ AcquireRecheck(c)
  BY <1>1, <1>5 DEF AcquireTry, AcquireRecheck, Cas
<1> QED BY <1>4, <1>6

(***************************************************************************)
(* As long as there are threads queued on a lock that is free, somebody is *)
(* on the way to take it or to wake the first of them.                     *)
(***************************************************************************)
SomebodyComes(Q) ==
  holder[semLock] = NULL /\ Len(Q[semLock]) # 0 => \E c \in Ctx : Coming(c, semLock)

(* The thread on the CPU goes on with what it came for, or hands it over. *)
LEMMA ComerStays ==
  ASSUME LockInv, LockInv', FlagInv, NEW Q, Placed(Q), [Next]_vars, Coming(Task(cur), semLock),
         holder[semLock] = NULL, holder'[semLock] = NULL, Len(Q[semLock]) # 0
  PROVE  \E c \in Ctx : Coming(c, semLock)'
<1>1. PICK c : c = Task(cur)
  OBVIOUS
<1>2. /\ c \in Ctx /\ \A d \in Ctx : lk[d] = semLock /\ lk'[d] = semLock
      /\ pc \in [Ctx -> Label] /\ ThreadOf(c) = cur /\ cur \in Thread
      /\ thread \in [Ctx -> Thread \cup {NULL}] /\ semLock \in Lock /\ NULL \notin Thread
      /\ holder \in [Lock -> Thread \cup {NULL}]
  BY <1>1, TypeFacts, CtxFacts, ThreadAssumption DEF LockInv, TypeInv
<1>3. \/ pc[c] = "lockAcquire" /\ status[cur] # "blocked"
      \/ pc[c] \in {"releaseSpin", "releasePop"}
      \/ pc[c] \in {"releaseUnspin", "releaseWake"} /\ thread[c] # NULL
  BY <1>2, <1>1 DEF Coming, FlagInv, SpinOK, AcquireLabel
<1>4. ASSUME pc'[c] = pc[c], thread'[c] = thread[c],
             status'[cur] = "blocked" => status[cur] = "blocked"
      PROVE  Coming(c, semLock)'
  BY <1>2, <1>3, <1>4 DEF Coming
<1>5. CASE BootStep \/ \E t \in Thread \ {Main} : semaphoreDown(t) \/ semaphoreUp(t)
  <2>1. pc[c] \in {"boot", "idle"}
    BY <1>2, <1>1, <1>5, CtxFacts, TypeFacts
       DEF BootStep, Boot, semaphoreDown, semaphoreUp, Enter, At, Task, ThreadOf
  <2> QED BY <1>3, <2>1
<1>6. CASE Tick
  <2>1. \A t \in Thread : status'[t] = "blocked" => status[t] = "blocked"
    BY <1>2, <1>6, ScheduleBlocks DEF Tick, Timer, TimerPreempts, Placed, Agree
  <2> QED BY <1>2, <1>4, <1>6, <2>1 DEF Tick, Timer, callVars
<1>7. CASE \E d \in Ctx : Step(d)
  <2>1. PICK d \in Ctx : Step(d)
    BY <1>7
  <2>2. Step(c)
    BY <1>1, <2>1, StepBystanders DEF Placed, Agree
  <2>3. AcquireTry(c) \/ ReleaseSpin(c) \/ ReleasePop(c) \/ ReleaseUnspin(c)
          \/ ReleaseWake(c)
    BY <1>3, <2>2 DEF Step, SyncStep, lockAcquire, AcquireSpin, AcquireAppend,
       AcquireRecheck, AcquireRemove, AcquireUnspin, AcquireBlock, lockRelease,
       ReleaseClear, WaitSchedule, WaitReturn, SignalWake, DownLoop, DownTake, UpAdd,
       UpSignal, Release, Return, At
  <2>4. ~ AcquireTry(c)
    BY <1>2 DEF AcquireTry, Cas
  <2>5. CASE ReleaseSpin(c)
    BY <1>2, <2>5 DEF ReleaseSpin, SpinAcquire, Goto, Coming
  <2>6. CASE ReleasePop(c)
    <3>1. ~ ListEmpty(heap, semLock) /\ ListFirst(heap, semLock) \in Thread
      BY FirstWaiter, ListFacts
    <3> QED BY <1>2, <2>6, <3>1 DEF ReleasePop, Goto, Coming
  <2>7. CASE ReleaseUnspin(c)
    BY <1>2, <1>3, <2>7 DEF ReleaseUnspin, Goto, Coming, At
  <2>8. CASE ReleaseWake(c)
    <3> DEFINE p == thread[c]
    <3>1. /\ p \in Thread /\ p # cur /\ status[p] = "blocked" /\ pc[Task(p)] = "lockAcquire"
          /\ pc[c] = "releaseWake"
      BY <1>2, <1>1, <1>3, <2>8, EmptyHanded
         DEF Placed, Where, Wakers, Waker, ReleaseWake, At, Waking
    <3>2. pc' = [pc EXCEPT ![c] = ret[c]] /\ threadUnblock(p)
      BY <2>8, <3>1 DEF ReleaseWake, Goto
    <3> HIDE DEF p
    <3>3. Task(p) \in Ctx /\ Task(p) # c /\ ThreadOf(Task(p)) = p
      BY <1>2, <1>1, <3>1, CtxFacts
    <3>4. status'[p] # "blocked"
      <4>1. OnNone(Q, p) /\ Agree(Q)
        BY <1>2, <1>1, <3>1 DEF Placed, Where, Wakers, Waker, p
      <4>2. panic' = "none"
        BY <3>1, <3>2, <4>1, UnblockLists
      <4> QED BY <3>1, <3>2, <4>1, <4>2 DEF threadUnblock, Agree
    <3>5. pc'[Task(p)] = "lockAcquire"
      BY <1>2, <3>1, <3>2, <3>3
    <3> QED BY <1>2, <3>3, <3>4, <3>5 DEF Coming
  <2> QED BY <2>3, <2>4, <2>5, <2>6, <2>7, <2>8
<1>8. CASE UNCHANGED vars
  BY <1>2, <1>4, <1>8 DEF vars, callVars, schedVars
<1> QED BY <1>2, <1>1, <1>5, <1>6, <1>7, <1>8 DEF Next

(* While threads wait on a free lock, one that will take it or wake them   *)
(* stays.                                                                  *)
LEMMA SomebodyComesNext ==
  ASSUME LockInv, LockInv', FlagInv, NEW Q, Placed(Q), [Next]_vars, SomebodyComes(Q),
         NEW R, Moved(Q, R)
  PROVE  SomebodyComes(R)'
<1> SUFFICES ASSUME holder'[semLock] = NULL, Len(R[semLock]) # 0
             PROVE  \E c \in Ctx : Coming(c, semLock)'
  BY DEF SomebodyComes
<1>1. /\ \A d \in Ctx : lk[d] = semLock /\ lk'[d] = semLock
      /\ pc \in [Ctx -> Label] /\ \A d \in Ctx : ThreadOf(d) = cur <=> d = Task(cur)
      /\ \A d \in Ctx : ThreadOf(d) \in Thread
  BY TypeFacts, CtxFacts DEF LockInv, TypeInv
<1>2. CASE holder[semLock] # NULL
  <2>1. PICK c \in Ctx : ReleaseClear(c)
    BY <1>2, HolderFalls
  <2>2. pc'[c] = "releaseSpin"
    BY <1>1, <1>2, <2>1 DEF ReleaseClear, Goto
  <2> QED BY <1>1, <2>2 DEF Coming
<1>3. CASE holder[semLock] = NULL
  <2>1. Len(Q[semLock]) # 0
    <3>1. Q \in [ListId -> Seq(Thread)]
      BY DEF Placed, Agree, Lists
    <3>2. CASE R = Q
      BY <3>2
    <3>3. ASSUME NEW L \in ListId, R = [Q EXCEPT ![L] = R[L]], Moves(Q, L, R[L])
          PROVE  Len(Q[semLock]) # 0
      <4>1. CASE L # semLock
        BY <3>1, <3>3, <4>1, ListFacts
      <4>2. CASE L = semLock
        BY <1>3, <3>3, <4>2, ListFacts DEF Moves, Enters
      <4> QED BY <4>1, <4>2
    <3> QED BY <3>2, <3>3 DEF Moved
  <2>2. PICK c \in Ctx : Coming(c, semLock)
    BY <1>3, <2>1 DEF SomebodyComes
  <2>3. CASE c = Task(cur)
    BY <1>3, <2>1, <2>2, <2>3, ComerStays
  <2>4. CASE c # Task(cur)
    <3>1. Bystanders
      BY NextBystanders DEF Placed, Agree
    <3>2. /\ pc'[c] = pc[c] /\ thread'[c] = thread[c]
          /\ status'[ThreadOf(c)] = "blocked" => status[ThreadOf(c)] = "blocked"
      BY <1>1, <2>4, <3>1 DEF Bystanders
    <3> QED BY <1>1, <2>2, <3>2 DEF Coming
  <2> QED BY <2>3, <2>4
<1> QED BY <1>2, <1>3

-----------------------------------------------------------------------------
(***************************************************************************)
(* While threads wait on the condition, as many contexts as there are      *)
(* units are still to take one or to signal.                               *)
(***************************************************************************)
AheadOf(Q) == {c \in Ctx : \/ pc[c] = "upSignal"
                           \/ /\ ret[c] \in {"waitReturn", "downLoop"}
                              /\ pc[c] # "release"
                              /\ ThreadOf(c) \notin Members(Q[semCond])}

Claimed(Q) == Len(Q[semCond]) # 0 => Cardinality(AheadOf(Q)) >= value

(* The number of threads ahead is a number. *)
LEMMA AheadFinite ==
  ASSUME NEW S \in SUBSET Ctx
  PROVE  IsFiniteSet(S) /\ Cardinality(S) \in Nat
<1>1. IsFiniteSet(Thread) /\ IsFiniteSet({"task"})
  BY ThreadAssumption, FS_Singleton
<1>2. IsFiniteSet(Ctx)
  BY <1>1, FS_Product, SemaphoresAssumption DEF Ctx
<1>3. IsFiniteSet(S)
  BY <1>2, FS_Subset
<1> QED BY <1>3, FS_CardinalityType

(* The pointers leave no choice of the sequences. *)
LEMMA SameLists ==
  ASSUME NEW h, NEW Q, NEW R, Lists(h, Q), Lists(h, R)
  PROVE  Q = R
<1>1. [L \in ListId |-> ListContents(h, L)] = Q
  BY ContentsOfLists
<1>2. [L \in ListId |-> ListContents(h, L)] = R
  BY ContentsOfLists
<1> QED BY <1>1, <1>2

Signals == \E c \in Ctx : UpSignal(c) /\ ~ ListEmpty(heap, semCond)

(* The queue of the condition changes only by a signal, or as the value is 0. *)
LEMMA ConditionKept ==
  ASSUME LockInv, NEW Q, Placed(Q), [Next]_vars, ~ Signals, NEW R, Moved(Q, R), value' # 0
  PROVE  R[semCond] = Q[semCond]
<1>1. Q \in [ListId -> Seq(Thread)]
  BY DEF Placed, Agree, Lists
<1>2. Task(cur) \in Ctx /\ pc \in [Ctx -> Label]
  BY TypeFacts DEF LockInv, TypeInv
<1>3. ~ (pc[Task(cur)] = "upSignal" /\ pc'[Task(cur)] = "signalWake")
  <2> SUFFICES ASSUME pc[Task(cur)] = "upSignal", pc'[Task(cur)] = "signalWake" PROVE FALSE
    OBVIOUS
  <2>1. \E c \in Ctx : Step(c)
    BY <1>2, CtxFacts, TypeFacts DEF Next, vars, callVars, Tick, Timer, BootStep, Boot,
       semaphoreDown, semaphoreUp, Enter, At, Call, Goto, Task, ThreadOf
  <2>2. PICK c \in Ctx : Step(c)
    BY <2>1
  <2>3. c = Task(cur)
    BY <2>2, StepBystanders DEF Placed, Agree
  <2>4. UpSignal(c)
    BY <2>2, <2>3 DEF Step, SyncStep, lockAcquire, AcquireTry, AcquireSpin, AcquireAppend,
       AcquireRecheck, AcquireRemove, AcquireUnspin, AcquireBlock, lockRelease,
       ReleaseClear, ReleaseSpin, ReleasePop, ReleaseUnspin, ReleaseWake, WaitSchedule,
       WaitReturn, SignalWake, DownLoop, DownTake, UpAdd, Release, Return, At
  <2>5. ListEmpty(heap, semCond)
    BY <2>4 DEF Signals
  <2> QED BY <1>2, <2>3, <2>4, <2>5 DEF UpSignal, conditionSignal, Goto
<1>4. ASSUME NEW L \in ListId, R = [Q EXCEPT ![L] = R[L]], Moves(Q, L, R[L])
      PROVE  R[semCond] = Q[semCond]
  <2>1. CASE L # semCond
    BY <1>1, <1>4, <2>1, ListFacts
  <2>2. CASE L = semCond
    BY <1>3, <1>4, <2>2, ListFacts DEF Moves, Enters, Leaves
  <2> QED BY <2>1, <2>2
<1> QED BY <1>4 DEF Moved

(* A context that is ahead of the waiters stays so until it has its unit.  *)
LEMMA AheadStays ==
  ASSUME LockInv, NEW Q, Placed(Q), [Next]_vars, ~ Signals, value' # 0,
         NEW R, R[semCond] = Q[semCond], Len(Q[semCond]) # 0,
         NEW c \in AheadOf(Q), ~ DownTake(c)
  PROVE  c \in AheadOf(R)'
<1>1. /\ c \in Ctx /\ Control(pc[c], ret[c], back[c]) /\ Boots(ThreadOf(c), pc[c])
      /\ pc \in [Ctx -> Label] /\ ret \in [Ctx -> Label]
      /\ ThreadOf(c) = cur <=> c = Task(cur)
  BY TypeFacts DEF AheadOf, LockInv, TypeInv, ControlOK
<1>2. \/ pc[c] = "upSignal"
      \/ /\ ret[c] \in {"waitReturn", "downLoop"} /\ pc[c] # "release"
         /\ ThreadOf(c) \notin Members(Q[semCond])
  BY DEF AheadOf
<1>3. ASSUME \/ pc'[c] = "upSignal"
             \/ /\ ret'[c] \in {"waitReturn", "downLoop"} /\ pc'[c] # "release"
                /\ ThreadOf(c) \notin Members(Q[semCond])
      PROVE  c \in AheadOf(R)'
  BY <1>1, <1>3 DEF AheadOf
<1>4. CASE pc'[c] = pc[c] /\ ret'[c] = ret[c]
  BY <1>2, <1>3, <1>4
<1>5. CASE \E d \in Ctx : Step(d)
  <2>1. PICK d \in Ctx : Step(d)
    BY <1>5
  <2>2. Bystanders /\ d = Task(cur)
    BY <2>1, StepBystanders DEF Placed, Agree
  <2>3. CASE c # d
    BY <1>1, <1>4, <2>2, <2>3 DEF Bystanders
  <2>4. CASE c = d /\ pc[c] = "upSignal"
    <3>1. ~ ListEmpty(heap, semCond)
      BY FirstWaiter, ListFacts
    <3>2. UpSignal(c)
      BY <2>1, <2>4 DEF Step, SyncStep, lockAcquire, AcquireTry, AcquireSpin,
         AcquireAppend, AcquireRecheck, AcquireRemove, AcquireUnspin, AcquireBlock,
         lockRelease, ReleaseClear, ReleaseSpin, ReleasePop, ReleaseUnspin, ReleaseWake,
         WaitSchedule, WaitReturn, SignalWake, DownLoop, DownTake, UpAdd, Release, Return,
         At
    <3> QED BY <1>1, <3>1, <3>2 DEF Signals
  <2>5. CASE c = d /\ pc[c] # "upSignal"
    <3>1. /\ ret[c] \in {"waitReturn", "downLoop"}
          /\ ThreadOf(c) \notin Members(Q[semCond])
          /\ pc[c] \in AcquireLabel \cup {"waitReturn", "downLoop", "downTake"}
      <4>1. ret[c] \in {"waitReturn", "downLoop"} /\ pc[c] # "release"
        BY <1>2, <2>5
      <4>2. pc[c] \in Label
        BY <1>1
      <4> QED BY <1>1, <1>2, <2>5, <4>1, <4>2
          DEF Control, Label, LockLabel, AcquireLabel, ReleaseLabel
    <3>2. ret' = ret /\ pc'[c] # "release"
      <4>1. CASE lockAcquire(c)
        <5>1. ret' = ret
          BY <4>1 DEF lockAcquire, AcquireTry, AcquireSpin, AcquireAppend, AcquireRecheck,
             AcquireRemove, AcquireUnspin, AcquireBlock
        <5>2. pc'[c] \in AcquireLabel \cup {ret[c]}
          BY <1>1, <4>1 DEF lockAcquire, AcquireTry, AcquireSpin, AcquireAppend,
             AcquireRecheck, AcquireRemove, AcquireUnspin, AcquireBlock, Cas, SpinAcquire,
             Goto, AcquireLabel
        <5> QED BY <3>1, <5>1, <5>2 DEF AcquireLabel
      <4>2. CASE WaitReturn(c)
        BY <1>1, <4>2, <3>1 DEF WaitReturn, Goto, Control, At
      <4>3. CASE DownLoop(c)
        <5>1. value # 0
          BY <4>3 DEF DownLoop
        <5> QED BY <1>1, <4>3, <5>1 DEF DownLoop, Goto
      <4>4. lockAcquire(c) \/ WaitReturn(c) \/ DownLoop(c)
        BY <2>1, <2>5, <3>1 DEF Step, SyncStep, lockRelease, ReleaseClear, ReleaseSpin,
           ReleasePop, ReleaseUnspin, ReleaseWake, WaitSchedule, SignalWake, UpAdd,
           UpSignal, Release, Return, At, AcquireLabel
      <4> QED BY <4>1, <4>2, <4>3, <4>4
    <3> QED BY <1>3, <3>1, <3>2
  <2> QED BY <2>3, <2>4, <2>5
<1>6. CASE Tick \/ UNCHANGED vars
  BY <1>4, <1>6 DEF Tick, Timer, callVars, vars
<1>7. CASE BootStep \/ \E t \in Thread \ {Main} : semaphoreDown(t) \/ semaphoreUp(t)
  <2>1. Bystanders
    BY NextBystanders DEF Placed, Agree
  <2>2. pc[Task(cur)] \in {"boot", "idle"}
    BY <1>7, CtxFacts, TypeFacts DEF BootStep, Boot, semaphoreDown, semaphoreUp, Enter,
       At, Task, ThreadOf
  <2>3. c # Task(cur)
    BY <1>1, <1>2, <2>2 DEF Control
  <2> QED BY <1>1, <1>4, <2>1, <2>3 DEF Bystanders
<1> QED BY <1>5, <1>6, <1>7 DEF Next

(* A signal hands the place of the one that signals to the waiter it wakes. *)
LEMMA SignalClaimed ==
  ASSUME LockInv, NEW Q, Placed(Q), [Next]_vars, Signals, Claimed(Q), NEW R, Placed(R)'
  PROVE  Cardinality(AheadOf(R)') >= value'
<1>1. PICK c \in Ctx : UpSignal(c) /\ ~ ListEmpty(heap, semCond)
  BY DEF Signals
<1>2. c = Task(cur) /\ pc[c] = "upSignal"
  BY <1>1, ActsOnCpu DEF UpSignal
<1>3. /\ Len(Q[semCond]) # 0 /\ ListFirst(heap, semCond) \in Thread
      /\ semCond \in ListId /\ Lists(heap, Q)
  BY <1>1, FirstWaiter, ListFacts DEF Placed, Agree
<1> DEFINE p == Q[semCond][1]
<1>4. /\ heap' = ListRemove(heap, p) /\ ret' = ret /\ value' = value
      /\ pc' = [pc EXCEPT ![c] = "signalWake"]
      /\ p \in Thread /\ p \in Members(Q[semCond])
      /\ Lists(ListRemove(heap, p), [Q EXCEPT ![semCond] = Tail(Q[semCond])])
      /\ Loses(Q, [Q EXCEPT ![semCond] = Tail(Q[semCond])], semCond, p)
  BY <1>1, <1>3, PopLists DEF UpSignal, conditionSignal, Goto, ListPop
<1> HIDE DEF p
<1>5. Lists(heap', R)
  BY DEF Placed, Agree
<1>6. R = [Q EXCEPT ![semCond] = Tail(Q[semCond])]
  BY <1>4, <1>5, SameLists
<1>7. Members(R[semCond]) = Members(Q[semCond]) \ {p}
  BY <1>4, <1>6 DEF Loses
<1>8. /\ Task(p) \in Ctx /\ ThreadOf(Task(p)) = p /\ Task(p) # c
      /\ pc[Task(p)] = "lockAcquire" /\ ret[Task(p)] = "waitReturn"
  <2>1. Place(Q, p, pc[Task(p)], ret[Task(p)])
    BY <1>4 DEF Placed, Where, Places
  <2>2. p # cur
    <3>1. ~ Sleeping(pc[c], ret[c])
      BY <1>2 DEF Sleeping, ReleaseLabel
    <3> QED BY <1>2, <1>4, <3>1, CpuPlace
  <2> QED BY <1>2, <1>4, <2>1, <2>2, CtxFacts, TypeFacts DEF Place
<1> DEFINE A == AheadOf(Q)
           B == AheadOf(R)'
<1>9. /\ c \in A /\ Task(p) \notin A /\ A \in SUBSET Ctx /\ B \in SUBSET Ctx
  <2>1. A \in SUBSET Ctx /\ B \in SUBSET Ctx
    BY DEF AheadOf
  <2>2. c \in A
    BY <1>2 DEF AheadOf
  <2>3. Task(p) \notin A
    BY <1>4, <1>8 DEF AheadOf
  <2> QED BY <2>1, <2>2, <2>3
<1>10. (A \ {c}) \cup {Task(p)} \subseteq B
  <2>1. pc \in [Ctx -> Label]
    BY DEF LockInv, TypeInv
  <2>2. Task(p) \in B
    BY <1>4, <1>7, <1>8, <2>1 DEF AheadOf
  <2>3. ASSUME NEW d \in A \ {c} PROVE d \in B
    <3>1. pc'[d] = pc[d] /\ ret'[d] = ret[d] /\ d \in Ctx
      BY <1>4, <2>1 DEF AheadOf
    <3> QED BY <1>7, <2>3, <3>1 DEF AheadOf
  <2> QED BY <2>2, <2>3
<1> HIDE DEF A, B
<1>11. /\ Cardinality(A \ {c}) = Cardinality(A) - 1 /\ IsFiniteSet(A \ {c})
       /\ Cardinality(A) \in Nat
  BY <1>9, AheadFinite, FS_RemoveElement
<1>12. Cardinality((A \ {c}) \cup {Task(p)}) = Cardinality(A)
  <2>1. Cardinality((A \ {c}) \cup {Task(p)}) = Cardinality(A \ {c}) + 1
    BY <1>9, <1>11, FS_AddElement
  <2> QED BY <1>11, <2>1
<1>13. Cardinality((A \ {c}) \cup {Task(p)}) <= Cardinality(B) /\ Cardinality(B) \in Nat
  BY <1>9, <1>10, AheadFinite, FS_Subset
<1>14. Cardinality(A) >= value
  BY <1>3 DEF Claimed, A
<1>15. value \in Nat
  BY DEF LockInv, ValueOK
<1>16. Cardinality(B) >= value
  BY <1>11, <1>12, <1>13, <1>14, <1>15
<1> QED BY <1>4, <1>16 DEF B

(* A unit that is added has a signal to come, a signal has a thread it     *)
(* wakes, and only a thread that takes a unit stops being ahead.           *)
LEMMA ClaimedNext ==
  ASSUME LockInv, LockInv', NEW Q, Placed(Q), [Next]_vars, Claimed(Q),
         NEW R, Placed(R)', Moved(Q, R)
  PROVE  Claimed(R)'
<1> SUFFICES ASSUME Len(R[semCond]) # 0 PROVE Cardinality(AheadOf(R)') >= value'
  BY DEF Claimed
<1> DEFINE A == AheadOf(Q)
           B == AheadOf(R)'
<1>1. /\ A \in SUBSET Ctx /\ B \in SUBSET Ctx /\ value \in Nat /\ value' \in Nat
      /\ Cardinality(A) \in Nat /\ Cardinality(B) \in Nat
      /\ IsFiniteSet(A) /\ IsFiniteSet(B)
  <2>1. A \in SUBSET Ctx /\ B \in SUBSET Ctx
    BY DEF AheadOf
  <2>2. value \in Nat /\ value' \in Nat
    BY DEF LockInv, ValueOK
  <2> HIDE DEF A, B
  <2> QED BY <2>1, <2>2, AheadFinite
<1>2. CASE Signals
  BY <1>2, SignalClaimed
<1>3. CASE value' = 0
  <2> HIDE DEF A
  <2>1. Cardinality(B) >= 0
    BY <1>1
  <2> QED BY <1>3, <2>1 DEF B
<1>4. CASE ~ Signals /\ value' # 0
  <2>1. R[semCond] = Q[semCond] /\ Len(Q[semCond]) # 0
    BY <1>4, ConditionKept
  <2>2. Cardinality(A) >= value
    BY <2>1 DEF Claimed
  <2>3. \A d \in A : ~ DownTake(d) => d \in B
    BY <1>4, <2>1, AheadStays
  <2>4. CASE \E c \in Ctx : DownTake(c)
    <3>1. PICK c \in Ctx : DownTake(c)
      BY <2>4
    <3>2. value' = value - 1 /\ c = Task(cur)
      BY <3>1, ActsOnCpu DEF DownTake
    <3>3. A \ {c} \subseteq B
      <4>1. \A d \in A : DownTake(d) => d = Task(cur)
        BY ActsOnCpu DEF DownTake, AheadOf
      <4> QED BY <2>3, <3>2, <4>1
    <3> HIDE DEF A, B
    <3>4. /\ IsFiniteSet(A \ {c})
          /\ Cardinality(A \ {c}) = IF c \in A THEN Cardinality(A) - 1 ELSE Cardinality(A)
      BY <1>1, FS_RemoveElement
    <3>5. Cardinality(A \ {c}) <= Cardinality(B)
      BY <1>1, <3>3, FS_Subset
    <3>6. Cardinality(B) >= value - 1
      BY <1>1, <2>2, <3>4, <3>5
    <3> QED BY <3>2, <3>6 DEF B
  <2>5. CASE \E c \in Ctx : UpAdd(c)
    <3>1. PICK c \in Ctx : UpAdd(c)
      BY <2>5
    <3>2. value' = value + 1 /\ pc' = [pc EXCEPT ![c] = "upSignal"] /\ pc[c] = "upAdd"
      BY <3>1 DEF UpAdd, At, Goto
    <3>3. c \notin A /\ c \in B
      <4>1. pc \in [Ctx -> Label] /\ Control(pc[c], ret[c], back[c])
        BY DEF LockInv, TypeInv, ControlOK
      <4> QED BY <3>2, <4>1 DEF AheadOf, Control
    <3>4. \A d \in A : ~ DownTake(d)
      <4>1. c = Task(cur)
        BY <3>1, ActsOnCpu DEF UpAdd
      <4>2. ASSUME NEW d \in Ctx, DownTake(d) PROVE FALSE
        <5>1. d = Task(cur) /\ pc[d] = "downTake"
          BY <4>2, ActsOnCpu DEF DownTake
        <5> QED BY <3>2, <4>1, <5>1
      <4> QED BY <4>2 DEF AheadOf
    <3>5. A \cup {c} \subseteq B
      BY <2>3, <3>3, <3>4
    <3> HIDE DEF A, B
    <3>6. Cardinality(A \cup {c}) = Cardinality(A) + 1
            /\ Cardinality(A \cup {c}) <= Cardinality(B)
      BY <1>1, <3>3, <3>5, FS_AddElement, FS_Subset
    <3>7. Cardinality(B) >= value + 1
      BY <1>1, <2>2, <3>6
    <3> QED BY <3>2, <3>7 DEF B
  <2>6. CASE ~ (\E c \in Ctx : DownTake(c) \/ UpAdd(c))
    <3>1. value' = value
      BY <2>6 DEF Next, vars, BootStep, Tick, semaphoreDown, semaphoreUp, Enter, Step,
         DownLoop, UpSignal, Release, Return
    <3>2. A \subseteq B
      BY <2>3, <2>6 DEF AheadOf
    <3> HIDE DEF A, B
    <3>3. Cardinality(A) <= Cardinality(B)
      BY <1>1, <3>2, FS_Subset
    <3>4. Cardinality(B) >= value
      BY <1>1, <2>2, <3>3
    <3> QED BY <3>1, <3>4 DEF B
  <2> QED BY <2>4, <2>5, <2>6
<1> QED BY <1>2, <1>3, <1>4

Served(Q) == Placed(Q) /\ SomebodyComes(Q) /\ Claimed(Q)
ServedInv == \E Q : Served(Q)

(* The two together are invariant with the places. *)
LEMMA ServedInvariant == ASSUME OneContender PROVE Spec => []ServedInv
<1>1. Init => ServedInv
  <2> SUFFICES ASSUME Init PROVE Served([L \in ListId |-> <<>>])
    BY DEF ServedInv
  <2>1. /\ Len([L \in ListId |-> <<>>][semLock]) = 0
        /\ Len([L \in ListId |-> <<>>][semCond]) = 0
    BY ListFacts
  <2> QED BY <2>1, PlacesInit DEF Served, SomebodyComes, Claimed
<1>2. LockInv /\ LockInv' /\ FlagInv /\ ServedInv /\ [Next]_vars => ServedInv'
  <2> SUFFICES ASSUME LockInv, LockInv', FlagInv, ServedInv, [Next]_vars PROVE ServedInv'
    OBVIOUS
  <2>1. PICK Q : Served(Q)
    BY DEF ServedInv
  <2>2. PICK R : Placed(R)' /\ Moved(Q, R)
    BY <2>1, PlacesNext DEF Advances, Served
  <2>3. SomebodyComes(R)' /\ Claimed(R)'
    BY <2>1, <2>2, SomebodyComesNext, ClaimedNext DEF Served
  <2> QED BY <2>2, <2>3 DEF Served, ServedInv
<1> QED BY <1>1, <1>2, LockInvariant, FlagInvariant, PTL DEF Spec

(***************************************************************************)
(* A thread that sleeps on a free lock has somebody coming who will take   *)
(* the lock or wake it, although lockRelease clears the holder before it   *)
(* looks at the waiters.                                                   *)
(***************************************************************************)
THEOREM NoWakeupIsLost == ASSUME OneContender PROVE Spec => []NoLostWakeup
<1>1. LockInv /\ ServedInv => NoLostWakeup
  <2> SUFFICES ASSUME LockInv, NEW Q, Served(Q), NEW t \in Thread, NEW l \in Lock,
                      holder[l] = NULL, OnList(t, l)
               PROVE  \E c \in Ctx : Coming(c, l)
    BY DEF ServedInv, NoLostWakeup
  <2>1. l = semLock /\ semLock \in ListId
    BY CtxFacts, ListFacts
  <2>2. t \in Members(Q[semLock])
    BY <2>1, ContentsOfPlaced DEF Served
  <2>3. Len(Q[semLock]) # 0
    BY <2>2 DEF Members
  <2> QED BY <2>1, <2>3 DEF Served, SomebodyComes
<1> QED BY <1>1, LockInvariant, ServedInvariant, PTL

(***************************************************************************)
(* While threads wait on the condition, every unit of the value has a      *)
(* thread that will take it, or a signal that is still to be given.        *)
(***************************************************************************)
THEOREM NoUnitIsForgotten == ASSUME OneContender PROVE Spec => []NoUnitForgotten
<1>1. LockInv /\ ServedInv => NoUnitForgotten
  <2> SUFFICES ASSUME LockInv, NEW Q, Served(Q), ~ ListEmpty(heap, semCond)
               PROVE  Cardinality(Ahead) >= value
    BY DEF ServedInv, NoUnitForgotten
  <2>1. Len(Q[semCond]) # 0
    BY FirstWaiter, ListFacts DEF Served
  <2>2. Ahead = AheadOf(Q)
    BY ContentsOfPlaced, CtxFacts, ListFacts DEF Ahead, AheadOf, Served
  <2> QED BY <2>1, <2>2 DEF Served, Claimed
<1> QED BY <1>1, LockInvariant, ServedInvariant, PTL

=============================================================================
