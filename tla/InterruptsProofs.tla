--------------------------- MODULE InterruptsProofs ---------------------------
(***************************************************************************)
(* What every thread has on its kernel stack, whoever runs: one of a few   *)
(* forms, each left by the code the thread was in.  From the forms follow   *)
(* the flag that code runs with, the stack that user mode enters on, and   *)
(* that switchTo, the gates and iretd together keep a flag per thread,     *)
(* which is all that the Scheduler has.  The last part is about time: how  *)
(* long a thread that is ready waits.                                      *)
(***************************************************************************)
EXTENDS Interrupts, FiniteSetTheorems, TLAPS

TP == INSTANCE ThreadsProofs
        WITH iflag <- [t \in Thread |-> Flag(t)], WaitList <- {}

-----------------------------------------------------------------------------
(* Interrupts has the list operations twice, as S! and as TP!. *)
LEMMA ListAssumption == TP!ThreadAssumption
  BY SchedulerAssumption
     DEF S!ThreadAssumption, TP!ThreadAssumption, S!Sentinels, TP!Sentinels,
         S!HeadOf, S!TailOf, TP!HeadOf, TP!TailOf, S!IsFiniteSet, TP!IsFiniteSet

LEMMA SameWalk == ASSUME NEW h, NEW L PROVE S!ListWalk(h, L) = TP!ListWalk(h, L)
  BY DEF S!ListWalk, TP!ListWalk, S!TailOf, TP!TailOf, S!HeadOf, TP!HeadOf,
         S!Cardinality, TP!Cardinality

LEMMA SameTests ==
  ASSUME NEW h, NEW L, NEW n
  PROVE  /\ S!ListExist(h, L, n) <=> TP!ListExist(h, L, n)
         /\ S!Stray(h, L, n) <=> TP!Stray(h, L, n)
<1>1. S!ListExist(h, L, n) <=> TP!ListExist(h, L, n)
  BY SameWalk DEF S!ListExist, TP!ListExist, S!TailOf, TP!TailOf
<1>2. S!Stray(h, L, n) <=> TP!Stray(h, L, n)
  BY SameWalk DEF S!Stray, TP!Stray, S!TailOf, TP!TailOf, S!HeadOf, TP!HeadOf,
                  S!ListFirst, TP!ListFirst
<1> QED BY <1>1, <1>2

LEMMA SameLinks ==
  ASSUME NEW h, NEW L, NEW n
  PROVE  /\ S!ListAppend(h, L, n) = TP!ListAppend(h, L, n)
         /\ S!ListPush(h, L, n) = TP!ListPush(h, L, n)
         /\ S!ListRemove(h, n) = TP!ListRemove(h, n)
         /\ S!ListFirst(h, L) = TP!ListFirst(h, L)
         /\ S!ListEmpty(h, L) <=> TP!ListEmpty(h, L)
  BY DEF S!ListAppend, TP!ListAppend, S!ListInsert, TP!ListInsert,
         S!ListPush, TP!ListPush, S!ListRemove, TP!ListRemove,
         S!ListFirst, TP!ListFirst, S!ListEmpty, TP!ListEmpty,
         S!TailOf, TP!TailOf, S!HeadOf, TP!HeadOf

LEMMA SameSchedule ==
  ASSUME NEW h, NEW st PROVE S!schedule(h, st) <=> TP!schedule(h, st)
  BY SameTests, SameLinks DEF S!schedule, TP!schedule

LEMMA SameStarts ==
  ASSUME NEW t PROVE /\ S!threadStart(t) <=> TP!threadStart(t)
                     /\ S!threadUnblock(t) <=> TP!threadUnblock(t)
  BY SameTests, SameLinks
     DEF S!threadStart, TP!threadStart, S!threadUnblock, TP!threadUnblock

-----------------------------------------------------------------------------
(* Code of threads that runs with interrupts on. *)
On == {"run", "func", "getPage", "user"}

Label  == On \cup {"boot", "syscall", "entry", "intrExit", "woken", "kernelThread"}
Frames == [at : Label, flag : BOOLEAN]

Code(t) == IF t \in Process THEN {"func", "getPage", "user"} ELSE {"run"}

(***************************************************************************)
(* What is on the stack of t below the code c that it is in.               *)
(***************************************************************************)
Context(t, c, s) ==
  \/ c = "boot" /\ t = Main /\ s = <<>>
  \/ c \in Code(t) /\ s = <<>>
  \/ c = "kernelThread" /\ t # Main /\ s = <<>>
  \/ c \in {"entry", "intrExit"} /\ \E l \in Code(t) : s = <<Frame(l, TRUE)>>
  \/ c = "syscall" /\ t \in Process /\ s = <<Frame("user", TRUE)>>
  \/ /\ c = "woken" /\ t # Main
     /\ \/ \E l \in Code(t) : s = <<Frame(l, TRUE)>>
        \/ t \in Process /\ s = <<Frame("user", TRUE), Frame("syscall", FALSE)>>

(* The stack of a thread that is not on the CPU: where schedule returns to, *)
(* on top of that.                                                         *)
Suspended(t, stk) ==
  \E c \in {"kernelThread", "intrExit", "woken"}, s \in Seq(Frames) :
    Context(t, c, s) /\ stk = Append(s, Frame(c, FALSE))

TypeInv == /\ panic \in {"none", "wild"} /\ at \in Label /\ eflagsIF \in BOOLEAN
           /\ stack \in [Thread -> Seq(Frames)]
           /\ selfKStack \in [Thread -> {"created", "saved"}]
           /\ frame \in [Process -> {"none", "reserved", "stale"}]
           /\ ticks \in [Thread -> 0 .. 255]
           /\ window \in [Process -> 0 .. WindowTicks]

ThreadsInv == /\ \E Q : TP!Agree(Q)
              /\ status \in [Thread -> TP!Status] /\ cur \in Thread
              /\ status[cur] = "running" /\ status[Main] \in {"running", "ready"}

(* The stack of each thread, and the pages that go with it. *)
Waits == \A t \in Thread \ {cur} :
           IF status[t] = "unborn" THEN stack[t] = <<>> ELSE Suspended(t, stack[t])

StackInv == /\ Context(cur, at, stack[cur])
            /\ Waits
            /\ FlagOfCode
            /\ cur \in Process => esp0 = cur /\ cr3 = cur

Inv == TypeInv /\ ThreadsInv /\ StackInv

-----------------------------------------------------------------------------
(* Sequences of frames. *)
LEMMA FrameFacts ==
  ASSUME NEW s \in Seq(Frames), NEW f \in Frames
  PROVE  /\ Append(s, f) \in Seq(Frames) /\ Append(s, f) # <<>>
         /\ Last(Append(s, f)) = f /\ Front(Append(s, f)) = s
<1>1. PICK n \in Nat : n = Len(s)
  OBVIOUS
<1>2. /\ Append(s, f) \in Seq(Frames) /\ Len(Append(s, f)) = n + 1
      /\ Append(s, f)[n + 1] = f
      /\ \A i \in 1 .. n : Append(s, f)[i] = s[i]
  BY <1>1
<1>3. Last(Append(s, f)) = f
  BY <1>2 DEF Last
<1>4. Front(Append(s, f)) = s
  <2>1. Front(Append(s, f)) = SubSeq(Append(s, f), 1, n)
    BY <1>2 DEF Front
  <2>2. SubSeq(Append(s, f), 1, n) = s
    BY <1>1, <1>2
  <2> QED BY <2>1, <2>2
<1> QED BY <1>2, <1>3, <1>4

LEMMA OneFrame ==
  ASSUME NEW f \in Frames
  PROVE  /\ <<>> \in Seq(Frames) /\ <<f>> \in Seq(Frames) /\ <<f>> = Append(<<>>, f)
         /\ Last(<<f>>) = f /\ Front(<<f>>) = <<>>
<1>1. <<>> \in Seq(Frames) /\ <<f>> = Append(<<>>, f)
  OBVIOUS
<1> QED BY <1>1, FrameFacts

LEMMA TwoFrames ==
  ASSUME NEW f \in Frames, NEW g \in Frames
  PROVE  /\ <<f, g>> \in Seq(Frames) /\ <<f, g>> = Append(<<f>>, g)
         /\ Last(<<f, g>>) = g /\ Front(<<f, g>>) = <<f>>
<1>1. <<f>> \in Seq(Frames) /\ <<f, g>> = Append(<<f>>, g)
  OBVIOUS
<1> QED BY <1>1, FrameFacts

LEMMA IsFrame ==
  ASSUME NEW c \in Label, NEW b \in BOOLEAN
  PROVE  /\ Frame(c, b) \in Frames
         /\ Frame(c, b).at = c /\ Frame(c, b).flag = b
  BY DEF Frame, Frames

LEMMA CodeFacts == ASSUME NEW t PROVE Code(t) \subseteq On /\ On \subseteq Label
  BY DEF Code, On, Label

(* The frame below a handler, a system call or threadBlock leads back. *)
LEMMA ContextFacts ==
  ASSUME NEW t, NEW c, NEW s, Context(t, c, s)
  PROVE  /\ s \in Seq(Frames) /\ c \in Label
         /\ c \in {"entry", "intrExit", "syscall", "woken"} =>
              /\ Context(t, Last(s).at, Front(s)) /\ Last(s).at \in On \cup {"syscall"}
              /\ Last(s).flag = IF Last(s).at \in On THEN TRUE ELSE FALSE
              /\ Last(s).flag \in BOOLEAN
<1> DEFINE Goal == /\ s \in Seq(Frames) /\ c \in Label
                   /\ c \in {"entry", "intrExit", "syscall", "woken"} =>
                        /\ Context(t, Last(s).at, Front(s))
                        /\ Last(s).at \in On \cup {"syscall"}
                        /\ Last(s).flag = IF Last(s).at \in On THEN TRUE ELSE FALSE
                        /\ Last(s).flag \in BOOLEAN
<1>1. CASE s = <<>> /\ c \in Label \ {"entry", "intrExit", "syscall", "woken"}
  <2>1. s \in Seq(Frames)
    BY <1>1
  <2> QED BY <1>1, <2>1, Zenon
<1>2. ASSUME NEW l \in Code(t), s = <<Frame(l, TRUE)>>, c \in {"entry", "intrExit", "woken"}
      PROVE  Goal
  <2>1. l \in On /\ l \in Label /\ Frame(l, TRUE) \in Frames
        /\ Frame(l, TRUE).at = l /\ Frame(l, TRUE).flag = TRUE
    BY CodeFacts, IsFrame
  <2>2. s \in Seq(Frames) /\ Last(s) = Frame(l, TRUE) /\ Front(s) = <<>>
    BY <1>2, <2>1, OneFrame
  <2>3. Context(t, l, <<>>)
    BY DEF Context
  <2> QED BY <1>2, <2>1, <2>2, <2>3 DEF Label
<1>3. CASE c = "syscall" /\ t \in Process /\ s = <<Frame("user", TRUE)>>
  <2>1. "user" \in Code(t) /\ "user" \in On /\ "user" \in Label
    BY <1>3 DEF Code, On, Label
  <2>2. Frame("user", TRUE) \in Frames /\ Frame("user", TRUE).at = "user"
        /\ Frame("user", TRUE).flag = TRUE
    BY <2>1, IsFrame
  <2>3. s \in Seq(Frames) /\ Last(s) = Frame("user", TRUE) /\ Front(s) = <<>>
    BY <1>3, <2>2, OneFrame
  <2>4. Context(t, "user", <<>>)
    BY <2>1 DEF Context
  <2> QED BY <1>3, <2>1, <2>2, <2>3, <2>4 DEF Label
<1>4. CASE /\ c = "woken" /\ t \in Process
           /\ s = <<Frame("user", TRUE), Frame("syscall", FALSE)>>
  <2>1. "syscall" \in Label /\ "user" \in Label /\ "syscall" \notin On
    BY DEF On, Label
  <2>2. Frame("user", TRUE) \in Frames /\ Frame("syscall", FALSE) \in Frames
        /\ Frame("syscall", FALSE).at = "syscall" /\ Frame("syscall", FALSE).flag = FALSE
    BY <2>1, IsFrame
  <2>3. s \in Seq(Frames) /\ Last(s) = Frame("syscall", FALSE)
        /\ Front(s) = <<Frame("user", TRUE)>>
    BY <1>4, <2>2, TwoFrames
  <2>4. Context(t, "syscall", <<Frame("user", TRUE)>>)
    BY <1>4 DEF Context
  <2>5. Context(t, Last(s).at, Front(s)) /\ Last(s).flag = FALSE
        /\ Last(s).at \notin On /\ Last(s).at \in On \cup {"syscall"}
    BY <2>1, <2>2, <2>3, <2>4
  <2>6. Last(s).flag = IF Last(s).at \in On THEN TRUE ELSE FALSE
    BY <2>5
  <2> QED BY <1>4, <2>3, <2>5, <2>6 DEF Label
<1>5. \/ s = <<>> /\ c \in Label \ {"entry", "intrExit", "syscall", "woken"}
      \/ c \in {"entry", "intrExit", "woken"} /\ \E l \in Code(t) : s = <<Frame(l, TRUE)>>
      \/ c = "syscall" /\ t \in Process /\ s = <<Frame("user", TRUE)>>
      \/ c = "woken" /\ t \in Process
         /\ s = <<Frame("user", TRUE), Frame("syscall", FALSE)>>
  BY CodeFacts DEF Context, Label, On
<1> HIDE DEF Goal
<1>6. Goal
  BY <1>1, <1>2, <1>3, <1>4, <1>5 DEF Goal
<1> QED BY <1>6 DEF Goal

(* The flag of a thread with the stack s below its code c. *)
FlagIn(c, s) == IF c \in {"entry", "intrExit", "woken"} THEN Last(s).flag
                ELSE IF c \in On \cup {"kernelThread"} THEN TRUE ELSE FALSE

(* The flag of a thread whose stack switchTo has left as stk. *)
KeptFlag(stk) == IF Len(stk) < 2 THEN TRUE ELSE stk[Len(stk) - 1].flag

LEMMA KeptFlagFacts ==
  ASSUME NEW t, NEW c \in {"kernelThread", "intrExit", "woken"}, NEW s, Context(t, c, s)
  PROVE  KeptFlag(Append(s, Frame(c, FALSE))) = FlagIn(c, s)
<1>1. s \in Seq(Frames) /\ Frame(c, FALSE) \in Frames /\ (c = "kernelThread" <=> s = <<>>)
  <2>1. s \in Seq(Frames) /\ c \in Label
    BY ContextFacts
  <2>2. Frame(c, FALSE) \in Frames
    BY <2>1, IsFrame
  <2>3. c = "kernelThread" => s = <<>>
    BY DEF Context, Code
  <2>4. s = <<>> => c = "kernelThread"
    BY DEF Context, Code
  <2> QED BY <2>1, <2>2, <2>3, <2>4
<1>2. PICK n \in Nat : n = Len(s)
  BY <1>1
<1> DEFINE stk == Append(s, Frame(c, FALSE))
<1>3. Len(stk) = n + 1 /\ \A i \in 1 .. n : stk[i] = s[i]
  <2>1. PICK f \in Frames : f = Frame(c, FALSE)
    BY <1>1
  <2> QED BY <1>1, <1>2, <2>1
<1> HIDE DEF stk
<1>4. CASE n = 0
  <2>1. c = "kernelThread"
    <3>1. \A f, g : Len(<<f>>) # 0 /\ Len(<<f, g>>) # 0
      OBVIOUS
    <3> QED BY <3>1, <1>2, <1>4 DEF Context, Code
  <2>2. Len(stk) < 2
    BY <1>3, <1>4
  <2>3. KeptFlag(stk) = TRUE
    BY <2>2 DEF KeptFlag
  <2> QED BY <2>1, <2>3 DEF FlagIn, stk
<1>5. CASE n # 0
  <2>1. c \in {"intrExit", "woken"}
    BY <1>1, <1>2, <1>5
  <2>2. ~ (Len(stk) < 2) /\ Len(stk) - 1 = n /\ stk[n] = s[n]
    BY <1>2, <1>3, <1>5
  <2>3. KeptFlag(stk) = s[n].flag
    BY <2>2 DEF KeptFlag
  <2>4. Last(s).flag = s[n].flag
    BY <1>2 DEF Last
  <2> QED BY <2>1, <2>4, <2>3 DEF FlagIn, stk
<1> QED BY <1>4, <1>5

-----------------------------------------------------------------------------
(***************************************************************************)
(* schedule finds a ready thread, since the boot thread never blocks.      *)
(***************************************************************************)
Blocks(st) == cur # Main /\ st = [status EXCEPT ![cur] = "blocked"]

LEMMA ScheduleFinds ==
  ASSUME ThreadsInv, NEW st, st = status \/ Blocks(st), S!schedule(heap, st),
         NEW Q, TP!Agree(Q)
  PROVE  /\ panic' = "none" /\ TP!Switched(Q, st)
         /\ \E R : TP!Agree(R)' /\ TP!OnlyReady(Q, R, TP!AfterSchedule(Q, st))
<1>1. TP!schedule(heap, st)
  BY SameSchedule
<1>2. status \in [Thread -> TP!Status] /\ cur \in Thread /\ Main \in Thread
      /\ status[cur] = "running" /\ status[Main] \in {"running", "ready"}
  BY ListAssumption DEF ThreadsInv, TP!ThreadAssumption
<1>3. /\ \A t \in Thread : status[t] = "ready" <=> t \in TP!Members(Q[threadReadyList])
      /\ \A t \in Thread : status[t] = "running" => t = cur
  BY DEF TP!Agree
<1>4. TP!OnNone(Q, cur)
  BY <1>2, <1>3 DEF TP!OnNone, TP!ListId
<1>5. \/ st = [status EXCEPT ![cur] = "blocked"]
      \/ st = status /\ status[cur] = "running" /\ TP!OnNone(Q, cur)
  BY <1>2, <1>4 DEF Blocks
<1>6. TP!Switched(Q, st) /\ \E R : TP!Agree(R)'
        /\ TP!OnlyReady(Q, R, TP!AfterSchedule(Q, st))
  BY <1>1, <1>2, <1>5, ListAssumption, TP!ScheduleLists
<1>7. panic' = "none"
  <2>1. SUFFICES ASSUME panic' # "none" PROVE FALSE
    OBVIOUS
  <2>2. Len(Q[threadReadyList]) = 0 /\ st[cur] # "running"
    BY <1>6, <2>1 DEF TP!Switched
  <2>3. cur # Main /\ status[Main] = "ready"
    BY <1>2, <1>3, <2>2 DEF Blocks
  <2>4. Main \in TP!Members(Q[threadReadyList])
    BY <1>2, <1>3, <2>3
  <2> QED BY <2>2, <2>4 DEF TP!Members
<1> QED BY <1>6, <1>7

(* The lists agree with the statuses again. *)
LEMMA ScheduleSteps ==
  ASSUME ThreadsInv, NEW st, st = status \/ Blocks(st), S!schedule(heap, st)
  PROVE  /\ panic' = "none" /\ ThreadsInv'
         /\ cur' = cur \/ status[cur'] = "ready"
         /\ \A t \in Thread : status'[t] = "unborn" <=> status[t] = "unborn"
<1>1. PICK Q : TP!Agree(Q)
  BY DEF ThreadsInv
<1>2. TP!Switched(Q, st) /\ panic' = "none" /\ \E R : TP!Agree(R)'
  BY <1>1, ScheduleFinds
<1>3. status \in [Thread -> TP!Status] /\ cur \in Thread /\ Main \in Thread
      /\ status[cur] = "running" /\ status[Main] \in {"running", "ready"}
      /\ \A t \in Thread : status[t] = "running" => t = cur
  BY <1>1, ListAssumption DEF ThreadsInv, TP!ThreadAssumption, TP!Agree
<1>4. /\ cur' \in Thread /\ (cur' = cur \/ status[cur'] = "ready")
      /\ \A t \in Thread :
           status'[t] = IF t = cur' THEN "running"
                        ELSE IF t = cur /\ st[t] = "running" THEN "ready" ELSE st[t]
  BY <1>2 DEF TP!Switched
<1>5. status' \in [Thread -> TP!Status]
  BY <1>2 DEF TP!Agree
<1>6. ASSUME NEW t \in Thread
      PROVE  /\ status'[t] = "unborn" <=> status[t] = "unborn"
             /\ t # cur => status'[t] \in {status[t], "running"}
             /\ t = cur /\ st = status => status'[t] \in {"running", "ready"}
  BY <1>3, <1>4 DEF Blocks
<1>7. status'[Main] \in {"running", "ready"}
  BY <1>3, <1>6 DEF Blocks
<1> QED BY <1>2, <1>4, <1>5, <1>6, <1>7 DEF ThreadsInv

-----------------------------------------------------------------------------
(***************************************************************************)
(* What the switch to another thread leaves, if the old one goes on at     *)
(* label with stacks[cur].                                                 *)
(***************************************************************************)
Rescheduled(stacks, label) ==
  /\ panic' = "none" /\ ThreadsInv' /\ StackInv'
  /\ at' \in Label /\ eflagsIF' = FALSE /\ stack' \in [Thread -> Seq(Frames)]
  /\ selfKStack' \in [Thread -> {"created", "saved"}]
  /\ \A t \in Thread : Flag(t)' = IF t = cur THEN FlagIn(label, stacks[cur]) ELSE Flag(t)

LEMMA RescheduleSteps ==
  ASSUME Inv, NEW st, st = status \/ Blocks(st), NEW stacks \in [Thread -> Seq(Frames)],
         \A t \in Thread \ {cur} : stacks[t] = stack[t],
         NEW label \in {"intrExit", "woken"}, Context(cur, label, stacks[cur]),
         NEW left, Reschedule(st, stacks, label, left)
  PROVE  Rescheduled(stacks, label)
<1> DEFINE saved == [stacks EXCEPT ![cur] = Append(@, Frame(label, FALSE))]
<1>1. /\ S!schedule(heap, st) /\ processActivate(cur') /\ eflagsIF' = FALSE
      /\ selfKStack' = [selfKStack EXCEPT ![cur] = "saved"]
      /\ at' = Last(saved[cur']).at /\ stack' = [saved EXCEPT ![cur'] = Front(@)]
  BY DEF Reschedule, switchTo
<1>2. cur \in Thread /\ status[cur] = "running" /\ Waits
      /\ selfKStack \in [Thread -> {"created", "saved"}]
  BY DEF Inv, ThreadsInv, StackInv, TypeInv
<1>3. /\ panic' = "none" /\ ThreadsInv'
      /\ cur' = cur \/ status[cur'] = "ready"
      /\ \A t \in Thread : status'[t] = "unborn" <=> status[t] = "unborn"
  BY <1>1, ScheduleSteps DEF Inv
<1>4. cur' \in Thread
  BY <1>3 DEF ThreadsInv
<1>5. /\ Frame(label, FALSE) \in Frames
      /\ Append(stacks[cur], Frame(label, FALSE)) \in Seq(Frames)
  <2>1. Frame(label, FALSE) \in Frames
    BY IsFrame DEF Label
  <2> QED BY <1>2, <2>1, FrameFacts
<1>6. /\ saved \in [Thread -> Seq(Frames)]
      /\ saved[cur] = Append(stacks[cur], Frame(label, FALSE))
      /\ \A t \in Thread \ {cur} : saved[t] = stack[t]
  BY <1>2, <1>5
<1> HIDE DEF saved
<1>7. ASSUME NEW t \in Thread, status[t] # "unborn"
      PROVE  Suspended(t, saved[t])
  <2>1. CASE t = cur
    BY <1>2, <1>6, <2>1 DEF Suspended
  <2>2. CASE t # cur
    BY <1>2, <1>6, <1>7, <2>2 DEF Waits
  <2> QED BY <2>1, <2>2
<1>8. Suspended(cur', saved[cur'])
  BY <1>2, <1>3, <1>4, <1>7
<1>9. PICK c \in {"kernelThread", "intrExit", "woken"}, s \in Seq(Frames) :
        Context(cur', c, s) /\ saved[cur'] = Append(s, Frame(c, FALSE))
  BY <1>8 DEF Suspended
<1>10. at' = c /\ Front(saved[cur']) = s /\ c \in Label
  <2>1. c \in Label
    BY DEF Label
  <2>2. Frame(c, FALSE) \in Frames /\ Frame(c, FALSE).at = c
    BY <2>1, IsFrame
  <2>3. Last(saved[cur']) = Frame(c, FALSE) /\ Front(saved[cur']) = s
    BY <1>9, <2>2, FrameFacts
  <2> QED BY <1>1, <2>1, <2>2, <2>3
<1>11. /\ stack' \in [Thread -> Seq(Frames)] /\ stack'[cur'] = s
       /\ \A t \in Thread \ {cur'} : stack'[t] = saved[t]
  BY <1>1, <1>4, <1>6, <1>10
<1>12. StackInv'
  <2>1. Context(cur', at', stack'[cur'])
    BY <1>9, <1>10, <1>11
  <2>2. ASSUME NEW t \in Thread \ {cur'}
        PROVE  IF status'[t] = "unborn" THEN stack'[t] = <<>> ELSE Suspended(t, stack'[t])
    <3>1. CASE status'[t] = "unborn"
      <4>1. t # cur /\ status[t] = "unborn"
        BY <1>2, <1>3, <3>1
      <4>2. stack[t] = <<>>
        BY <1>2, <4>1 DEF Waits
      <4> QED BY <1>6, <1>11, <3>1, <4>1, <4>2
    <3>2. CASE status'[t] # "unborn"
      BY <1>3, <1>7, <1>11, <3>2
    <3> QED BY <3>1, <3>2
  <2>3. FlagOfCode'
    BY <1>1, <1>10 DEF FlagOfCode
  <2>4. cur' \in Process => esp0' = cur' /\ cr3' = cur'
    BY <1>1 DEF processActivate
  <2>5. Waits'
    BY <2>2 DEF Waits
  <2> QED BY <2>1, <2>3, <2>4, <2>5, Zenon DEF StackInv
<1>13. ASSUME NEW t \in Thread
       PROVE  Flag(t)' = IF t = cur THEN FlagIn(label, stacks[cur]) ELSE Flag(t)
  <2>1. Flag(t)' = KeptFlag(saved[t])
    <3>1. CASE t = cur'
      <4>1. KeptFlag(saved[t]) = FlagIn(c, s)
        BY <1>9, <3>1, KeptFlagFacts
      <4>2. Flag(t)' = FlagIn(c, s)
        BY <1>10, <1>11, <3>1 DEF Flag, FlagIn
      <4> QED BY <4>1, <4>2
    <3>2. CASE t # cur'
      BY <1>11, <3>2 DEF Flag, KeptFlag
    <3> QED BY <3>1, <3>2
  <2>2. CASE t = cur
    <3>1. KeptFlag(saved[t]) = FlagIn(label, stacks[cur])
      BY <1>6, <2>2, KeptFlagFacts
    <3> QED BY <2>1, <2>2, <3>1
  <2>3. CASE t # cur
    BY <1>6, <2>1, <2>3 DEF Flag, KeptFlag
  <2> QED BY <2>2, <2>3
<1>14. selfKStack' \in [Thread -> {"created", "saved"}]
  BY <1>1, <1>2
<1> QED BY <1>1, <1>3, <1>10, <1>11, <1>12, <1>13, <1>14 DEF Rescheduled

-----------------------------------------------------------------------------
FlagsKept == \A t \in Thread : Flag(t)' = Flag(t)

(* The thread on the CPU sets or clears its flag. *)
FlagFlips == /\ Flag(cur) \in BOOLEAN /\ Flag(cur)' = ~ Flag(cur)
             /\ \A t \in Thread \ {cur} : Flag(t)' = Flag(t)

LEMMA FlagNow == ASSUME Inv PROVE Flag(cur) = FlagIn(at, stack[cur])
<1>1. eflagsIF \in BOOLEAN /\ (eflagsIF <=> at \in On) /\ at \in Label
  BY DEF Inv, TypeInv, StackInv, FlagOfCode, On
<1>2. CASE at \in {"entry", "intrExit", "woken"}
  BY <1>2 DEF Flag, FlagIn
<1>3. CASE at = "kernelThread"
  BY <1>3 DEF Flag, FlagIn
<1>4. CASE at \notin {"entry", "intrExit", "woken", "kernelThread"}
  <2>1. Flag(cur) = eflagsIF
    BY <1>4 DEF Flag
  <2>2. FlagIn(at, stack[cur]) = IF at \in On THEN TRUE ELSE FALSE
    BY <1>4 DEF FlagIn
  <2>3. eflagsIF = IF at \in On THEN TRUE ELSE FALSE
    BY <1>1
  <2> QED BY <2>1, <2>2, <2>3
<1> QED BY <1>2, <1>3, <1>4

(***************************************************************************)
(* Steps that leave the CPU to the thread that has it.                     *)
(***************************************************************************)
LEMMA SameThread ==
  ASSUME Inv, UNCHANGED <<heap, status, cur>>, panic' \in {"none", "wild"},
         NEW s \in Seq(Frames), stack' = [stack EXCEPT ![cur] = s],
         Context(cur, at', s), eflagsIF' \in BOOLEAN, eflagsIF' <=> at' \in On,
         cur \in Process => esp0' = esp0 /\ cr3' = cr3,
         selfKStack' = selfKStack, frame' \in [Process -> {"none", "reserved", "stale"}],
         ticks' \in [Thread -> 0 .. 255], window' \in [Process -> 0 .. WindowTicks]
  PROVE  /\ Inv'
         /\ Flag(cur)' = FlagIn(at', s)
         /\ \A t \in Thread \ {cur} : Flag(t)' = Flag(t)
<1>1. /\ cur \in Thread /\ stack \in [Thread -> Seq(Frames)] /\ Waits
      /\ cur \in Process => esp0 = cur /\ cr3 = cur
      /\ selfKStack \in [Thread -> {"created", "saved"}]
  BY DEF Inv, ThreadsInv, TypeInv, StackInv
<1>2. at' \in Label
  BY ContextFacts
<1>3. stack' \in [Thread -> Seq(Frames)] /\ stack'[cur] = s
      /\ \A t \in Thread \ {cur} : stack'[t] = stack[t]
  BY <1>1
<1>4. ThreadsInv'
  <2>1. PICK Q : TP!Agree(Q)
    BY DEF Inv, ThreadsInv
  <2>2. TP!Agree(Q)'
    BY <2>1 DEF TP!Agree
  <2> QED BY <2>2 DEF Inv, ThreadsInv
<1>5. Waits'
  BY <1>1, <1>3 DEF Waits
<1>6. StackInv'
  <2>1. Context(cur, at', stack[cur]')
    BY <1>3
  <2>2. Context(cur, at, stack[cur])'
    BY <2>1
  <2> QED BY <1>1, <1>5, <2>2 DEF StackInv, FlagOfCode, On
<1>7. TypeInv'
  BY <1>1, <1>2, <1>3 DEF TypeInv
<1>8. Inv'
  BY <1>4, <1>6, <1>7 DEF Inv
<1>9. Flag(cur)' = FlagIn(at', s)
  <2>1. (Flag(cur) = FlagIn(at, stack[cur]))'
    BY <1>8, FlagNow, PTL
  <2> QED BY <1>3, <2>1
<1>10. \A t \in Thread \ {cur} : Flag(t)' = Flag(t)
  BY <1>3 DEF Flag
<1> QED BY <1>8, <1>9, <1>10

-----------------------------------------------------------------------------
LEMMA TypeFacts ==
  ASSUME Inv
  PROVE  /\ cur \in Thread /\ Main \in Thread /\ stack \in [Thread -> Seq(Frames)]
         /\ stack[cur] \in Seq(Frames) /\ Context(cur, at, stack[cur])
         /\ selfKStack \in [Thread -> {"created", "saved"}]
         /\ frame \in [Process -> {"none", "reserved", "stale"}]
         /\ ticks \in [Thread -> 0 .. 255] /\ window \in [Process -> 0 .. WindowTicks]
         /\ priority \in [Thread -> 1 .. 255] /\ Process \subseteq Thread \ {Main}
         /\ eflagsIF \in BOOLEAN /\ (eflagsIF <=> at \in On)
         /\ panic \in {"none", "wild"}
<1>1. Main \in Thread
  BY ListAssumption DEF TP!ThreadAssumption
<1> QED BY <1>1, InterruptsAssumption
        DEF Inv, ThreadsInv, TypeInv, StackInv, FlagOfCode, On

(* Only the boot thread is in boot, and only there are threads created. *)
LEMMA CreateStep ==
  ASSUME Inv, panic = "none", NEW t \in Thread, createThread(t)
  PROVE  Inv' /\ panic' = "none" /\ FlagsKept /\ cur = Main /\ Flag(cur) = FALSE
<1>1. /\ at = "boot" /\ S!threadStart(t) /\ stack' = Push(t, Frame("kernelThread", FALSE))
      /\ ticks' = [ticks EXCEPT ![t] = priority[t]]
      /\ UNCHANGED <<at, eflagsIF, selfKStack, frame, esp0, cr3, window>>
  BY DEF createThread
<1>2. PICK Q : TP!Agree(Q)
  BY DEF Inv, ThreadsInv
<1>3. TP!threadStart(t) /\ status[t] = "unborn"
  BY <1>1, SameStarts DEF S!threadStart
<1>4. /\ \A u \in Thread : status[u] = "ready" <=> u \in TP!Members(Q[threadReadyList])
      /\ status[cur] = "running" /\ status[Main] \in {"running", "ready"} /\ Waits
      /\ cur \in Process => esp0 = cur /\ cr3 = cur
  BY <1>2 DEF TP!Agree, Inv, ThreadsInv, StackInv
<1>5. TP!OnNone(Q, t)
  BY <1>3, <1>4 DEF TP!OnNone, TP!ListId
<1>6. /\ panic' = "none" /\ cur' = cur /\ status'[t] = "ready" /\ status[t] = "unborn"
      /\ \A u \in Thread : u # t => status'[u] = status[u]
      /\ \E R : TP!Agree(R)' /\ TP!OnlyReady(Q, R, Append(Q[threadReadyList], t))
  BY <1>2, <1>3, <1>5, ListAssumption, TP!StartLists
<1>7. /\ t # cur /\ t # Main /\ stack[t] = <<>>
  BY <1>3, <1>4, TypeFacts DEF Waits
<1>8. ThreadsInv'
  <2>1. \E R : TP!Agree(R)'
    BY <1>6
  <2>2. status' \in [Thread -> TP!Status]
    BY <2>1 DEF TP!Agree
  <2>3. status'[cur'] = "running" /\ status'[Main] \in {"running", "ready"}
    BY <1>4, <1>6, <1>7, TypeFacts
  <2> QED BY <1>6, <2>1, <2>2, <2>3, TypeFacts DEF ThreadsInv
<1>9. Frame("kernelThread", FALSE) \in Frames
  BY IsFrame DEF Label
<1>10. /\ stack' \in [Thread -> Seq(Frames)]
       /\ stack'[t] = Append(<<>>, Frame("kernelThread", FALSE))
       /\ \A u \in Thread \ {t} : stack'[u] = stack[u]
  <2>1. PICK g \in Seq(Frames) : g = Append(<<>>, Frame("kernelThread", FALSE))
    BY <1>9, OneFrame
  <2>2. stack' = [stack EXCEPT ![t] = g]
    BY <1>1, <1>7, <2>1 DEF Push
  <2> QED BY <2>1, <2>2, TypeFacts
<1>11. Suspended(t, stack'[t])
  <2>1. Context(t, "kernelThread", <<>>)
    BY <1>7 DEF Context
  <2>2. <<>> \in Seq(Frames)
    OBVIOUS
  <2> QED BY <1>10, <2>1, <2>2, Zenon DEF Suspended
<1>12. Waits'
  BY <1>4, <1>6, <1>7, <1>10, <1>11 DEF Waits
<1>13. StackInv'
  <2>1. Context(cur', at', stack'[cur'])
    BY <1>1, <1>6, <1>7, <1>10, TypeFacts
  <2> QED BY <1>1, <1>4, <1>6, <1>12, <2>1, TypeFacts DEF StackInv, FlagOfCode, On
<1>14. TypeInv'
  <2>1. ticks' \in [Thread -> 0 .. 255]
    <3>1. priority[t] \in 0 .. 255
      BY TypeFacts
    <3> QED BY <1>1, <3>1, TypeFacts
  <2> QED BY <1>1, <1>6, <1>10, <2>1, TypeFacts DEF TypeInv, Inv
<1>15. cur = Main /\ Flag(cur) = FALSE
  <2>1. cur = Main
    BY <1>1, TypeFacts DEF Context, Code
  <2> QED BY <1>1, <2>1, FlagNow DEF FlagIn, On
<1>16. ASSUME NEW u \in Thread PROVE Flag(u)' = Flag(u)
  <2>1. CASE u = t
    <3>1. Len(stack[t]) < 2 /\ Len(stack'[t]) < 2
      BY <1>7, <1>10
    <3> QED BY <1>6, <1>7, <2>1, <3>1 DEF Flag
  <2>2. CASE u # t
    BY <1>1, <1>6, <1>10, <2>2 DEF Flag
  <2> QED BY <2>1, <2>2
<1> QED BY <1>6, <1>8, <1>13, <1>14, <1>15, <1>16 DEF Inv, FlagsKept

LEMMA UnblockStep ==
  ASSUME Inv, panic = "none", NEW p \in Thread, threadUnblock(p)
  PROVE  Inv' /\ panic' = "none" /\ FlagsKept
<1>1. /\ status[p] = "blocked" /\ S!threadUnblock(p)
      /\ UNCHANGED <<at, eflagsIF, stack, selfKStack, frame, esp0, cr3, ticks, window>>
  BY DEF threadUnblock, stackVars
<1>2. PICK Q : TP!Agree(Q)
  BY DEF Inv, ThreadsInv
<1>3. TP!threadUnblock(p)
  BY <1>1, SameStarts
<1>4. /\ \A u \in Thread : status[u] = "ready" <=> u \in TP!Members(Q[threadReadyList])
      /\ status[cur] = "running" /\ status[Main] \in {"running", "ready"} /\ Waits
      /\ cur \in Process => esp0 = cur /\ cr3 = cur
  BY <1>2 DEF TP!Agree, Inv, ThreadsInv, StackInv
<1>5. TP!OnNone(Q, p)
  BY <1>1, <1>4 DEF TP!OnNone, TP!ListId
<1>6. /\ panic' = "none" /\ cur' = cur
      /\ \A u \in Thread : u # p => status'[u] = status[u]
      /\ \E R : TP!Agree(R)' /\ TP!OnlyReady(Q, R, TP!AfterUnblock(Q, p))
  BY <1>1, <1>2, <1>3, <1>5, ListAssumption, TP!UnblockLists
<1>7. status'[p] = "ready" /\ p # cur /\ p # Main
  <2>1. p # cur /\ p # Main
    BY <1>1, <1>4
  <2>2. status' = [status EXCEPT ![p] = "ready"]
    BY <1>1, <1>3, <1>6 DEF TP!threadUnblock
  <2> QED BY <2>1, <2>2 DEF Inv, ThreadsInv
<1>8. ThreadsInv'
  <2>1. \E R : TP!Agree(R)'
    BY <1>6
  <2>2. status' \in [Thread -> TP!Status]
    BY <2>1 DEF TP!Agree
  <2>3. status'[cur'] = "running" /\ status'[Main] \in {"running", "ready"}
    BY <1>4, <1>6, <1>7, TypeFacts
  <2> QED BY <1>6, <2>1, <2>2, <2>3, TypeFacts DEF ThreadsInv
<1>9. Waits'
  BY <1>1, <1>4, <1>6, <1>7 DEF Waits
<1>10. StackInv'
  <2>1. Context(cur', at', stack'[cur'])
    BY <1>1, <1>6, TypeFacts
  <2> QED BY <1>1, <1>4, <1>6, <1>9, <2>1, TypeFacts DEF StackInv, FlagOfCode, On
<1>11. TypeInv'
  BY <1>1, <1>6 DEF TypeInv, Inv
<1>12. FlagsKept
  BY <1>1, <1>6 DEF Flag, FlagsKept
<1> QED BY <1>6, <1>8, <1>10, <1>11, <1>12 DEF Inv

LEMMA InCode ==
  ASSUME NEW t, NEW c \in On, NEW s, Context(t, c, s)
  PROVE  s = <<>> /\ c \in Code(t)
  BY DEF Context, On

(* iretd, and the return from threadBlock, lead back to what was below. *)
LEMMA ResumeStep ==
  ASSUME Inv, panic = "none", at \in {"intrExit", "woken", "syscall"}, Resume
  PROVE  /\ Inv' /\ UNCHANGED <<heap, status, cur, panic>>
         /\ IF at = "syscall" THEN FlagFlips ELSE FlagsKept
<1> DEFINE s == stack[cur]
<1>1. /\ at' = Last(s).at /\ eflagsIF' = Last(s).flag
      /\ stack' = [stack EXCEPT ![cur] = Front(s)]
      /\ UNCHANGED <<heap, status, cur, panic, selfKStack, frame, esp0, cr3, ticks, window>>
  BY DEF Resume, threadVars
<1>2. /\ Context(cur, Last(s).at, Front(s)) /\ Last(s).at \in On \cup {"syscall"}
      /\ Last(s).flag = IF Last(s).at \in On THEN TRUE ELSE FALSE
      /\ Last(s).flag \in BOOLEAN
  <2>1. Context(cur, at, s)
    BY TypeFacts
  <2> HIDE DEF s
  <2> QED BY <2>1, ContextFacts
<1>3. Front(s) \in Seq(Frames)
  BY <1>2, ContextFacts
<1>4. Flag(cur) = FlagIn(at, s)
  BY FlagNow
<1> HIDE DEF s
<1>5. /\ Inv' /\ Flag(cur)' = FlagIn(at', Front(s))
      /\ \A t \in Thread \ {cur} : Flag(t)' = Flag(t)
  BY <1>1, <1>2, <1>3, TypeFacts, SameThread
<1>6. Flag(cur)' = Last(s).flag
  BY <1>1, <1>2, <1>5 DEF FlagIn, On
<1>7. CASE at # "syscall"
  <2>1. Flag(cur) = Last(s).flag
    BY <1>4, <1>7 DEF FlagIn
  <2> QED BY <1>1, <1>5, <1>6, <1>7, <2>1 DEF FlagsKept
<1>8. CASE at = "syscall"
  <2>1. s = <<Frame("user", TRUE)>>
    BY <1>8, TypeFacts DEF Context, Code, s
  <2>2. Last(s) = Frame("user", TRUE) /\ Frame("user", TRUE).flag = TRUE
    BY <2>1, IsFrame, OneFrame DEF Label, On
  <2>3. Flag(cur) = FALSE
    BY <1>4, <1>8 DEF FlagIn, On
  <2> QED BY <1>1, <1>5, <1>6, <1>8, <2>2, <2>3 DEF FlagFlips
<1> QED BY <1>1, <1>5, <1>7, <1>8

(* A gate is only entered from code with the flag set, on an empty stack. *)
LEMMA EnterStep ==
  ASSUME Inv, panic = "none", at \in On, NEW label, Enter(label),
         label = "entry" \/ (label = "syscall" /\ at = "user"),
         window' \in [Process -> 0 .. WindowTicks]
  PROVE  /\ Inv' /\ UNCHANGED <<heap, status, cur, panic>>
         /\ stack' = [stack EXCEPT ![cur] = <<Frame(at, TRUE)>>]
         /\ label = "syscall" => FlagFlips
         /\ label = "entry" => FlagsKept
<1>1. /\ at' = label /\ eflagsIF' = FALSE
      /\ UNCHANGED <<heap, status, panic, selfKStack, frame, esp0, cr3, ticks>>
  BY DEF Enter
<1>2. /\ stack[cur] = <<>> /\ at \in Code(cur) /\ eflagsIF = TRUE /\ Flag(cur) = TRUE
      /\ at = "user" => cur \in Process /\ esp0 = cur
  <2>1. stack[cur] = <<>> /\ at \in Code(cur) /\ eflagsIF = TRUE
    BY TypeFacts, InCode
  <2>2. Flag(cur) = TRUE
    BY FlagNow DEF FlagIn, On
  <2>3. at = "user" => cur \in Process
    BY <2>1 DEF Code
  <2>4. cur \in Process => esp0 = cur
    BY DEF Inv, StackInv
  <2> QED BY <2>1, <2>2, <2>3, <2>4
<1>3. /\ Frame(at, TRUE) \in Frames /\ Frame(at, TRUE).flag = TRUE
      /\ <<Frame(at, TRUE)>> \in Seq(Frames) /\ Last(<<Frame(at, TRUE)>>) = Frame(at, TRUE)
      /\ Append(<<>>, Frame(at, TRUE)) = <<Frame(at, TRUE)>>
  <2>1. at \in Label
    BY CodeFacts
  <2> QED BY <2>1, IsFrame, OneFrame
<1>4. stack' = [stack EXCEPT ![cur] = <<Frame(at, TRUE)>>] /\ cur' = cur
  BY <1>2, <1>3 DEF Enter, Push
<1>5. Context(cur, at', <<Frame(at, TRUE)>>)
  <2>1. CASE label = "entry"
    BY <1>1, <1>2, <2>1 DEF Context
  <2>2. CASE label = "syscall" /\ at = "user"
    BY <1>1, <1>2, <2>2 DEF Context
  <2> QED BY <2>1, <2>2
<1>6. /\ Inv' /\ Flag(cur)' = FlagIn(at', <<Frame(at, TRUE)>>)
      /\ \A t \in Thread \ {cur} : Flag(t)' = Flag(t)
  <2> DEFINE s == <<Frame(at, TRUE)>>
  <2>1. s \in Seq(Frames) /\ stack' = [stack EXCEPT ![cur] = s] /\ Context(cur, at', s)
    BY <1>3, <1>4, <1>5
  <2>2. eflagsIF' \in BOOLEAN /\ (eflagsIF' <=> at' \in On)
    BY <1>1 DEF On
  <2> HIDE DEF s
  <2>3. /\ Inv' /\ Flag(cur)' = FlagIn(at', s)
        /\ \A t \in Thread \ {cur} : Flag(t)' = Flag(t)
    BY <1>1, <1>4, <2>1, <2>2, TypeFacts, SameThread
  <2> QED BY <2>3 DEF s
<1>7. Flag(cur)' = IF label = "syscall" THEN FALSE ELSE TRUE
  <2>1. CASE label = "entry"
    BY <1>1, <1>3, <1>6, <2>1 DEF FlagIn
  <2>2. CASE label = "syscall"
    BY <1>1, <1>6, <2>2 DEF FlagIn, On
  <2> QED BY <2>1, <2>2
<1> QED BY <1>1, <1>2, <1>4, <1>6, <1>7 DEF FlagsKept, FlagFlips

(* threadBlock leaves where it was called, with the flag of its caller.    *)
LEMMA BlockContext ==
  ASSUME Inv, at \in {"run", "syscall", "getPage"}, cur # Main,
         NEW s, s = Append(stack[cur], Frame(at, eflagsIF))
  PROVE  /\ s \in Seq(Frames) /\ Last(s).flag = eflagsIF /\ Context(cur, "woken", s)
         /\ IF at = "syscall" THEN s = <<Frame("user", TRUE), Frame("syscall", FALSE)>>
                              ELSE s = <<Frame(at, TRUE)>> /\ at \in Code(cur)
<1>1. at \in Label /\ Frame(at, eflagsIF) \in Frames /\ Frame(at, eflagsIF).flag = eflagsIF
  <2>1. at \in Label
    BY DEF Label, On
  <2> QED BY <2>1, IsFrame, TypeFacts
<1>2. s \in Seq(Frames) /\ Last(s) = Frame(at, eflagsIF)
  BY <1>1, FrameFacts, TypeFacts
<1>3. CASE at \in {"run", "getPage"}
  <2>1. stack[cur] = <<>> /\ at \in Code(cur) /\ eflagsIF = TRUE
    BY <1>3, InCode, TypeFacts DEF On
  <2>2. s = <<Frame(at, TRUE)>>
    BY <1>1, <2>1, OneFrame
  <2> QED BY <1>1, <1>2, <1>3, <2>1, <2>2 DEF Context
<1>4. CASE at = "syscall"
  <2>1. stack[cur] = <<Frame("user", TRUE)>> /\ cur \in Process /\ eflagsIF = FALSE
    BY <1>4, TypeFacts DEF Context, Code, On
  <2>2. Frame("user", TRUE) \in Frames
    BY IsFrame DEF Label, On
  <2>3. s = <<Frame("user", TRUE), Frame("syscall", FALSE)>>
    BY <1>1, <1>4, <2>1, <2>2, TwoFrames
  <2> QED BY <1>1, <1>2, <1>4, <2>1, <2>3 DEF Context
<1> QED BY <1>3, <1>4

(* A thread gives the CPU up: Sleep of the Scheduler. *)
LEMMA BlockStep ==
  ASSUME Inv, panic = "none", threadBlock
  PROVE  /\ Inv' /\ panic' = "none" /\ FlagsKept
         /\ S!schedule(heap, [status EXCEPT ![cur] = "blocked"])
<1> DEFINE s == Append(stack[cur], Frame(at, eflagsIF))
           stacks == [stack EXCEPT ![cur] = s]
           st == [status EXCEPT ![cur] = "blocked"]
<1>1. /\ at \in {"run", "syscall", "getPage"} /\ cur # Main
      /\ Reschedule(st, stacks, "woken", ticks) /\ UNCHANGED <<frame, window>>
  BY DEF threadBlock, Push
<1>2. s \in Seq(Frames) /\ Last(s).flag = eflagsIF /\ Context(cur, "woken", s)
  BY <1>1, BlockContext
<1>3. Flag(cur) = eflagsIF
  BY <1>1 DEF Flag
<1> HIDE DEF s
<1>4. /\ stacks \in [Thread -> Seq(Frames)] /\ stacks[cur] = s
      /\ \A t \in Thread \ {cur} : stacks[t] = stack[t]
  BY <1>2, TypeFacts
<1> HIDE DEF stacks
<1>5. Blocks(st)
  BY <1>1 DEF Blocks
<1>6. S!schedule(heap, st) /\ ticks' = Quantum(ticks, st)
  BY <1>1 DEF Reschedule
<1>7. st[cur] # "running"
  BY TypeFacts DEF Inv, ThreadsInv
<1> HIDE DEF st
<1>8. Rescheduled(stacks, "woken")
  BY <1>1, <1>2, <1>4, <1>5, RescheduleSteps
<1>9. TypeInv'
  BY <1>1, <1>6, <1>7, <1>8, TypeFacts DEF Rescheduled, TypeInv, Quantum
<1>10. ASSUME NEW t \in Thread PROVE Flag(t)' = Flag(t)
  BY <1>2, <1>3, <1>4, <1>8 DEF Rescheduled, FlagIn
<1> QED BY <1>6, <1>8, <1>9, <1>10 DEF Rescheduled, FlagsKept, Inv, st

(* The tick that uses up the quantum preempts; the others return at once.  *)
LEMMA TimerStep ==
  ASSUME Inv, panic = "none", intrTimerHandler
  PROVE  /\ Inv' /\ panic' = "none" /\ FlagsKept
         /\ \/ Flag(cur) = TRUE /\ S!schedule(heap, status)
            \/ UNCHANGED <<heap, status, cur, panic>>
<1> DEFINE left == [ticks EXCEPT ![cur] = uint8(@ - 1)]
           s == stack[cur]
<1>1. at = "entry" /\ UNCHANGED <<frame, window>>
  BY DEF intrTimerHandler
<1>2. /\ left \in [Thread -> 0 .. 255]
      /\ Quantum(left, status) \in [Thread -> 0 .. 255]
  <2>1. ticks[cur] \in Int /\ uint8(ticks[cur] - 1) \in 0 .. 255
        /\ priority[cur] \in 0 .. 255
    <3>1. ticks[cur] \in 0 .. 255 /\ priority[cur] \in 1 .. 255
      BY TypeFacts
    <3>2. \A n \in Int : n % 256 \in 0 .. 255
      OBVIOUS
    <3> QED BY <3>1, <3>2 DEF uint8
  <2> QED BY <2>1, TypeFacts DEF Quantum
<1>3. Context(cur, "intrExit", s) /\ s \in Seq(Frames) /\ Last(s).flag = TRUE
  <2>1. PICK l \in Code(cur) : s = <<Frame(l, TRUE)>>
    BY <1>1, TypeFacts DEF Context, Code
  <2>2. Context(cur, "intrExit", s)
    BY <2>1 DEF Context
  <2>3. Frame(l, TRUE) \in Frames /\ Frame(l, TRUE).flag = TRUE
    BY CodeFacts, IsFrame
  <2> QED BY <2>1, <2>2, <2>3, OneFrame, TypeFacts
<1>4. Flag(cur) = FlagIn("intrExit", s) /\ Flag(cur) = TRUE
  BY <1>1, <1>3, FlagNow DEF FlagIn
<1>5. CASE left[cur] = 0
  <2>1. Reschedule(status, stack, "intrExit", left)
    BY <1>5 DEF intrTimerHandler
  <2>2. S!schedule(heap, status) /\ ticks' = Quantum(left, status)
    BY <2>1 DEF Reschedule
  <2> HIDE DEF left
  <2>3. Rescheduled(stack, "intrExit")
    BY <1>3, <2>1, TypeFacts, RescheduleSteps
  <2>4. TypeInv'
    BY <1>1, <1>2, <2>2, <2>3, TypeFacts DEF Rescheduled, TypeInv
  <2> QED BY <1>4, <2>2, <2>3, <2>4 DEF Rescheduled, FlagsKept, Inv
<1>6. CASE left[cur] # 0
  <2>1. /\ at' = "intrExit" /\ ticks' = left
        /\ UNCHANGED <<heap, status, cur, panic, eflagsIF, stack, selfKStack, esp0, cr3>>
    BY <1>6 DEF intrTimerHandler, threadVars
  <2>2. stack' = [stack EXCEPT ![cur] = s]
    BY <2>1, TypeFacts
  <2> HIDE DEF left, s
  <2>3. eflagsIF' \in BOOLEAN /\ (eflagsIF' <=> at' \in On)
    BY <1>1, <2>1, TypeFacts DEF On
  <2>4. /\ Inv' /\ Flag(cur)' = FlagIn(at', s)
        /\ \A t \in Thread \ {cur} : Flag(t)' = Flag(t)
    BY <1>1, <1>2, <1>3, <2>1, <2>2, <2>3, TypeFacts, SameThread
  <2> QED BY <1>4, <2>1, <2>4 DEF FlagsKept
<1> QED BY <1>5, <1>6

(* The steps that do not touch the stack, or only empty it. *)
LEMMA PlainStep ==
  ASSUME Inv, panic = "none", mainEnable \/ Pit \/ kernelThread \/ startProcess \/ startUser
  PROVE  /\ Inv' /\ UNCHANGED <<heap, status, cur>>
         /\ startUser \/ UNCHANGED panic
         /\ IF mainEnable THEN FlagFlips ELSE FlagsKept
<1>1. ASSUME NEW s \in Seq(Frames), stack' = [stack EXCEPT ![cur] = s],
             UNCHANGED <<heap, status, cur, selfKStack, esp0, cr3, ticks, window>>,
             panic' \in {"none", "wild"}, Context(cur, at', s),
             eflagsIF' \in BOOLEAN, eflagsIF' <=> at' \in On,
             frame' \in [Process -> {"none", "reserved", "stale"}]
      PROVE  /\ Inv' /\ Flag(cur)' = FlagIn(at', s)
             /\ \A t \in Thread \ {cur} : Flag(t)' = Flag(t)
  BY <1>1, TypeFacts, SameThread
<1>2. stack = [stack EXCEPT ![cur] = stack[cur]] /\ <<>> \in Seq(Frames)
  BY TypeFacts
<1>3. CASE mainEnable
  <2>1. /\ at = "boot" /\ at' = "run" /\ eflagsIF' = TRUE
        /\ UNCHANGED <<heap, status, cur, panic, stack, selfKStack, frame, esp0, cr3,
                       ticks, window>>
    BY <1>3 DEF mainEnable, threadVars, stackVars
  <2>2. cur = Main /\ stack[cur] = <<>>
    BY <2>1, TypeFacts DEF Context, Code
  <2>3. Context(cur, at', <<>>)
    BY <2>1, <2>2, TypeFacts DEF Context, Code
  <2>4. /\ Inv' /\ Flag(cur)' = FlagIn(at', <<>>)
        /\ \A t \in Thread \ {cur} : Flag(t)' = Flag(t)
    BY <1>1, <1>2, <2>1, <2>2, <2>3, TypeFacts DEF On
  <2>5. Flag(cur)' = TRUE /\ Flag(cur) = FALSE
    BY <2>1, <2>4, FlagNow DEF FlagIn, On
  <2> QED BY <1>3, <2>1, <2>4, <2>5 DEF FlagFlips
<1>4. CASE Pit
  <2>1. UNCHANGED <<heap, status, cur, panic, at, eflagsIF, stack, selfKStack, frame, esp0,
                    cr3, ticks, window>>
    BY <1>4 DEF Pit, threadVars, stackVars
  <2>2. /\ Inv' /\ Flag(cur)' = FlagIn(at', stack[cur])
        /\ \A t \in Thread \ {cur} : Flag(t)' = Flag(t)
    BY <1>1, <1>2, <2>1, TypeFacts
  <2>3. ~ mainEnable
    BY <2>1 DEF mainEnable
  <2> QED BY <2>1, <2>2, <2>3, FlagNow DEF FlagsKept
<1>5. CASE kernelThread
  <2>1. /\ at = "kernelThread" /\ at' \in Code(cur) /\ eflagsIF' = TRUE
        /\ UNCHANGED <<heap, status, cur, panic, stack, selfKStack, frame, esp0, cr3,
                       ticks, window>>
    BY <1>5 DEF kernelThread, Code, threadVars, stackVars
  <2>2. stack[cur] = <<>> /\ at' \in On
    BY <2>1, CodeFacts, TypeFacts DEF Context, Code
  <2>3. Context(cur, at', <<>>)
    BY <2>1 DEF Context
  <2>4. /\ Inv' /\ Flag(cur)' = FlagIn(at', <<>>)
        /\ \A t \in Thread \ {cur} : Flag(t)' = Flag(t)
    BY <1>1, <1>2, <2>1, <2>2, <2>3, TypeFacts
  <2>5. Flag(cur)' = TRUE /\ Flag(cur) = TRUE /\ ~ mainEnable
    BY <2>1, <2>2, <2>4, FlagNow DEF FlagIn, On, mainEnable
  <2> QED BY <2>1, <2>4, <2>5 DEF FlagsKept
<1>6. CASE startProcess
  <2>1. /\ at = "func" /\ at' = "getPage"
        /\ frame' \in [Process -> {"none", "reserved", "stale"}]
        /\ UNCHANGED <<heap, status, cur, panic, eflagsIF, stack, selfKStack, esp0, cr3,
                       ticks, window>>
    BY <1>6, TypeFacts DEF startProcess, threadVars
  <2>2. stack[cur] = <<>> /\ cur \in Process
    BY <2>1, TypeFacts, InCode DEF Code, On
  <2>3. Context(cur, at', <<>>)
    BY <2>1, <2>2 DEF Context, Code
  <2>4. /\ Inv' /\ Flag(cur)' = FlagIn(at', <<>>)
        /\ \A t \in Thread \ {cur} : Flag(t)' = Flag(t)
    BY <1>1, <1>2, <2>1, <2>2, <2>3, TypeFacts DEF On
  <2>5. Flag(cur)' = TRUE /\ Flag(cur) = TRUE /\ ~ mainEnable
    BY <2>1, <2>4, FlagNow DEF FlagIn, On, mainEnable
  <2> QED BY <2>1, <2>4, <2>5 DEF FlagsKept
<1>7. CASE startUser
  <2>1. /\ at = "getPage" /\ at' = "user" /\ eflagsIF' = TRUE
        /\ panic' \in {"none", "wild"} /\ stack' = [stack EXCEPT ![cur] = <<>>]
        /\ UNCHANGED <<heap, status, cur, selfKStack, frame, esp0, cr3, ticks, window>>
    BY <1>7, TypeFacts DEF startUser
  <2>2. cur \in Process
    BY <2>1, TypeFacts, InCode DEF Code, On
  <2>3. Context(cur, at', <<>>)
    BY <2>1, <2>2 DEF Context, Code
  <2>4. /\ Inv' /\ Flag(cur)' = FlagIn(at', <<>>)
        /\ \A t \in Thread \ {cur} : Flag(t)' = Flag(t)
    BY <1>1, <1>2, <2>1, <2>3, TypeFacts DEF On
  <2>5. Flag(cur)' = TRUE /\ Flag(cur) = TRUE /\ ~ mainEnable
    BY <2>1, <2>4, FlagNow DEF FlagIn, On, mainEnable
  <2> QED BY <1>7, <2>1, <2>4, <2>5 DEF FlagsKept
<1> QED BY <1>3, <1>4, <1>5, <1>6, <1>7

-----------------------------------------------------------------------------
LEMMA InitInv == Init => Inv
<1> SUFFICES ASSUME Init PROVE Inv
  OBVIOUS
<1>1. /\ at = "boot" /\ eflagsIF = FALSE /\ panic = "none" /\ cur = Main
      /\ heap = S!ListInit(S!ListId, Thread)
      /\ status = [t \in Thread |-> IF t = Main THEN "running" ELSE "unborn"]
      /\ stack = [t \in Thread |-> <<>>]
      /\ selfKStack = [t \in Thread |-> "created"]
      /\ frame = [t \in Process |-> "none"]
      /\ ticks = [t \in Thread |-> priority[t]]
      /\ window = [t \in Process |-> 0]
  BY DEF Init, S!ThreadsInit
<1>2. Main \in Thread /\ WindowTicks \in Nat /\ Process \subseteq Thread \ {Main}
      /\ priority \in [Thread -> 1 .. 255]
  BY InterruptsAssumption, ListAssumption DEF TP!ThreadAssumption
<1>3. TypeInv
  <2>1. ticks \in [Thread -> 0 .. 255]
    <3>1. 1 .. 255 \subseteq 0 .. 255
      OBVIOUS
    <3> QED BY <1>1, <1>2, <3>1
  <2>2. stack \in [Thread -> Seq(Frames)] /\ window \in [Process -> 0 .. WindowTicks]
    BY <1>1, <1>2
  <2> QED BY <1>1, <2>1, <2>2 DEF TypeInv, Label
<1>4. ThreadsInv
  <2>1. heap = TP!ListInit(TP!ListId, Thread)
    BY <1>1 DEF S!ListInit, TP!ListInit, S!ListId, TP!ListId, S!Sentinels, TP!Sentinels,
                S!HeadOf, S!TailOf, TP!HeadOf, TP!TailOf
  <2>2. TP!Agree([L \in TP!ListId |-> <<>>])
    BY <1>1, <2>1, ListAssumption, TP!InitLists
  <2> QED BY <1>1, <1>2, <2>2 DEF ThreadsInv, TP!Status
<1>5. StackInv
  BY <1>1, <1>2 DEF StackInv, Context, Waits, FlagOfCode
<1> QED BY <1>3, <1>4, <1>5 DEF Inv

(* A step of the CPU as the Scheduler sees it. *)
AbstractStep ==
  \/ cur = Main /\ Flag(cur) = FALSE /\ FlagsKept /\ \E t \in Thread : S!threadStart(t)
  \/ FlagsKept /\ S!schedule(heap, [status EXCEPT ![cur] = "blocked"])
  \/ FlagsKept /\ \E p \in Thread : S!threadUnblock(p)
  \/ Flag(cur) = TRUE /\ FlagsKept /\ S!schedule(heap, status)
  \/ UNCHANGED <<heap, status, cur, panic>> /\ (FlagFlips \/ FlagsKept)
  \/ startUser /\ UNCHANGED <<heap, status, cur>> /\ FlagsKept

(* A tick is counted in the window while there is room for one. *)
LEMMA InterruptFacts ==
  ASSUME Inv, Interrupt
  PROVE  /\ at \in On /\ Enter("entry") /\ window' \in [Process -> 0 .. WindowTicks]
         /\ at = "func" => /\ cur \in Process
                           /\ window' = [window EXCEPT ![cur] = @ + 1]
         /\ at # "func" => window' = window
<1>1. /\ at \in On /\ Enter("entry")
      /\ at = "func" => window[cur] < WindowTicks
           /\ window' = [window EXCEPT ![cur] = @ + 1]
      /\ at # "func" => window' = window
  BY TypeFacts DEF Interrupt
<1>2. ASSUME at = "func"
      PROVE  cur \in Process /\ window' \in [Process -> 0 .. WindowTicks]
  <2>1. cur \in Process
    BY <1>1, <1>2, InCode, TypeFacts DEF Code
  <2>2. window[cur] \in 0 .. WindowTicks /\ window[cur] < WindowTicks /\ WindowTicks \in Nat
    BY <1>1, <1>2, <2>1, InterruptsAssumption, TypeFacts
  <2>3. window[cur] + 1 \in 0 .. WindowTicks
    BY <2>2
  <2> QED BY <1>1, <1>2, <2>1, <2>3, TypeFacts
<1>3. ASSUME at # "func" PROVE window' \in [Process -> 0 .. WindowTicks]
  BY <1>1, <1>3, TypeFacts
<1> QED BY <1>1, <1>2, <1>3

LEMMA NextSteps ==
  ASSUME Inv, Next PROVE Inv' /\ AbstractStep /\ (startUser \/ panic' = "none")
<1>1. panic = "none"
  BY DEF Next
<1>2. ASSUME NEW t \in Thread, createThread(t) PROVE Inv' /\ AbstractStep /\ panic' = "none"
  <2>1. Inv' /\ panic' = "none" /\ FlagsKept /\ cur = Main /\ Flag(cur) = FALSE
    BY <1>1, <1>2, CreateStep
  <2>2. S!threadStart(t)
    BY <1>2 DEF createThread
  <2> QED BY <2>1, <2>2 DEF AbstractStep
<1>3. CASE mainEnable \/ Pit \/ kernelThread \/ startProcess \/ startUser
  <2>1. /\ Inv' /\ UNCHANGED <<heap, status, cur>>
        /\ startUser \/ UNCHANGED panic
        /\ IF mainEnable THEN FlagFlips ELSE FlagsKept
    BY <1>1, <1>3, PlainStep
  <2>2. ~ (startUser /\ mainEnable)
    BY DEF startUser, mainEnable
  <2> QED BY <1>1, <2>1, <2>2 DEF AbstractStep
<1>4. CASE Interrupt
  <2>1. Inv' /\ UNCHANGED <<heap, status, cur, panic>> /\ FlagsKept
    BY <1>1, <1>4, InterruptFacts, EnterStep
  <2> QED BY <1>1, <2>1 DEF AbstractStep
<1>5. CASE intrTimerHandler
  BY <1>1, <1>5, TimerStep DEF AbstractStep
<1>6. CASE intrExit \/ threadWoken \/ syscallReturn
  <2>1. at \in {"intrExit", "woken", "syscall"} /\ Resume
    BY <1>6 DEF intrExit, threadWoken, syscallReturn
  <2> QED BY <1>1, <2>1, ResumeStep DEF AbstractStep
<1>7. CASE syscallHandler
  <2>1. at = "user" /\ at \in On /\ Enter("syscall") /\ window' = window
    BY <1>7 DEF syscallHandler, On
  <2>2. Inv' /\ UNCHANGED <<heap, status, cur, panic>> /\ FlagFlips
    BY <1>1, <2>1, EnterStep, TypeFacts
  <2> QED BY <1>1, <2>2 DEF AbstractStep
<1>8. CASE threadBlock
  BY <1>1, <1>8, BlockStep DEF AbstractStep
<1>9. ASSUME NEW p \in Thread, threadUnblock(p) PROVE Inv' /\ AbstractStep
        /\ panic' = "none"
  BY <1>1, <1>9, UnblockStep DEF AbstractStep, threadUnblock
<1> QED BY <1>2, <1>3, <1>4, <1>5, <1>6, <1>7, <1>8, <1>9 DEF Next

LEMMA StutterInv == ASSUME Inv, UNCHANGED vars PROVE Inv'
<1>1. /\ UNCHANGED <<heap, status, cur, panic, at, eflagsIF, stack, selfKStack, frame, esp0,
                     cr3, ticks, window>>
  BY DEF vars, threadVars, stackVars
<1>2. ThreadsInv'
  <2>1. PICK Q : TP!Agree(Q)
    BY DEF Inv, ThreadsInv
  <2>2. TP!Agree(Q)'
    BY <1>1, <2>1 DEF TP!Agree
  <2> QED BY <1>1, <2>2 DEF Inv, ThreadsInv
<1> QED BY <1>1, <1>2 DEF Inv, TypeInv, StackInv, Waits, FlagOfCode

THEOREM StacksFit == Spec => []Inv
<1>1. Inv /\ [Next]_vars => Inv'
  BY NextSteps, StutterInv
<1> QED BY InitInv, <1>1, PTL DEF Spec

(***************************************************************************)
(* Code of threads runs with interrupts on, all else with them off,        *)
(* although only kernelThread, iretd and intrSetStatus touch the flag.     *)
(***************************************************************************)
THEOREM CodeHasItsFlag == Spec => []FlagOfCode
<1>1. Inv => FlagOfCode
  BY DEF Inv, StackInv
<1> QED BY StacksFit, <1>1, PTL

(***************************************************************************)
(* processActivate and the TSS: user mode always enters the kernel on the  *)
(* empty stack of its own process, and sees its own memory.                *)
(***************************************************************************)
THEOREM OwnStack == Spec => []EntersOnOwnStack
<1>1. Inv => EntersOnOwnStack
  <2>1. ASSUME Inv, at = "user" PROVE esp0 = cur /\ stack[cur] = <<>> /\ cr3 = cur
    <3>1. stack[cur] = <<>> /\ at \in Code(cur)
      BY <2>1, InCode, TypeFacts DEF On
    <3> QED BY <2>1, <3>1 DEF Code, Inv, StackInv
  <2> QED BY <2>1 DEF EntersOnOwnStack
<1> QED BY StacksFit, <1>1, PTL

-----------------------------------------------------------------------------
(***************************************************************************)
(* A process is not preempted in the window if its first quantum outlasts  *)
(* the ticks that can fall into it.                                        *)
(***************************************************************************)
LongQuanta == \A p \in Process : priority[p] > WindowTicks

InWindow == <<Frame("func", TRUE)>>

(* Until p, in code c above s, is through the window, switchTo has not     *)
(* touched its selfKStack and every tick since its start fell there; then  *)
(* its first context is where it should be.                                *)
Phase(p, c, s) ==
  IF c \in {"kernelThread", "func"} \/ s = InWindow
  THEN /\ selfKStack[p] = "created"
       /\ ticks[p] = priority[p] - window[p] + (IF c = "entry" THEN 1 ELSE 0)
       /\ c = "kernelThread" => window[p] = 0
  ELSE frame[p] = "reserved"

(* Off the CPU a process is before the window or through it. *)
Away(p) == Front(stack[p]) # InWindow /\ Phase(p, Last(stack[p]).at, Front(stack[p]))

WindowInv ==
  \A p \in Process :
    /\ frame[p] \in {"none", "reserved"}
    /\ status[p] = "unborn" => selfKStack[p] = "created" /\ window[p] = 0
    /\ p = cur => Phase(p, at, stack[p])
    /\ p # cur /\ status[p] # "unborn" => Away(p)

LEMMA WindowFacts ==
  /\ <<>> # InWindow
  /\ \A f, g : <<f, g>> # InWindow
  /\ \A l \in Label : <<Frame(l, TRUE)>> = InWindow => l = "func"
<1>1. \A f : Len(<<f>>) = 1 /\ <<f>>[1] = f
  OBVIOUS
<1>2. Len(<<>>) = 0 /\ \A f, g : Len(<<f, g>>) = 2
  OBVIOUS
<1>3. ASSUME NEW l \in Label, <<Frame(l, TRUE)>> = InWindow PROVE l = "func"
  <2>1. Frame(l, TRUE) = Frame("func", TRUE)
    BY <1>1, <1>3 DEF InWindow
  <2> QED BY <2>1, IsFrame DEF Label, On
<1>4. \A f : <<f>> # <<>> /\ \A g, h : <<f>> # <<g, h>>
  BY <1>1, <1>2
<1> QED BY <1>3, <1>4 DEF InWindow

(* Steps in which only the thread on the CPU moves. *)
LEMMA OwnWindow ==
  ASSUME Inv, WindowInv, UNCHANGED <<status, cur>>,
         \A p \in Process \ {cur} : UNCHANGED <<stack[p], selfKStack[p], ticks[p], window[p]>>
                                    /\ frame'[p] = frame[p],
         cur \in Process => frame'[cur] \in {"none", "reserved"}
           /\ Phase(cur, at, stack[cur])'
  PROVE  WindowInv'
<1>1. status[cur] = "running"
  BY DEF Inv, ThreadsInv
<1>2. ASSUME NEW p \in Process
      PROVE  /\ frame'[p] \in {"none", "reserved"}
             /\ status'[p] = "unborn" => selfKStack'[p] = "created" /\ window'[p] = 0
             /\ p = cur' => Phase(p, at, stack[p])'
             /\ p # cur' /\ status'[p] # "unborn" => Away(p)'
  <2>1. CASE p = cur
    BY <1>1, <2>1
  <2>2. CASE p # cur
    BY <2>2 DEF WindowInv, Away, Phase
  <2> QED BY <2>1, <2>2
<1> QED BY <1>2 DEF WindowInv

(* The thread on the CPU is a process, or does not matter. *)
LEMMA OwnFacts ==
  ASSUME Inv, WindowInv, cur \in Process
  PROVE  /\ frame[cur] \in {"none", "reserved"} /\ Phase(cur, at, stack[cur])
         /\ at \in {"getPage", "user"} => frame[cur] = "reserved" /\ stack[cur] = <<>>
         /\ at = "syscall" => /\ frame[cur] = "reserved"
                              /\ stack[cur] = <<Frame("user", TRUE)>>
<1>1. frame[cur] \in {"none", "reserved"} /\ Phase(cur, at, stack[cur])
  BY DEF WindowInv
<1>2. at \in {"getPage", "user"} => stack[cur] = <<>>
  <2>1. ASSUME at \in On PROVE stack[cur] = <<>> /\ at \in Code(cur)
    BY <2>1, InCode, TypeFacts
  <2> QED BY <2>1 DEF On
<1>3. at = "syscall" => stack[cur] = <<Frame("user", TRUE)>>
  BY TypeFacts DEF Context, Code
<1>4. "user" \in Label
  BY DEF Label, On
<1> QED BY <1>1, <1>2, <1>3, <1>4, WindowFacts DEF Phase

LEMMA InterruptWindow ==
  ASSUME Inv, WindowInv, panic = "none", Interrupt PROVE WindowInv'
<1>1. /\ at \in On /\ Enter("entry") /\ window' \in [Process -> 0 .. WindowTicks]
      /\ at = "func" => cur \in Process /\ window' = [window EXCEPT ![cur] = @ + 1]
      /\ at # "func" => window' = window
  BY InterruptFacts
<1>2. at \in Code(cur)
  BY <1>1, InCode, TypeFacts
<1>3. /\ UNCHANGED <<heap, status, cur, panic>>
      /\ stack' = [stack EXCEPT ![cur] = <<Frame(at, TRUE)>>]
      /\ at' = "entry" /\ UNCHANGED <<selfKStack, frame, ticks>>
  BY <1>1, EnterStep DEF Enter
<1>4. \A p \in Process \ {cur} : UNCHANGED <<stack[p], selfKStack[p], ticks[p], window[p]>>
                                 /\ frame'[p] = frame[p]
  BY <1>1, <1>3, TypeFacts
<1>5. ASSUME cur \in Process
      PROVE  frame'[cur] \in {"none", "reserved"} /\ Phase(cur, at, stack[cur])'
  <2>1. stack'[cur] = <<Frame(at, TRUE)>> /\ at' = "entry" /\ cur' = cur
    BY <1>3, TypeFacts
  <2>2. CASE at = "func"
    <3>1. /\ selfKStack[cur] = "created" /\ ticks[cur] = priority[cur] - window[cur] + 0
      BY <1>5, <2>2, OwnFacts DEF Phase
    <3>2. window'[cur] = window[cur] + 1 /\ window[cur] \in 0 .. WindowTicks
          /\ priority[cur] \in 1 .. 255 /\ WindowTicks \in Nat
      BY <1>1, <1>5, <2>2, InterruptsAssumption, TypeFacts
    <3>3. ticks[cur] = priority[cur] - window'[cur] + 1
      BY <3>1, <3>2
    <3>4. stack'[cur] = InWindow
      BY <2>1, <2>2 DEF InWindow
    <3> QED BY <1>3, <1>5, <2>1, <3>1, <3>3, <3>4, OwnFacts DEF Phase
  <2>3. CASE at # "func"
    <3>1. frame[cur] = "reserved"
      BY <1>2, <1>5, <2>3, OwnFacts DEF Code
    <3>2. stack'[cur] # InWindow
      <4>1. at \in Label
        BY <1>1, CodeFacts
      <4> QED BY <2>1, <2>3, <4>1, WindowFacts
    <3> QED BY <1>3, <2>1, <3>1, <3>2 DEF Phase
  <2> QED BY <2>2, <2>3
<1> QED BY <1>3, <1>4, <1>5, OwnWindow

LEMMA ResumeWindow ==
  ASSUME Inv, WindowInv, panic = "none", at \in {"intrExit", "woken", "syscall"}, Resume
  PROVE  WindowInv'
<1> DEFINE s == stack[cur]
<1>1. /\ at' = Last(s).at /\ stack' = [stack EXCEPT ![cur] = Front(s)]
      /\ UNCHANGED <<status, cur, selfKStack, frame, ticks, window>>
  BY DEF Resume, threadVars
<1>2. ASSUME cur \in Process
      PROVE  frame'[cur] \in {"none", "reserved"} /\ Phase(cur, at, stack[cur])'
  <2>1. stack'[cur] = Front(s) /\ cur' = cur
    BY <1>1, TypeFacts
  <2>2. CASE \E l \in Code(cur) : s = <<Frame(l, TRUE)>>
    <3>1. PICK l \in Code(cur) : s = <<Frame(l, TRUE)>>
      BY <2>2
    <3>2. /\ l \in Label /\ Frame(l, TRUE) \in Frames /\ Frame(l, TRUE).at = l
          /\ l \in {"func", "getPage", "user"}
      BY <1>2, CodeFacts, IsFrame DEF Code
    <3>3. at' = l /\ stack'[cur] = <<>>
      BY <1>1, <2>1, <3>1, <3>2, OneFrame
    <3>4. CASE l = "func"
      <4>1. s = InWindow
        BY <3>1, <3>4 DEF InWindow
      <4>2. /\ selfKStack[cur] = "created"
            /\ ticks[cur] = priority[cur] - window[cur] + 0
        BY <1>2, <4>1, OwnFacts DEF Phase
      <4> QED BY <1>1, <1>2, <2>1, <3>3, <3>4, <4>2, OwnFacts DEF Phase
    <3>5. CASE l # "func"
      <4>1. s # InWindow
        BY <3>1, <3>2, <3>5, WindowFacts
      <4>2. frame[cur] = "reserved"
        BY <1>2, <4>1, OwnFacts DEF Phase
      <4> QED BY <1>1, <2>1, <3>2, <3>3, <3>5, <4>2, WindowFacts DEF Phase
    <3> QED BY <3>4, <3>5
  <2>3. CASE s = <<Frame("user", TRUE), Frame("syscall", FALSE)>>
    <3>1. /\ Frame("user", TRUE) \in Frames /\ Frame("syscall", FALSE) \in Frames
          /\ Frame("syscall", FALSE).at = "syscall" /\ "user" \in Label
      BY IsFrame DEF Label, On
    <3>2. at' = "syscall" /\ stack'[cur] = <<Frame("user", TRUE)>>
      BY <1>1, <2>1, <2>3, <3>1, TwoFrames
    <3>3. s # InWindow
      BY <2>3, WindowFacts
    <3>4. frame[cur] = "reserved"
      BY <1>2, <3>3, OwnFacts DEF Phase
    <3> QED BY <1>1, <2>1, <3>1, <3>2, <3>4, WindowFacts DEF Phase
  <2>4. \/ \E l \in Code(cur) : s = <<Frame(l, TRUE)>>
        \/ s = <<Frame("user", TRUE), Frame("syscall", FALSE)>>
    <3>1. "user" \in Code(cur)
      BY <1>2 DEF Code
    <3> QED BY <3>1, TypeFacts DEF Context, Code
  <2> QED BY <2>2, <2>3, <2>4
<1>3. \A p \in Process \ {cur} : UNCHANGED <<stack[p], selfKStack[p], ticks[p], window[p]>>
                                 /\ frame'[p] = frame[p]
  BY <1>1, TypeFacts
<1> QED BY <1>1, <1>2, <1>3, OwnWindow

(***************************************************************************)
(* A switch leaves a process that is through the window; the one that gets *)
(* the CPU has not run yet, or is through it.                              *)
(***************************************************************************)
LEMMA SwitchWindow ==
  ASSUME Inv, WindowInv, NEW st, st = status \/ Blocks(st),
         NEW stacks \in [Thread -> Seq(Frames)],
         \A t \in Thread \ {cur} : stacks[t] = stack[t],
         NEW label \in {"intrExit", "woken"}, Context(cur, label, stacks[cur]),
         NEW left \in [Thread -> 0 .. 255], \A t \in Thread \ {cur} : left[t] = ticks[t],
         Reschedule(st, stacks, label, left), UNCHANGED <<frame, window>>,
         cur \in Process => frame[cur] = "reserved" /\ stacks[cur] # InWindow
  PROVE  WindowInv'
<1> DEFINE saved == [stacks EXCEPT ![cur] = Append(@, Frame(label, FALSE))]
<1>1. /\ S!schedule(heap, st) /\ ticks' = Quantum(left, st)
      /\ selfKStack' = [selfKStack EXCEPT ![cur] = "saved"]
      /\ at' = Last(saved[cur']).at /\ stack' = [saved EXCEPT ![cur'] = Front(@)]
  BY DEF Reschedule, switchTo
<1>2. /\ cur' \in Thread /\ status[cur] = "running"
      /\ cur' = cur \/ status[cur'] = "ready"
      /\ \A t \in Thread : status'[t] = "unborn" <=> status[t] = "unborn"
  <2>1. /\ ThreadsInv'
        /\ cur' = cur \/ status[cur'] = "ready"
        /\ \A t \in Thread : status'[t] = "unborn" <=> status[t] = "unborn"
    BY <1>1, ScheduleSteps DEF Inv
  <2> QED BY <2>1 DEF Inv, ThreadsInv
<1>3. Frame(label, FALSE) \in Frames /\ Frame(label, FALSE).at = label /\ label \in Label
  BY IsFrame DEF Label
<1>4. /\ Append(stacks[cur], Frame(label, FALSE)) \in Seq(Frames)
      /\ Last(Append(stacks[cur], Frame(label, FALSE))) = Frame(label, FALSE)
      /\ Front(Append(stacks[cur], Frame(label, FALSE))) = stacks[cur]
  BY <1>3, FrameFacts, TypeFacts
<1>5. /\ saved \in [Thread -> Seq(Frames)] /\ Last(saved[cur]).at = label
      /\ Front(saved[cur]) = stacks[cur]
      /\ \A t \in Thread \ {cur} : saved[t] = stack[t]
  BY <1>3, <1>4, TypeFacts
<1> HIDE DEF saved
<1>6. /\ stack'[cur'] = Front(saved[cur'])
      /\ \A t \in Thread \ {cur'} : stack'[t] = saved[t]
  BY <1>1, <1>2, <1>5
<1>7. ticks' = [ticks' EXCEPT ![cur] = ticks'[cur]]
      /\ \A t \in Thread \ {cur} : ticks'[t] = ticks[t] /\ selfKStack'[t] = selfKStack[t]
  <2>1. cur \in Thread /\ selfKStack \in [Thread -> {"created", "saved"}]
    BY TypeFacts
  <2>2. \A t \in Thread \ {cur} : selfKStack'[t] = selfKStack[t]
    BY <1>1, <2>1
  <2>3. ticks' = [t \in Thread |-> ticks'[t]]
    BY <1>1, <2>1 DEF Quantum
  <2>4. \A t \in Thread \ {cur} : ticks'[t] = left[t]
    BY <1>1, <2>1 DEF Quantum
  <2> QED BY <2>1, <2>2, <2>3, <2>4
<1>8. ASSUME NEW p \in Process
      PROVE  /\ frame'[p] \in {"none", "reserved"}
             /\ status'[p] = "unborn" => selfKStack'[p] = "created" /\ window'[p] = 0
             /\ p = cur' => Phase(p, at, stack[p])'
             /\ p # cur' /\ status'[p] # "unborn" => Away(p)'
  <2>1. p \in Thread
    BY TypeFacts
  <2>2. CASE p = cur
    <3>1. frame'[p] = "reserved" /\ Front(saved[p]) # InWindow
          /\ Last(saved[p]).at \notin {"kernelThread", "func"}
      BY <1>5, <2>2
    <3> QED BY <1>1, <1>2, <1>6, <2>1, <2>2, <3>1 DEF Phase, Away
  <2>3. CASE p # cur
    <3>1. /\ frame[p] \in {"none", "reserved"}
          /\ status[p] = "unborn" => selfKStack[p] = "created" /\ window[p] = 0
          /\ status[p] # "unborn" => Away(p)
      BY <2>3 DEF WindowInv
    <3>2. /\ ticks'[p] = ticks[p] /\ selfKStack'[p] = selfKStack[p] /\ saved[p] = stack[p]
      BY <1>5, <1>7, <2>1, <2>3
    <3>3. CASE p = cur'
      <4>1. status[p] # "unborn"
        BY <1>2, <2>3, <3>3
      <4>2. at' = Last(stack[p]).at /\ stack'[p] = Front(stack[p])
        BY <1>1, <1>6, <3>2, <3>3
      <4>3. CASE at' \in {"kernelThread", "func"}
        <5>1. /\ selfKStack[p] = "created" /\ (at' = "kernelThread" => window[p] = 0)
              /\ ticks[p] = priority[p] - window[p]
                            + (IF Last(stack[p]).at = "entry" THEN 1 ELSE 0)
          BY <3>1, <4>1, <4>2, <4>3 DEF Away, Phase
        <5> QED BY <1>2, <3>1, <3>2, <3>3, <4>2, <4>3, <5>1 DEF Phase
      <4>4. CASE at' \notin {"kernelThread", "func"}
        <5>1. frame[p] = "reserved" /\ stack'[p] # InWindow
          BY <3>1, <4>1, <4>2, <4>4 DEF Away, Phase
        <5> QED BY <1>2, <3>1, <3>2, <3>3, <4>2, <4>4, <5>1 DEF Phase
      <4> QED BY <4>3, <4>4
    <3>4. CASE p # cur'
      <4>1. stack'[p] = stack[p]
        BY <1>6, <2>1, <3>2, <3>4
      <4> QED BY <1>2, <2>1, <3>1, <3>2, <3>4, <4>1 DEF Away, Phase
    <3> QED BY <3>3, <3>4
  <2> QED BY <2>2, <2>3
<1> QED BY <1>8 DEF WindowInv

LEMMA TimerWindow ==
  ASSUME LongQuanta, Inv, WindowInv, panic = "none", intrTimerHandler PROVE WindowInv'
<1> DEFINE left == [ticks EXCEPT ![cur] = uint8(@ - 1)]
<1>1. at = "entry" /\ UNCHANGED <<frame, window>>
  BY DEF intrTimerHandler
<1>2. ticks[cur] \in 0 .. 255 /\ left[cur] = (ticks[cur] - 1) % 256
      /\ left[cur] \in 0 .. 255
  <2>1. ticks[cur] \in 0 .. 255 /\ left[cur] = (ticks[cur] - 1) % 256
    BY TypeFacts DEF uint8
  <2>2. \A n \in Int : n % 256 \in 0 .. 255
    OBVIOUS
  <2> QED BY <2>1, <2>2
<1>3. left \in [Thread -> 0 .. 255] /\ \A t \in Thread \ {cur} : left[t] = ticks[t]
  BY <1>2, TypeFacts
(* In the window the quantum is not used up. *)
<1>4. ASSUME cur \in Process, stack[cur] = InWindow
      PROVE  /\ selfKStack[cur] = "created" /\ left[cur] = priority[cur] - window[cur] + 0
             /\ left[cur] # 0
  <2>1. /\ selfKStack[cur] = "created" /\ ticks[cur] = priority[cur] - window[cur] + 1
    BY <1>1, <1>4, OwnFacts DEF Phase
  <2>2. /\ window[cur] \in 0 .. WindowTicks /\ WindowTicks \in Nat
        /\ priority[cur] \in 1 .. 255 /\ priority[cur] > WindowTicks
    BY <1>4, InterruptsAssumption, TypeFacts DEF LongQuanta
  <2>3. PICK w \in Nat, p \in Nat : w = window[cur] /\ p = priority[cur] /\ w < p /\ p < 256
    BY <2>2
  <2>4. (p - w) % 256 = p - w /\ p - w # 0
    BY <2>3
  <2>5. ticks[cur] - 1 = p - w
    BY <2>1, <2>3
  <2> HIDE DEF left
  <2> QED BY <1>2, <2>1, <2>3, <2>4, <2>5
<1>5. CASE left[cur] = 0
  <2>1. Reschedule(status, stack, "intrExit", left)
    BY <1>5 DEF intrTimerHandler
  <2>2. Context(cur, "intrExit", stack[cur])
    BY <1>1, TypeFacts DEF Context, Code
  <2>3. cur \in Process => frame[cur] = "reserved" /\ stack[cur] # InWindow
    BY <1>1, <1>4, <1>5, OwnFacts DEF Phase
  <2> HIDE DEF left
  <2> QED BY <1>1, <1>3, <2>1, <2>2, <2>3, TypeFacts, SwitchWindow
<1>6. CASE left[cur] # 0
  <2>1. /\ at' = "intrExit" /\ ticks' = left
        /\ UNCHANGED <<status, cur, stack, selfKStack>>
    BY <1>6 DEF intrTimerHandler, threadVars
  <2> HIDE DEF left
  <2>2. ASSUME cur \in Process
        PROVE  frame'[cur] \in {"none", "reserved"} /\ Phase(cur, at, stack[cur])'
    <3>1. CASE stack[cur] = InWindow
      BY <1>1, <1>4, <2>1, <2>2, <3>1, OwnFacts DEF Phase
    <3>2. CASE stack[cur] # InWindow
      BY <1>1, <2>1, <2>2, <3>2, OwnFacts DEF Phase
    <3> QED BY <3>1, <3>2
  <2>3. \A p \in Process \ {cur} : UNCHANGED <<stack[p], selfKStack[p], ticks[p], window[p]>>
                                   /\ frame'[p] = frame[p]
    BY <1>1, <1>3, <2>1, TypeFacts
  <2> QED BY <2>1, <2>2, <2>3, OwnWindow
<1> QED BY <1>5, <1>6

LEMMA BlockWindow == ASSUME Inv, WindowInv, panic = "none", threadBlock PROVE WindowInv'
<1> DEFINE s == Append(stack[cur], Frame(at, eflagsIF))
           stacks == [stack EXCEPT ![cur] = s]
           st == [status EXCEPT ![cur] = "blocked"]
<1>1. /\ at \in {"run", "syscall", "getPage"} /\ cur # Main
      /\ Reschedule(st, stacks, "woken", ticks) /\ UNCHANGED <<frame, window>>
  BY DEF threadBlock, Push
<1>2. /\ s \in Seq(Frames) /\ Context(cur, "woken", s)
      /\ cur \in Process => s # InWindow /\ frame[cur] = "reserved"
  <2>1. /\ s \in Seq(Frames) /\ Context(cur, "woken", s)
        /\ IF at = "syscall" THEN s = <<Frame("user", TRUE), Frame("syscall", FALSE)>>
                             ELSE s = <<Frame(at, TRUE)>> /\ at \in Code(cur)
    BY <1>1, BlockContext
  <2> HIDE DEF s
  <2>2. s # InWindow
    BY <1>1, <2>1, WindowFacts DEF Label, On
  <2>3. cur \in Process => at \in {"syscall", "getPage"}
    BY <1>1, <2>1 DEF Code
  <2> QED BY <2>1, <2>2, <2>3, OwnFacts
<1> HIDE DEF s
<1>3. /\ stacks \in [Thread -> Seq(Frames)] /\ stacks[cur] = s
      /\ \A t \in Thread \ {cur} : stacks[t] = stack[t]
  BY <1>2, TypeFacts
<1>4. Blocks(st)
  BY <1>1 DEF Blocks
<1> HIDE DEF stacks, st
<1> QED BY <1>1, <1>2, <1>3, <1>4, TypeFacts, SwitchWindow

LEMMA CreateWindow ==
  ASSUME Inv, WindowInv, panic = "none", NEW t \in Thread, createThread(t)
  PROVE  WindowInv'
<1>1. /\ at = "boot" /\ S!threadStart(t) /\ stack' = Push(t, Frame("kernelThread", FALSE))
      /\ ticks' = [ticks EXCEPT ![t] = priority[t]]
      /\ UNCHANGED <<at, selfKStack, frame, window>>
  BY DEF createThread
<1>2. /\ cur = Main /\ cur' = cur /\ status[t] = "unborn" /\ t # cur /\ stack[t] = <<>>
      /\ \A u \in Thread : u # t => status'[u] = status[u]
  <2>1. cur = Main
    BY <1>1, TypeFacts DEF Context, Code
  <2>2. status[t] = "unborn" /\ cur' = cur /\ status' = [status EXCEPT ![t] = "ready"]
    BY <1>1 DEF S!threadStart
  <2> QED BY <2>1, <2>2, TypeFacts DEF Inv, ThreadsInv, StackInv, Waits
<1>3. Frame("kernelThread", FALSE) \in Frames
      /\ Frame("kernelThread", FALSE).at = "kernelThread"
  BY IsFrame DEF Label
<1>4. /\ Last(stack'[t]) = Frame("kernelThread", FALSE) /\ Front(stack'[t]) = <<>>
      /\ \A u \in Thread \ {t} : stack'[u] = stack[u]
  <2>1. PICK g \in Seq(Frames) : g = Append(<<>>, Frame("kernelThread", FALSE))
    BY <1>3, OneFrame
  <2>2. stack' = [stack EXCEPT ![t] = g]
    BY <1>1, <1>2, <2>1 DEF Push
  <2> QED BY <1>3, <2>1, <2>2, OneFrame, TypeFacts
<1>5. ASSUME NEW p \in Process
      PROVE  /\ frame'[p] \in {"none", "reserved"}
             /\ status'[p] = "unborn" => selfKStack'[p] = "created" /\ window'[p] = 0
             /\ p = cur' => Phase(p, at, stack[p])'
             /\ p # cur' /\ status'[p] # "unborn" => Away(p)'
  <2>1. p \in Thread /\ p # cur'
    BY <1>2, TypeFacts
  <2>2. CASE p = t
    <3>1. frame[p] \in {"none", "reserved"} /\ selfKStack[p] = "created" /\ window[p] = 0
      BY <1>2, <2>2 DEF WindowInv
    <3>2. ticks'[p] = priority[p] - window[p] + 0
      <4>1. ticks'[p] = priority[p] /\ priority[p] \in 1 .. 255
        BY <1>1, <2>2, TypeFacts
      <4> QED BY <3>1, <4>1
    <3> QED BY <1>1, <1>3, <1>4, <2>1, <2>2, <3>1, <3>2, WindowFacts DEF Away, Phase
  <2>3. CASE p # t
    <3>1. ticks'[p] = ticks[p] /\ stack'[p] = stack[p] /\ status'[p] = status[p]
      BY <1>1, <1>2, <1>4, <2>1, <2>3, TypeFacts
    <3> QED BY <1>1, <1>2, <2>1, <3>1 DEF WindowInv, Away, Phase
  <2> QED BY <2>2, <2>3
<1> QED BY <1>5 DEF WindowInv

LEMMA UnblockWindow ==
  ASSUME Inv, WindowInv, panic = "none", NEW p \in Thread, threadUnblock(p)
  PROVE  WindowInv'
<1>1. /\ status[p] = "blocked" /\ S!threadUnblock(p)
      /\ UNCHANGED <<at, stack, selfKStack, frame, ticks, window>>
  BY DEF threadUnblock, stackVars
<1>2. /\ cur' = cur
      /\ \A t \in Thread : status'[t] = "unborn" <=> status[t] = "unborn"
  <2>1. cur' = cur /\ (status' = [status EXCEPT ![p] = "ready"] \/ status' = status)
    BY <1>1 DEF S!threadUnblock
  <2> QED BY <1>1, <2>1 DEF Inv, ThreadsInv
<1>3. Process \subseteq Thread
  BY TypeFacts
<1> QED BY <1>1, <1>2, <1>3 DEF WindowInv, Away, Phase

LEMMA PlainWindow ==
  ASSUME Inv, WindowInv, panic = "none",
         mainEnable \/ Pit \/ kernelThread \/ startProcess \/ startUser \/ syscallHandler
  PROVE  WindowInv' /\ panic' = "none"
<1>1. ASSUME UNCHANGED <<status, cur, selfKStack, ticks, window>>,
             \A p \in Process \ {cur} : stack'[p] = stack[p] /\ frame'[p] = frame[p],
             cur \in Process => frame'[cur] \in {"none", "reserved"}
               /\ Phase(cur, at, stack[cur])'
      PROVE  WindowInv'
  BY <1>1, OwnWindow
<1>2. <<>> # InWindow /\ <<Frame("user", TRUE)>> # InWindow
  BY WindowFacts DEF Label, On
<1>3. CASE mainEnable
  <2>1. /\ at = "boot"
        /\ UNCHANGED <<status, cur, panic, stack, selfKStack, frame, ticks, window>>
    BY <1>3 DEF mainEnable, threadVars, stackVars
  <2>2. cur \notin Process
    BY <2>1, TypeFacts DEF Context, Code
  <2> QED BY <1>1, <2>1, <2>2
<1>4. CASE Pit
  <2>1. UNCHANGED <<status, cur, panic, at, stack, selfKStack, frame, ticks, window>>
    BY <1>4 DEF Pit, threadVars, stackVars
  <2> QED BY <1>1, <2>1, OwnFacts DEF Phase
<1>5. CASE kernelThread
  <2>1. /\ at = "kernelThread" /\ at' = IF cur \in Process THEN "func" ELSE "run"
        /\ UNCHANGED <<status, cur, panic, stack, selfKStack, frame, ticks, window>>
    BY <1>5 DEF kernelThread, threadVars, stackVars
  <2> QED BY <1>1, <2>1, OwnFacts DEF Phase
<1>6. CASE startProcess
  <2>1. /\ at = "func" /\ at' = "getPage"
        /\ frame' = [frame EXCEPT ![cur] = IF selfKStack[cur] = "created" THEN "reserved"
                                           ELSE "stale"]
        /\ UNCHANGED <<status, cur, panic, stack, selfKStack, ticks, window>>
    BY <1>6 DEF startProcess, threadVars
  <2>2. stack[cur] = <<>> /\ cur \in Process
    BY <2>1, TypeFacts, InCode DEF Code, On
  <2>3. selfKStack[cur] = "created"
    BY <2>1, <2>2, OwnFacts DEF Phase
  <2>4. frame'[cur] = "reserved" /\ \A p \in Process \ {cur} : frame'[p] = frame[p]
    BY <2>1, <2>2, <2>3, TypeFacts
  <2>5. Phase(cur, at, stack[cur])'
    BY <1>2, <2>1, <2>2, <2>4 DEF Phase
  <2> QED BY <1>1, <2>1, <2>4, <2>5
<1>7. CASE startUser
  <2>1. at = "getPage"
    BY <1>7 DEF startUser
  <2>2. cur \in Process
    BY <2>1, TypeFacts, InCode DEF Code, On
  <2>3. frame[cur] = "reserved"
    BY <2>1, <2>2, OwnFacts
  <2>4. /\ at' = "user" /\ stack' = [stack EXCEPT ![cur] = <<>>]
        /\ UNCHANGED <<status, cur, panic, selfKStack, frame, ticks, window>>
    BY <1>7, <2>3 DEF startUser
  <2>5. stack'[cur] = <<>> /\ \A p \in Process \ {cur} : stack'[p] = stack[p]
    BY <2>4, TypeFacts
  <2>6. Phase(cur, at, stack[cur])'
    BY <1>2, <2>3, <2>4, <2>5 DEF Phase
  <2> QED BY <1>1, <2>3, <2>4, <2>5, <2>6
<1>8. CASE syscallHandler
  <2>1. at = "user" /\ at \in On /\ Enter("syscall") /\ window' = window
    BY <1>8 DEF syscallHandler, On
  <2>2. cur \in Process
    BY <2>1, TypeFacts, InCode DEF Code
  <2>3. frame[cur] = "reserved"
    BY <2>1, <2>2, OwnFacts
  <2>4. /\ UNCHANGED <<heap, status, cur, panic>>
        /\ stack' = [stack EXCEPT ![cur] = <<Frame(at, TRUE)>>]
    BY <2>1, EnterStep, TypeFacts
  <2>5. at' = "syscall" /\ UNCHANGED <<selfKStack, frame, ticks>>
    BY <2>1 DEF Enter
  <2>6. /\ stack'[cur] = <<Frame("user", TRUE)>>
        /\ \A p \in Process \ {cur} : stack'[p] = stack[p]
    BY <2>1, <2>4, TypeFacts
  <2>7. Phase(cur, at, stack[cur])'
    BY <1>2, <2>3, <2>4, <2>5, <2>6 DEF Phase
  <2> QED BY <1>1, <2>1, <2>3, <2>4, <2>5, <2>6, <2>7
<1> QED BY <1>3, <1>4, <1>5, <1>6, <1>7, <1>8

LEMMA WindowNext ==
  ASSUME LongQuanta, Inv, WindowInv, Next
  PROVE  WindowInv' /\ panic' = "none"
<1>1. panic = "none"
  BY DEF Next
<1>2. ASSUME NEW t \in Thread, createThread(t) PROVE WindowInv'
  BY <1>1, <1>2, CreateWindow
<1>3. ASSUME mainEnable \/ Pit \/ kernelThread \/ startProcess \/ startUser
        \/ syscallHandler
      PROVE  WindowInv' /\ panic' = "none"
  BY <1>1, <1>3, PlainWindow
<1>4. ASSUME Interrupt PROVE WindowInv'
  BY <1>1, <1>4, InterruptWindow
<1>5. ASSUME intrTimerHandler PROVE WindowInv'
  BY <1>1, <1>5, TimerWindow
<1>6. ASSUME intrExit \/ threadWoken \/ syscallReturn PROVE WindowInv'
  <2>1. at \in {"intrExit", "woken", "syscall"} /\ Resume
    BY <1>6 DEF intrExit, threadWoken, syscallReturn
  <2> QED BY <1>1, <2>1, ResumeWindow
<1>7. ASSUME threadBlock PROVE WindowInv'
  BY <1>1, <1>7, BlockWindow
<1>8. ASSUME NEW p \in Thread, threadUnblock(p) PROVE WindowInv'
  BY <1>1, <1>8, UnblockWindow
<1>9. startUser \/ panic' = "none"
  BY NextSteps
<1>10. WindowInv'
  BY <1>2, <1>3, <1>4, <1>5, <1>6, <1>7, <1>8 DEF Next
<1> QED BY <1>3, <1>9, <1>10

LEMMA WindowKept ==
  ASSUME LongQuanta
  PROVE  Spec => [](Inv /\ WindowInv /\ panic = "none")
<1>1. Init => WindowInv /\ panic = "none"
  <2>1. ASSUME Init PROVE WindowInv /\ panic = "none"
    <3>1. /\ panic = "none" /\ cur = Main
          /\ status = [t \in Thread |-> IF t = Main THEN "running" ELSE "unborn"]
          /\ selfKStack = [t \in Thread |-> "created"]
          /\ frame = [t \in Process |-> "none"] /\ window = [t \in Process |-> 0]
      BY <2>1 DEF Init, S!ThreadsInit
    <3>2. Process \subseteq Thread \ {Main}
      BY InterruptsAssumption
    <3> QED BY <3>1, <3>2 DEF WindowInv
  <2> QED BY <2>1
<1>2. Inv /\ WindowInv /\ panic = "none" /\ [Next]_vars
        => (WindowInv /\ panic = "none")'
  <2>1. ASSUME Inv, WindowInv, panic = "none", UNCHANGED vars
        PROVE  WindowInv' /\ panic' = "none"
    BY <2>1 DEF vars, threadVars, stackVars, WindowInv, Away, Phase
  <2> QED BY <2>1, WindowNext
<1> QED BY StacksFit, <1>1, <1>2, PTL DEF Spec

(***************************************************************************)
(* startProcess finds the place that threadCreate has reserved, and the    *)
(* kernel never stops, if the quantum of a process outlasts its window.    *)
(***************************************************************************)
THEOREM ContextFound ==
  ASSUME LongQuanta PROVE Spec => [](InitialContext /\ panic = "none")
<1>1. Inv /\ WindowInv /\ panic = "none" => InitialContext /\ panic = "none"
  BY DEF InitialContext
<1> QED BY WindowKept, <1>1, PTL

(***************************************************************************)
(* switchTo saves no flag, and yet each thread finds the one it had: what  *)
(* the modules above take for granted of the Scheduler.                    *)
(***************************************************************************)
THEOREM SchedulerImplemented == ASSUME LongQuanta PROVE Spec => ImplementsScheduler
<1> DEFINE flags == [t \in Thread |-> Flag(t)]
<1>1. Init => S!ThreadsInit
  BY DEF Init
<1>2. ASSUME Inv, Next, panic' = "none" PROVE S!Next \/ UNCHANGED S!vars
  <2>1. AbstractStep /\ panic = "none" /\ cur \in Thread
    BY <1>2, NextSteps, TypeFacts DEF Next
  <2>2. FlagsKept => flags' = flags
    BY DEF FlagsKept
  <2>3. flags[cur] = Flag(cur)
    BY <2>1
  <2>4. ASSUME FlagFlips, cur' = cur PROVE flags' = [flags EXCEPT ![cur] = ~ @]
    <3>1. ASSUME NEW t \in Thread
          PROVE  flags'[t] = IF t = cur THEN ~ flags[cur] ELSE flags[t]
      <4>1. flags[t] = Flag(t) /\ flags'[t] = Flag(t)'
        OBVIOUS
      <4>2. CASE t = cur
        <5>1. Flag(t)' = ~ Flag(cur)
          BY <2>4, <4>2 DEF FlagFlips
        <5> QED BY <2>3, <4>1, <4>2, <5>1, Zenon
      <4>3. CASE t # cur
        BY <2>4, <4>1, <4>3, Zenon DEF FlagFlips
      <4> QED BY <4>2, <4>3
    <3>2. [flags EXCEPT ![cur] = ~ @] = [t \in Thread |-> IF t = cur THEN ~ flags[cur] ELSE flags[t]]
      BY Zenon
    <3>3. flags' = [t \in Thread |-> flags'[t]]
      OBVIOUS
    <3> QED BY <3>1, <3>2, <3>3, Zenon
  <2>5. CASE cur = Main /\ Flag(cur) = FALSE /\ FlagsKept
          /\ \E t \in Thread : S!threadStart(t)
    <3>1. S!Start
      BY <2>2, <2>3, <2>5 DEF S!Start
    <3> QED BY <3>1 DEF S!Next
  <2>6. CASE FlagsKept /\ S!schedule(heap, [status EXCEPT ![cur] = "blocked"])
    <3>1. S!Sleep
      BY <2>2, <2>6 DEF S!Sleep
    <3> QED BY <3>1 DEF S!Next
  <2>7. CASE FlagsKept /\ \E p \in Thread : S!threadUnblock(p)
    <3>1. S!Wake
      BY <2>2, <2>7 DEF S!Wake
    <3> QED BY <3>1 DEF S!Next
  <2>8. CASE Flag(cur) = TRUE /\ FlagsKept /\ S!schedule(heap, status)
    <3>1. S!TimerPreempts
      BY <2>1, <2>2, <2>3, <2>8 DEF S!TimerPreempts
    <3> QED BY <3>1 DEF S!Next
  <2>9. CASE UNCHANGED <<heap, status, cur, panic>> /\ FlagFlips
    <3>1. S!SetFlag
      BY <2>4, <2>9 DEF S!SetFlag, S!schedVars
    <3> QED BY <3>1 DEF S!Next
  <2>10. CASE UNCHANGED <<heap, status, cur>> /\ FlagsKept /\ panic' = panic
    BY <2>2, <2>10 DEF S!vars, S!schedVars
  <2> QED BY <1>2, <2>1, <2>5, <2>6, <2>7, <2>8, <2>9, <2>10 DEF AbstractStep
<1>3. ASSUME UNCHANGED vars PROVE UNCHANGED S!vars
  BY <1>3 DEF vars, threadVars, stackVars, S!vars, S!schedVars, Flag
<1>4. Inv /\ [Next]_vars /\ (panic = "none")' => [S!Next]_(S!vars)
  BY <1>2, <1>3
<1> QED BY WindowKept, <1>1, <1>4, PTL DEF Spec, S!Spec, ImplementsScheduler
-----------------------------------------------------------------------------
(***************************************************************************)
(* How long a ready thread waits.  Each tick in which t is ready uses up   *)
(* one tick of the quantum of another thread that is ahead of t: running,  *)
(* asleep, in which case it may be woken and goes first, or before t in    *)
(* the ready list.  Whoever has used up its quantum is behind t.           *)
(***************************************************************************)
Before(q, u, t) == \E i, j \in 1 .. Len(q) : i < j /\ q[i] = u /\ q[j] = t

Ahead(q, u, t) == status[u] \in {"running", "blocked"} \/ Before(q, u, t)

(* The ticks that t may still have to wait for. *)
Left(q, t) == {s \in Quanta(t) : s[2] <= ticks[s[1]] /\ Ahead(q, s[1], t)}

TicksOK == \A t \in Thread : ticks[t] \in 1 .. priority[t] /\ waited[t] \in Nat

(* With the ready list q: what t has waited and may have to, together. *)
WaitOK(q) ==
  \A t \in Thread :
    IF status[t] = "ready" THEN waited[t] + Cardinality(Left(q, t)) <= Cardinality(Quanta(t))
    ELSE waited[t] = 0

WaitInv == TicksOK /\ \E Q : TP!Agree(Q) /\ WaitOK(Q[threadReadyList])

(* A quantum as a set of ticks, counted from 1. *)
LEMMA QuantaFacts ==
  ASSUME NEW t \in Thread
  PROVE  /\ \A s : s \in Quanta(t) <=> s \in Thread \X Int /\ s[1] # t
                                      /\ 1 <= s[2] /\ s[2] <= priority[s[1]]
         /\ IsFiniteSet(Quanta(t))
<1>1. \A u \in Thread : priority[u] \in Int
  BY InterruptsAssumption
<1>2. \A s : s \in Quanta(t) <=> s \in Thread \X Int /\ s[1] # t
                                /\ 1 <= s[2] /\ s[2] <= priority[s[1]]
  BY <1>1 DEF Quanta
<1>3. PICK n \in Int : n = 255
  OBVIOUS
<1>4. \A u \in Thread : priority[u] <= n
  BY <1>3, InterruptsAssumption
<1>5. Quanta(t) \subseteq Thread \X (1 .. n)
  BY <1>1, <1>2, <1>4
<1>6. IsFiniteSet(Thread)
  BY ListAssumption DEF TP!ThreadAssumption, TP!IsFiniteSet, IsFiniteSet
<1>7. IsFiniteSet(1 .. n)
  BY FS_Interval
<1>8. IsFiniteSet(Thread \X (1 .. n))
  BY <1>6, <1>7, FS_Product
<1> QED BY <1>2, <1>5, <1>8, FS_Subset

(* A step after which fewer ticks are left to those who are ready still,   *)
(* fewer by one at least in a tick.                                        *)
LEMMA WaitStep ==
  ASSUME TicksOK, NEW q, WaitOK(q), NEW r, NEW n \in {0, 1}, Waiting(n),
         \A t \in Thread : ticks'[t] \in 1 .. priority[t],
         \A t \in Thread : status[t] = "ready" /\ status'[t] = "ready" =>
           /\ Left(r, t)' \subseteq Left(q, t)
           /\ n = 1 => \E s \in Left(q, t) : s \notin Left(r, t)'
  PROVE  TicksOK' /\ WaitOK(r)'
<1>1. ASSUME NEW t \in Thread
      PROVE  /\ IsFiniteSet(Quanta(t)) /\ Left(q, t) \subseteq Quanta(t)
             /\ Left(r, t)' \subseteq Quanta(t)
             /\ waited'[t] = IF status[t] = "ready" /\ status'[t] = "ready"
                             THEN waited[t] + n ELSE 0
  BY QuantaFacts DEF Left, Waiting, Quanta
<1>2. ASSUME NEW A, NEW B, IsFiniteSet(B), A \subseteq B
      PROVE  /\ Cardinality(A) \in Nat /\ Cardinality(B) \in Nat
             /\ Cardinality(A) <= Cardinality(B)
             /\ A # B => Cardinality(A) < Cardinality(B)
  BY <1>2, FS_Subset, FS_CardinalityType
<1>3. TicksOK'
  BY <1>1 DEF TicksOK
<1>4. ASSUME NEW t \in Thread, status'[t] = "ready"
      PROVE  waited'[t] + Cardinality(Left(r, t)') <= Cardinality(Quanta(t))
  <2>1. CASE status[t] # "ready"
    <3>1. waited'[t] = 0
      BY <1>1, <2>1
    <3> QED BY <1>1, <1>2, <3>1
  <2>2. CASE status[t] = "ready"
    <3>1. waited'[t] = waited[t] + n /\ waited[t] \in Nat
      BY <1>1, <1>4, <2>2 DEF TicksOK
    <3>2. waited[t] + Cardinality(Left(q, t)) <= Cardinality(Quanta(t))
      BY <2>2 DEF WaitOK
    <3>3. IsFiniteSet(Left(q, t)) /\ Cardinality(Quanta(t)) \in Nat
      BY <1>1, <1>2, FS_Subset
    <3>4. /\ Cardinality(Left(q, t)) \in Nat /\ Cardinality(Left(r, t)') \in Nat
          /\ Cardinality(Left(r, t)') + n <= Cardinality(Left(q, t))
      <4>1. Left(r, t)' \subseteq Left(q, t) /\ (n = 1 => Left(r, t)' # Left(q, t))
        BY <1>4, <2>2
      <4> QED BY <1>2, <3>3, <4>1
    <3> QED BY <3>1, <3>2, <3>3, <3>4
  <2> QED BY <2>1, <2>2
<1>5. ASSUME NEW t \in Thread, status'[t] # "ready" PROVE waited'[t] = 0
  BY <1>1, <1>5
<1>6. \A t \in Thread : Quanta(t)' = Quanta(t)
  BY DEF Quanta
<1> QED BY <1>3, <1>4, <1>5, <1>6 DEF WaitOK

(* Where a thread stands after the ready list has changed. *)
LEMMA BeforeAfter ==
  ASSUME NEW q \in Seq(Thread), NEW p \in Thread, NEW u, NEW t, t # p
  PROVE  /\ Before(Append(q, p), u, t) => Before(q, u, t)
         /\ Before(<<p>> \o q, u, t) => u = p \/ Before(q, u, t)
         /\ Len(q) # 0 /\ Before(Tail(q), u, t) => Before(q, u, t)
<1>1. PICK n \in Nat : n = Len(q)
  OBVIOUS
<1>2. ASSUME Before(Append(q, p), u, t) PROVE Before(q, u, t)
  <2>1. /\ Len(Append(q, p)) = n + 1 /\ Append(q, p)[n + 1] = p
        /\ \A i \in 1 .. n : Append(q, p)[i] = q[i]
    BY <1>1
  <2>2. PICK i, j \in 1 .. n + 1 : i < j /\ Append(q, p)[i] = u /\ Append(q, p)[j] = t
    BY <1>2, <2>1 DEF Before
  <2>3. j # n + 1
    BY <2>1, <2>2
  <2>4. i \in 1 .. n /\ j \in 1 .. n
    BY <2>2, <2>3
  <2> QED BY <1>1, <2>1, <2>2, <2>4 DEF Before
<1>3. ASSUME Before(<<p>> \o q, u, t), u # p PROVE Before(q, u, t)
  <2>1. /\ Len(<<p>> \o q) = n + 1 /\ (<<p>> \o q)[1] = p
        /\ \A i \in 2 .. n + 1 : (<<p>> \o q)[i] = q[i - 1]
    BY <1>1
  <2>2. PICK i, j \in 1 .. n + 1 : i < j /\ (<<p>> \o q)[i] = u /\ (<<p>> \o q)[j] = t
    BY <1>3, <2>1 DEF Before
  <2>3. i # 1 /\ j # 1
    BY <1>3, <2>1, <2>2
  <2>4. i - 1 \in 1 .. n /\ j - 1 \in 1 .. n /\ i - 1 < j - 1
        /\ q[i - 1] = u /\ q[j - 1] = t
    BY <2>1, <2>2, <2>3
  <2> QED BY <1>1, <2>4 DEF Before
<1>4. ASSUME Len(q) # 0, Before(Tail(q), u, t) PROVE Before(q, u, t)
  <2>1. /\ Len(Tail(q)) = n - 1
        /\ \A i \in 1 .. n - 1 : Tail(q)[i] = q[i + 1]
    BY <1>1, <1>4
  <2>2. PICK i, j \in 1 .. n - 1 : i < j /\ Tail(q)[i] = u /\ Tail(q)[j] = t
    BY <1>4, <2>1 DEF Before
  <2>3. i + 1 \in 1 .. n /\ j + 1 \in 1 .. n /\ i + 1 < j + 1
        /\ q[i + 1] = u /\ q[j + 1] = t
    BY <2>1, <2>2
  <2> QED BY <1>1, <2>3 DEF Before
<1> QED BY <1>2, <1>3, <1>4

(* Whoever yields stands behind all that are in the list. *)
LEMMA LastIsBehind ==
  ASSUME NEW q \in Seq(Thread), NEW p \in Thread \ TP!Members(q), NEW t
  PROVE  ~ Before(Append(q, p), p, t)
<1>1. PICK n \in Nat : n = Len(q)
  OBVIOUS
<1>2. /\ Len(Append(q, p)) = n + 1
      /\ \A i \in 1 .. n : Append(q, p)[i] = q[i] /\ q[i] # p
  BY <1>1 DEF TP!Members
<1> SUFFICES ASSUME NEW i \in 1 .. n + 1, NEW j \in 1 .. n + 1, i < j,
                    Append(q, p)[i] = p
             PROVE  FALSE
  BY <1>2 DEF Before
<1> QED BY <1>2

(* The head of a list is before everybody else in it. *)
LEMMA HeadIsBefore ==
  ASSUME NEW q \in Seq(Thread), NEW u \in TP!Members(q), u \notin TP!Members(Tail(q)),
         NEW t \in TP!Members(q), t # u
  PROVE  Len(q) # 0 /\ Before(q, u, t)
<1>1. PICK n \in Nat : n = Len(q)
  OBVIOUS
<1>2. PICK i \in 1 .. n : q[i] = u
  BY <1>1 DEF TP!Members
<1>3. PICK j \in 1 .. n : q[j] = t
  BY <1>1 DEF TP!Members
<1>4. /\ Len(Tail(q)) = n - 1
      /\ \A k \in 1 .. n - 1 : Tail(q)[k] = q[k + 1]
  BY <1>1, <1>2
<1>5. i = 1
  <2> SUFFICES ASSUME i # 1 PROVE FALSE
    OBVIOUS
  <2>1. i - 1 \in 1 .. n - 1 /\ Tail(q)[i - 1] = u
    BY <1>2, <1>4
  <2> QED BY <1>4, <2>1 DEF TP!Members
<1>6. i < j
  BY <1>2, <1>3, <1>5
<1> QED BY <1>1, <1>2, <1>3, <1>6 DEF Before

(* schedule puts nobody before a thread that is ready, and the thread that *)
(* yields goes behind it.                                                  *)
LEMMA ScheduleAhead ==
  ASSUME Inv, NEW Q, TP!Agree(Q), NEW st, st = status \/ Blocks(st), S!schedule(heap, st)
  PROVE  \E R : /\ TP!Agree(R)'
                /\ \A t \in Thread : status[t] = "ready" /\ status'[t] = "ready" =>
                     \A u \in Thread : Ahead(R[threadReadyList], u, t)' =>
                                         /\ Ahead(Q[threadReadyList], u, t)
                                         /\ st = status => u # cur
<1>1. PICK R : /\ TP!Agree(R)' /\ TP!OnlyReady(Q, R, TP!AfterSchedule(Q, st))
               /\ panic' = "none" /\ TP!Switched(Q, st)
  BY ScheduleFinds DEF Inv
<1>2. PICK q, r : q = Q[threadReadyList] /\ r = R[threadReadyList]
  OBVIOUS
<1>3. /\ q \in Seq(Thread) /\ cur \in Thread /\ status[cur] = "running"
      /\ \A t \in Thread : status[t] = "ready" <=> t \in TP!Members(q)
      /\ \A t \in Thread : status'[t] = "ready" <=> t \in TP!Members(r)
      /\ r = IF st[cur] = "running" THEN Tail(Append(q, cur)) ELSE Tail(q)
  <2>1. Q \in [TP!ListId -> Seq(Thread)] /\ threadReadyList \in TP!ListId
    BY DEF TP!Agree, TP!Lists, TP!ListId
  <2>2. r = TP!AfterSchedule(Q, st)
    BY <1>1, <1>2, <2>1 DEF TP!OnlyReady
  <2> QED BY <1>1, <1>2, <2>1, <2>2 DEF TP!Agree, TP!AfterSchedule, Inv, ThreadsInv
<1>4. /\ cur' \in Thread /\ (cur' = cur \/ status[cur'] = "ready")
      /\ \A t \in Thread :
           status'[t] = IF t = cur' THEN "running"
                        ELSE IF t = cur /\ st[t] = "running" THEN "ready" ELSE st[t]
  BY <1>1 DEF TP!Switched
<1>5. ASSUME NEW t \in Thread, status[t] = "ready", status'[t] = "ready"
      PROVE  \A u \in Thread :
               Ahead(r, u, t)' => Ahead(q, u, t) /\ (st = status => u # cur)
  <2>1. t \in TP!Members(q) /\ t # cur /\ t # cur'
    BY <1>3, <1>4, <1>5
  <2>2. CASE st = status
    <3>1. PICK a : a = Append(q, cur)
      OBVIOUS
    <3>2. PICK n \in Nat : n = Len(q)
      BY <1>3
    <3>3. /\ a \in Seq(Thread) /\ Len(a) = n + 1 /\ a[n + 1] = cur
          /\ \A i \in 1 .. n : a[i] = q[i]
      BY <1>3, <3>1, <3>2
    <3>4. /\ r = Tail(a) /\ cur' \in TP!Members(a) /\ t \in TP!Members(a)
          /\ cur' \notin TP!Members(r)
      <4>1. \A u \in TP!Members(q) \cup {cur} : u \in TP!Members(a)
        BY <3>2, <3>3 DEF TP!Members
      <4> QED BY <1>3, <1>4, <2>1, <2>2, <3>1, <4>1
    <3>5. Len(a) # 0 /\ Before(a, cur', t)
      BY <2>1, <3>3, <3>4, HeadIsBefore
    <3>6. \A u : Before(r, u, t) => Before(a, u, t)
      BY <1>3, <2>1, <3>3, <3>4, <3>5, BeforeAfter
    <3>7. \A u : Before(a, u, t) => Before(q, u, t)
      BY <1>3, <2>1, <3>1, BeforeAfter
    <3>8. ~ Before(a, cur, t)
      <4>1. cur \notin TP!Members(q)
        BY <1>3
      <4> QED BY <1>3, <3>1, <4>1, LastIsBehind
    <3>9. cur' # cur /\ status'[cur] = "ready"
      BY <1>3, <1>4, <2>2, <3>5, <3>8
    <3>10. ASSUME NEW u \in Thread, Ahead(r, u, t)' PROVE Ahead(q, u, t) /\ u # cur
      <4>1. CASE u = cur'
        BY <3>5, <3>7, <3>9, <4>1 DEF Ahead
      <4>2. CASE u # cur'
        <5>1. status'[u] \in {"running", "blocked"} \/ Before(a, u, t)
          BY <3>6, <3>10 DEF Ahead, Before
        <5>2. u # cur
          BY <3>8, <3>9, <5>1
        <5>3. status'[u] = status[u]
          BY <1>4, <2>2, <4>2, <5>2
        <5> QED BY <3>7, <5>1, <5>2, <5>3 DEF Ahead
      <4> QED BY <4>1, <4>2
    <3> QED BY <3>10
  <2>3. CASE st # status
    <3>1. st = [status EXCEPT ![cur] = "blocked"]
      BY <2>3 DEF Blocks
    <3>2. st[cur] # "running" /\ \A u \in Thread : u # cur => st[u] = status[u]
      BY <1>1, <1>3, <3>1 DEF Inv, ThreadsInv
    <3>3. r = Tail(q)
      BY <1>3, <3>2
    <3>4. ASSUME NEW u \in Thread, Ahead(r, u, t)' PROVE Ahead(q, u, t)
      <4>1. CASE u = cur
        BY <1>3, <4>1 DEF Ahead
      <4>2. CASE u = cur' /\ u # cur
        <5>1. cur' \in TP!Members(q) /\ cur' \notin TP!Members(r)
          BY <1>3, <1>4, <4>2
        <5> QED BY <1>3, <2>1, <3>3, <4>2, <5>1, HeadIsBefore DEF Ahead
      <4>3. CASE u # cur' /\ u # cur
        <5>1. status'[u] = status[u]
          BY <1>4, <3>2, <4>3
        <5>2. Len(q) # 0
          BY <2>1 DEF TP!Members
        <5>3. Before(r, u, t) => Before(q, u, t)
          BY <1>3, <2>1, <3>3, <5>2, BeforeAfter
        <5> QED BY <3>4, <5>1, <5>3 DEF Ahead, Before
      <4> QED BY <4>1, <4>2, <4>3
    <3> QED BY <2>3, <3>4
  <2> QED BY <2>2, <2>3
<1> QED BY <1>1, <1>2, <1>5

(* If nobody gets ahead of those who are ready and no quantum grows, no    *)
(* more ticks are left to them.                                            *)
LEMMA LeftShrinks ==
  ASSUME NEW q, NEW r, NEW t \in Thread, \A u \in Thread : Ahead(r, u, t)'
    => Ahead(q, u, t),
         \A u \in Thread : ticks[u] \in Int /\ ticks'[u] \in Int,
         \A u \in Thread : Ahead(r, u, t)' => ticks'[u] <= ticks[u]
  PROVE  Left(r, t)' \subseteq Left(q, t)
<1> SUFFICES ASSUME NEW s \in Left(r, t)' PROVE s \in Left(q, t)
  OBVIOUS
<1>1. s \in Quanta(t) /\ s[2] <= ticks'[s[1]] /\ Ahead(r, s[1], t)'
  BY DEF Left, Quanta
<1>2. s[1] \in Thread /\ s[2] \in Int
  BY <1>1, QuantaFacts
<1>3. s[2] <= ticks[s[1]]
  BY <1>1, <1>2
<1> QED BY <1>1, <1>2, <1>3 DEF Left

(* A tick takes one from the quantum of the running thread, and that is    *)
(* one less to wait for.                                                   *)
LEMMA TimerWait ==
  ASSUME Inv, WaitInv, panic = "none", intrTimerHandler PROVE WaitInv'
<1> DEFINE left == [ticks EXCEPT ![cur] = uint8(@ - 1)]
<1>1. PICK Q : TP!Agree(Q) /\ WaitOK(Q[threadReadyList])
  BY DEF WaitInv
<1>2. PICK q, c : q = Q[threadReadyList] /\ c = cur
  OBVIOUS
<1>3. /\ \A u \in Thread : ticks[u] \in 1 .. priority[u] /\ priority[u] \in 1 .. 255
      /\ c \in Thread /\ status[c] = "running" /\ TicksOK
  BY <1>2, InterruptsAssumption DEF WaitInv, TicksOK, Inv, ThreadsInv
<1>4. \A u \in Thread : left[u] = IF u = c THEN ticks[c] - 1 ELSE ticks[u]
  <2>1. PICK m : m = uint8(ticks[c] - 1)
    OBVIOUS
  <2>2. m = ticks[c] - 1
    <3>1. PICK k \in 1 .. 255 : k = ticks[c]
      <4>1. priority[c] \in 1 .. 255 /\ ticks[c] \in 1 .. priority[c]
        BY <1>3
      <4> QED BY <4>1
    <3>2. (k - 1) % 256 = k - 1
      OBVIOUS
    <3> QED BY <2>1, <3>1, <3>2 DEF uint8
  <2>3. left = [ticks EXCEPT ![c] = m]
    BY <1>2, <2>1
  <2> HIDE DEF left
  <2> QED BY <1>3, <2>2, <2>3, TypeFacts
<1>5. Waiting(1)
  BY DEF intrTimerHandler
<1>6. CASE left[cur] = 0
  <2>1. S!schedule(heap, status) /\ ticks' = Quantum(left, status)
    BY <1>6 DEF intrTimerHandler, Reschedule
  <2>2. PICK R : /\ TP!Agree(R)'
                 /\ \A t \in Thread : status[t] = "ready" /\ status'[t] = "ready" =>
                      \A u \in Thread : Ahead(R[threadReadyList], u, t)' =>
                                          Ahead(q, u, t) /\ u # c
    BY <1>1, <1>2, <2>1, ScheduleAhead
  <2>3. PICK r : r = R[threadReadyList]
    OBVIOUS
  <2>4. \A u \in Thread : ticks'[u] = IF u = c THEN priority[c] ELSE ticks[u]
    BY <1>2, <1>3, <1>4, <2>1, TypeFacts DEF Quantum
  <2>5. ASSUME NEW t \in Thread, status[t] = "ready", status'[t] = "ready"
        PROVE  /\ Left(r, t)' \subseteq Left(q, t)
               /\ <<c, ticks[c]>> \in Left(q, t) /\ <<c, ticks[c]>> \notin Left(r, t)'
    <3>1. \A u \in Thread : Ahead(r, u, t)' => Ahead(q, u, t) /\ u # c
      BY <2>2, <2>3, <2>5
    <3>2. \A u \in Thread : ticks[u] \in Int /\ ticks'[u] \in Int
      BY <1>3, <2>4
    <3>3. Left(r, t)' \subseteq Left(q, t)
      BY <2>4, <3>1, <3>2, LeftShrinks
    <3>4. <<c, ticks[c]>> \in Quanta(t)
      BY <1>3, <2>5, QuantaFacts
    <3>5. <<c, ticks[c]>> \in Left(q, t)
      BY <1>3, <3>4 DEF Left, Ahead
    <3>6. <<c, ticks[c]>> \notin Left(r, t)'
      BY <1>3, <3>1 DEF Left
    <3> QED BY <3>3, <3>5, <3>6
  <2>6. \A u \in Thread : ticks'[u] \in 1 .. priority[u]
    BY <1>3, <2>4
  <2>7. TicksOK' /\ WaitOK(r)'
    BY <1>1, <1>2, <1>3, <1>5, <2>5, <2>6, WaitStep
  <2> QED BY <2>2, <2>3, <2>7 DEF WaitInv
<1>7. CASE left[cur] # 0
  <2>1. ticks' = left /\ UNCHANGED <<heap, status, cur, panic>>
    BY <1>7 DEF intrTimerHandler, threadVars
  <2>2. TP!Agree(Q)'
    BY <1>1, <2>1 DEF TP!Agree
  <2>3. \A u \in Thread : ticks'[u] \in 1 .. priority[u] /\ ticks'[u] <= ticks[u]
    BY <1>2, <1>3, <1>4, <1>7, <2>1
  <2>4. ticks'[c] = ticks[c] - 1
    BY <1>3, <1>4, <2>1
  <2> HIDE DEF left
  <2>5. ASSUME NEW t \in Thread, status[t] = "ready"
        PROVE  /\ Left(q, t)' \subseteq Left(q, t)
               /\ <<c, ticks[c]>> \in Left(q, t) /\ <<c, ticks[c]>> \notin Left(q, t)'
    <3>1. \A u \in Thread : Ahead(q, u, t)' => Ahead(q, u, t)
      BY <2>1 DEF Ahead, Before
    <3>2. \A u \in Thread : ticks[u] \in Int /\ ticks'[u] \in Int
      BY <1>3, <2>3
    <3>3. Left(q, t)' \subseteq Left(q, t)
      BY <2>3, <3>1, <3>2, LeftShrinks
    <3>4. <<c, ticks[c]>> \in Quanta(t)
      BY <1>3, <2>5, QuantaFacts
    <3>5. <<c, ticks[c]>> \in Left(q, t)
      BY <1>3, <3>4 DEF Left, Ahead
    <3>6. ~ (ticks[c] <= ticks'[c])
      BY <1>3, <2>4
    <3>7. <<c, ticks[c]>> \notin Left(q, t)'
      BY <3>6 DEF Left
    <3> QED BY <3>3, <3>5, <3>7
  <2>6. TicksOK' /\ WaitOK(q)'
    BY <1>1, <1>2, <1>3, <1>5, <2>1, <2>3, <2>5, WaitStep
  <2> QED BY <1>2, <2>2, <2>6 DEF WaitInv
<1> QED BY <1>6, <1>7

(* Who goes to sleep keeps what is left of its quantum. *)
LEMMA BlockWait ==
  ASSUME Inv, WaitInv, panic = "none", threadBlock PROVE WaitInv'
<1>1. PICK Q : TP!Agree(Q) /\ WaitOK(Q[threadReadyList])
  BY DEF WaitInv
<1>2. PICK q, st : q = Q[threadReadyList] /\ st = [status EXCEPT ![cur] = "blocked"]
  OBVIOUS
<1>3. /\ Blocks(st) /\ S!schedule(heap, st) /\ ticks' = Quantum(ticks, st) /\ Waiting(0)
  BY <1>2 DEF threadBlock, Reschedule, Blocks
<1>4. ticks' = ticks
  <2>1. st[cur] # "running"
    BY <1>2 DEF Inv, ThreadsInv
  <2> QED BY <1>3, <2>1 DEF Quantum
<1>5. PICK R : /\ TP!Agree(R)'
               /\ \A t \in Thread : status[t] = "ready" /\ status'[t] = "ready" =>
                    \A u \in Thread : Ahead(R[threadReadyList], u, t)' => Ahead(q, u, t)
  BY <1>1, <1>2, <1>3, ScheduleAhead
<1>6. PICK r : r = R[threadReadyList]
  OBVIOUS
<1>7. TicksOK /\ \A u \in Thread : ticks'[u] \in 1 .. priority[u]
  BY <1>4 DEF WaitInv, TicksOK
<1>8. ASSUME NEW t \in Thread, status[t] = "ready", status'[t] = "ready"
      PROVE  Left(r, t)' \subseteq Left(q, t)
  <2>1. \A u \in Thread : Ahead(r, u, t)' => Ahead(q, u, t)
    BY <1>5, <1>6, <1>8
  <2>2. \A u \in Thread : ticks[u] \in Int /\ ticks'[u] \in Int /\ ticks'[u] <= ticks[u]
    BY <1>4, <1>7, TypeFacts
  <2> QED BY <2>1, <2>2, LeftShrinks
<1>9. PICK n \in {0, 1} : n = 0
  OBVIOUS
<1>10. n # 1 /\ Waiting(n)
  BY <1>3, <1>9
<1>11. TicksOK' /\ WaitOK(r)'
  BY <1>1, <1>2, <1>7, <1>8, <1>10, WaitStep
<1> QED BY <1>5, <1>6, <1>11 DEF WaitInv

(* A new thread goes behind the others; a woken one goes before them, and  *)
(* was ahead of them before.                                               *)
LEMMA StartWait ==
  ASSUME Inv, WaitInv, panic = "none", NEW p \in Thread,
         createThread(p) \/ threadUnblock(p)
  PROVE  WaitInv'
<1>1. PICK Q : TP!Agree(Q) /\ WaitOK(Q[threadReadyList])
  BY DEF WaitInv
<1>2. PICK q : q = Q[threadReadyList]
  OBVIOUS
<1>3. PICK n \in {0, 1} : n = 0
  OBVIOUS
<1>4. /\ n # 1 /\ Waiting(n)
      /\ \/ /\ TP!threadStart(p) /\ status[p] = "unborn"
            /\ ticks' = [ticks EXCEPT ![p] = priority[p]]
         \/ TP!threadUnblock(p) /\ status[p] = "blocked" /\ ticks' = ticks
  <2>1. CASE createThread(p)
    <3>1. S!threadStart(p) /\ Waiting(0) /\ ticks' = [ticks EXCEPT ![p] = priority[p]]
      BY <2>1 DEF createThread
    <3>2. TP!threadStart(p)
      BY <3>1, SameStarts
    <3> QED BY <1>3, <3>1, <3>2 DEF TP!threadStart
  <2>2. CASE threadUnblock(p)
    <3>1. S!threadUnblock(p) /\ Waiting(0) /\ ticks' = ticks /\ status[p] = "blocked"
      BY <2>2 DEF threadUnblock
    <3>2. TP!threadUnblock(p)
      BY <3>1, SameStarts
    <3> QED BY <1>3, <3>1, <3>2
  <2> QED BY <2>1, <2>2
<1>5. /\ q \in Seq(Thread) /\ TicksOK /\ threadReadyList \in TP!ListId
      /\ \A u \in Thread : status[u] = "ready" <=> u \in TP!Members(q)
  BY <1>1, <1>2 DEF TP!Agree, TP!Lists, TP!ListId, WaitInv
<1>6. TP!OnNone(Q, p) /\ p \notin TP!Members(q)
  BY <1>2, <1>4, <1>5 DEF TP!OnNone, TP!ListId
<1>7. PICK R : /\ TP!Agree(R)'
               /\ \A u \in Thread : u # p => status'[u] = status[u]
               /\ \/ /\ status'[p] = "ready" /\ R[threadReadyList] = Append(q, p)
                     /\ ticks' = [ticks EXCEPT ![p] = priority[p]]
                  \/ /\ status[p] = "blocked" /\ R[threadReadyList] = <<p>> \o q
                     /\ ticks' = ticks
  <2>1. CASE /\ TP!threadStart(p) /\ status[p] = "unborn"
             /\ ticks' = [ticks EXCEPT ![p] = priority[p]]
    <3>1. /\ status'[p] = "ready" /\ \A u \in Thread : u # p => status'[u] = status[u]
          /\ \E R : TP!Agree(R)' /\ TP!OnlyReady(Q, R, Append(Q[threadReadyList], p))
      BY <1>1, <1>6, <2>1, ListAssumption, TP!StartLists
    <3>2. PICK R : TP!Agree(R)' /\ TP!OnlyReady(Q, R, Append(q, p))
      BY <1>2, <3>1
    <3>3. R[threadReadyList] = Append(q, p)
      BY <1>1, <1>5, <3>2 DEF TP!OnlyReady, TP!Agree, TP!Lists
    <3> QED BY <2>1, <3>1, <3>2, <3>3
  <2>2. CASE TP!threadUnblock(p) /\ status[p] = "blocked" /\ ticks' = ticks
    <3>1. /\ \A u \in Thread : u # p => status'[u] = status[u]
          /\ panic' = "none"
          /\ \E R : TP!Agree(R)' /\ TP!OnlyReady(Q, R, TP!AfterUnblock(Q, p))
      BY <1>1, <1>6, <2>2, ListAssumption, TP!UnblockLists
    <3>2. PICK R : TP!Agree(R)' /\ TP!OnlyReady(Q, R, <<p>> \o q)
      BY <1>2, <2>2, <3>1 DEF TP!AfterUnblock
    <3>3. R[threadReadyList] = <<p>> \o q
      BY <1>1, <1>5, <3>2 DEF TP!OnlyReady, TP!Agree, TP!Lists
    <3> QED BY <2>2, <3>1, <3>2, <3>3
  <2> QED BY <1>4, <2>1, <2>2
<1>8. PICK r : r = R[threadReadyList]
  OBVIOUS
<1>9. \A u \in Thread : /\ ticks[u] \in Int /\ ticks'[u] \in Int
                        /\ ticks'[u] \in 1 .. priority[u]
                        /\ u # p => ticks'[u] = ticks[u]
  <2>1. \A u \in Thread : ticks[u] \in 1 .. priority[u] /\ priority[u] \in 1 .. 255
    BY <1>5, TypeFacts DEF TicksOK
  <2>2. CASE ticks' = ticks
    BY <2>1, <2>2
  <2>3. CASE ticks' = [ticks EXCEPT ![p] = priority[p]]
    <3>1. \A u \in Thread : ticks'[u] = IF u = p THEN priority[p] ELSE ticks[u]
      BY <2>3, TypeFacts
    <3> QED BY <2>1, <3>1
  <2> QED BY <1>7, <2>2, <2>3
<1>10. ASSUME NEW t \in Thread, status[t] = "ready", status'[t] = "ready"
       PROVE  Left(r, t)' \subseteq Left(q, t)
  <2>1. t # p
    BY <1>4, <1>10
  <2>2. ASSUME NEW u \in Thread, Ahead(r, u, t)'
        PROVE  Ahead(q, u, t) /\ ticks'[u] <= ticks[u]
    <3>1. status'[u] \in {"running", "blocked"} \/ Before(r, u, t)
      BY <2>2 DEF Ahead, Before
    <3>2. CASE u = p
      <4>1. CASE status'[p] = "ready" /\ r = Append(q, p)
        BY <1>5, <1>6, <3>1, <3>2, <4>1, LastIsBehind
      <4>2. CASE status[p] = "blocked" /\ ticks' = ticks
        BY <1>9, <3>2, <4>2 DEF Ahead
      <4> QED BY <1>7, <1>8, <4>1, <4>2
    <3>3. CASE u # p
      <4>1. r = Append(q, p) \/ r = <<p>> \o q
        BY <1>7, <1>8
      <4>2. Before(r, u, t) => Before(q, u, t)
        BY <1>5, <2>1, <3>3, <4>1, BeforeAfter
      <4>3. status'[u] = status[u] /\ ticks'[u] <= ticks[u]
        BY <1>7, <1>9, <3>3
      <4> QED BY <3>1, <4>2, <4>3 DEF Ahead
    <3> QED BY <3>2, <3>3
  <2> QED BY <1>9, <2>2, LeftShrinks
<1>11. TicksOK' /\ WaitOK(r)'
  BY <1>1, <1>2, <1>4, <1>5, <1>9, <1>10, WaitStep
<1> QED BY <1>7, <1>8, <1>11 DEF WaitInv

(* All other steps leave the threads, their quanta and the count alone. *)
LEMMA PlainWait ==
  ASSUME WaitInv, UNCHANGED <<heap, status, cur, ticks, waited>> PROVE WaitInv'
<1>1. PICK Q : TP!Agree(Q) /\ WaitOK(Q[threadReadyList])
  BY DEF WaitInv
<1>2. TP!Agree(Q)'
  BY <1>1 DEF TP!Agree
<1>3. WaitOK(Q[threadReadyList])'
  BY <1>1 DEF WaitOK, Left, Quanta, Ahead, Before
<1>4. TicksOK'
  BY DEF WaitInv, TicksOK
<1> QED BY <1>2, <1>3, <1>4 DEF WaitInv

(* Nobody is ready before the first threadStart. *)
LEMMA InitWait == Init => WaitInv
<1> SUFFICES ASSUME Init PROVE WaitInv
  OBVIOUS
<1>1. /\ cur = Main /\ heap = S!ListInit(S!ListId, Thread)
      /\ status = [t \in Thread |-> IF t = Main THEN "running" ELSE "unborn"]
      /\ ticks = [t \in Thread |-> priority[t]]
      /\ waited = [t \in Thread |-> 0]
  BY DEF Init, S!ThreadsInit
<1>2. heap = TP!ListInit(TP!ListId, Thread)
  BY <1>1 DEF S!ListInit, TP!ListInit, S!ListId, TP!ListId, S!Sentinels, TP!Sentinels,
              S!HeadOf, S!TailOf, TP!HeadOf, TP!TailOf
<1>3. TP!Agree([L \in TP!ListId |-> <<>>])
  BY <1>1, <1>2, ListAssumption, TP!InitLists
<1>4. \A t \in Thread : ticks[t] = priority[t] /\ priority[t] \in 1 .. 255
                        /\ waited[t] = 0 /\ status[t] # "ready"
  BY <1>1, InterruptsAssumption
<1>5. TicksOK /\ \A q : WaitOK(q)
  BY <1>4 DEF TicksOK, WaitOK
<1> QED BY <1>3, <1>5 DEF WaitInv

(* Only the handler of the timer counts, and every step keeps the order. *)
LEMMA WaitNext == ASSUME Inv, WaitInv, [Next]_vars PROVE WaitInv'
<1>1. CASE UNCHANGED vars
  BY <1>1, PlainWait DEF vars, threadVars
<1>2. CASE Next
  <2>1. panic = "none"
    BY <1>2 DEF Next
  <2>2. CASE intrTimerHandler
    BY <2>1, <2>2, TimerWait
  <2>3. CASE threadBlock
    BY <2>1, <2>3, BlockWait
  <2>4. CASE \E p \in Thread : createThread(p) \/ threadUnblock(p)
    BY <2>1, <2>4, StartWait
  <2>5. CASE mainEnable \/ Pit \/ kernelThread \/ startProcess \/ startUser
    BY <2>5, PlainWait
       DEF mainEnable, Pit, kernelThread, startProcess, startUser, threadVars
  <2>6. CASE intrExit \/ threadWoken \/ syscallReturn
    BY <2>6, PlainWait DEF intrExit, threadWoken, syscallReturn, Resume, threadVars
  <2>7. CASE Interrupt
    <3>1. Enter("entry") /\ UNCHANGED cur
      BY <2>1, <2>7, InterruptFacts, EnterStep
    <3> QED BY <3>1, PlainWait DEF Enter
  <2>8. CASE syscallHandler
    <3>1. at = "user" /\ at \in On /\ Enter("syscall") /\ window' = window
      BY <2>8 DEF syscallHandler, On
    <3>2. UNCHANGED cur
      BY <2>1, <3>1, EnterStep, TypeFacts
    <3> QED BY <3>1, <3>2, PlainWait DEF Enter
  <2> QED BY <1>2, <2>2, <2>3, <2>4, <2>5, <2>6, <2>7, <2>8 DEF Next
<1> QED BY <1>1, <1>2

(***************************************************************************)
(* A ready thread waits no longer than one quantum of each other thread,   *)
(* whatever the quanta: schedule, which hands out a new one, does so to    *)
(* those only that go to the end of the list.                              *)
(***************************************************************************)
THEOREM ReadyWaitBounded == Spec => []WaitBounded
<1>1. ASSUME WaitInv PROVE WaitBounded
  <2>1. PICK q : TicksOK /\ WaitOK(q)
    BY <1>1 DEF WaitInv
  <2> SUFFICES ASSUME NEW t \in Thread PROVE waited[t] <= Cardinality(Quanta(t))
    BY DEF WaitBounded
  <2>2. IsFiniteSet(Quanta(t)) /\ Left(q, t) \subseteq Quanta(t)
    BY QuantaFacts DEF Left
  <2>3. /\ Cardinality(Quanta(t)) \in Nat /\ Cardinality(Left(q, t)) \in Nat
        /\ waited[t] \in Nat
    BY <2>1, <2>2, FS_Subset, FS_CardinalityType DEF TicksOK
  <2>4. CASE status[t] = "ready"
    <3>1. waited[t] + Cardinality(Left(q, t)) <= Cardinality(Quanta(t))
      BY <2>1, <2>4 DEF WaitOK
    <3> QED BY <2>3, <3>1
  <2>5. CASE status[t] # "ready"
    <3>1. waited[t] = 0
      BY <2>1, <2>5 DEF WaitOK
    <3> QED BY <2>3, <3>1
  <2> QED BY <2>4, <2>5
<1>2. Inv /\ WaitInv /\ [Next]_vars => WaitInv'
  BY WaitNext
<1> QED BY StacksFit, InitWait, <1>1, <1>2, PTL DEF Spec

=============================================================================
