------------------------------ MODULE Interrupts ------------------------------
(***************************************************************************)
(* How a thread loses the CPU and gets it back: the timer and its PIC      *)
(* line, the entry and exit code of kernel.S, the tick counters, switchTo, *)
(* the kernel stacks, TSS and cr3.  The CPU has one interrupt flag, and    *)
(* switchTo does not save it: each thread's own flag (Flag) is in the      *)
(* frames on its kernel stack.  That all this implements the Scheduler on  *)
(* which the modules above are built is one of the properties.             *)
(***************************************************************************)
EXTENDS Integers, Sequences, FiniteSets, SequencesExt

CONSTANTS NULL, Thread, Main, threadReadyList,
          Process,       \* the threads made by processExecute
          priority,      \* a quantum, in ticks
          WindowTicks    \* ticks that can fall between the intrEnable of
                         \* kernelThread and the first lines of startProcess

ASSUME InterruptsAssumption ==
  /\ Process \subseteq Thread \ {Main}
  /\ priority \in [Thread -> 1 .. 255]
  /\ WindowTicks \in Nat

VARIABLES
  heap, status, cur, panic,   \* see Threads
  at,           \* what the CPU executes, in thread cur
  eflagsIF,     \* its interrupt flag
  stack,        \* kernel stacks: where to go on, with which flag
  selfKStack,   \* "created" by threadCreate, or "saved" by switchTo
  frame,        \* where startProcess put the first context of a process
  esp0, cr3,    \* TSS and page directory: of which process
  ticks,        \* what is left of the quantum
  irr, isr,     \* IRQ 0 in the PIC: requested, in service
  waited,       \* history: ticks since a thread became ready
  window        \* ticks in the window of a process (bound WindowTicks)

threadVars == <<heap, status, cur, panic>>
stackVars  == <<stack, selfKStack, frame, esp0, cr3>>
vars == <<threadVars, at, eflagsIF, stackVars, ticks, irr, isr, waited, window>>

Kernel == NULL     \* in cr3: the page directory at 0x100000
uint8(n) == n % 256

(***************************************************************************)
(* A frame holds what iretd or intrSetStatus restores; switchTo leaves a   *)
(* frame on top that says where schedule returns to.                       *)
(***************************************************************************)
Frame(label, flag) == [at |-> label, flag |-> flag]

Push(t, f) == [stack EXCEPT ![t] = Append(@, f)]

(* The code a thread is in, seen from outside interrupts and schedule. *)
Flag(t) ==
  LET s == stack[t]
  IN  IF t = cur
      THEN IF at \in {"entry", "intrExit", "woken"} THEN Last(s).flag
           ELSE IF at = "kernelThread" THEN TRUE ELSE eflagsIF
      ELSE IF Len(s) < 2 THEN TRUE ELSE s[Len(s) - 1].flag

S == INSTANCE Scheduler WITH iflag <- [t \in Thread |-> Flag(t)], WaitList <- {}

ASSUME SchedulerAssumption == S!ThreadAssumption

Init == /\ at = "boot" /\ eflagsIF = FALSE
        /\ stack = [t \in Thread |-> <<>>]
        /\ selfKStack = [t \in Thread |-> "created"]
        /\ frame = [t \in Process |-> "none"]
        /\ esp0 = NULL /\ cr3 = Kernel
        /\ ticks = [t \in Thread |-> priority[t]]
        /\ irr = FALSE /\ isr = FALSE
        /\ waited = [t \in Thread |-> 0]
        /\ window = [t \in Process |-> 0]
        /\ S!ThreadsInit

(* History: n ticks more for those who were ready and still are. *)
Waiting(n) == waited' = [t \in Thread |-> IF status[t] = "ready" /\ status'[t] = "ready"
                                          THEN waited[t] + n ELSE 0]

-----------------------------------------------------------------------------
(* Mutant: the first quantum of a thread is one tick. *)
createThreadOneTick(t) ==
  /\ at = "boot"
  /\ S!threadStart(t)
  /\ stack' = Push(t, Frame("kernelThread", FALSE))
  /\ ticks' = [ticks EXCEPT ![t] = 1]
  /\ Waiting(0)
  /\ UNCHANGED <<at, eflagsIF, selfKStack, frame, esp0, cr3, irr, isr, window>>

(* threadStart or processExecute: threadInit, threadCreate, listAppend. *)
createThread(t) ==
  /\ at = "boot"
  /\ S!threadStart(t)
  /\ stack' = Push(t, Frame("kernelThread", FALSE))
  /\ ticks' = [ticks EXCEPT ![t] = priority[t]]
  /\ Waiting(0)
  /\ UNCHANGED <<at, eflagsIF, selfKStack, frame, esp0, cr3, irr, isr, window>>

(* The last statement of main() before it spins. *)
mainEnable == /\ at = "boot"
              /\ \A t \in Thread : status[t] # "unborn"
              /\ at' = "run" /\ eflagsIF' = TRUE
              /\ UNCHANGED <<threadVars, stackVars, ticks, irr, isr, waited, window>>

(* Mutant: esp0 stays what it was. *)
processActivateNoTss(t) == /\ cr3' = IF t \in Process THEN t ELSE Kernel
                           /\ UNCHANGED esp0

(* Every switch loads cr3; esp0 only matters for, and changes with, processes. *)
processActivate(t) == /\ cr3' = IF t \in Process THEN t ELSE Kernel
                      /\ esp0' = IF t \in Process THEN t ELSE esp0

(* switchTo: the old thread will return to label; the new one goes on where *)
(* it was, or in kernelThread, with the flag as it is.                      *)
switchTo(stacks, label, next) ==
  LET saved == [stacks EXCEPT ![cur] = Append(@, Frame(label, FALSE))]
  IN  /\ selfKStack' = [selfKStack EXCEPT ![cur] = "saved"]
      /\ at' = Last(saved[next]).at
      /\ stack' = [saved EXCEPT ![next] = Front(@)]

(* Mutant: also a thread that gives the CPU up gets a new quantum. *)
QuantumAlways(left, st) == [left EXCEPT ![cur] = priority[cur]]

(* schedule sets cur->ticks if cur is still running. *)
Quantum(left, st) ==
  IF st[cur] = "running" THEN [left EXCEPT ![cur] = priority[cur]] ELSE left

(* schedule(), to go on at label with stacks once switched back. *)
Reschedule(st, stacks, label, left) ==
  /\ S!schedule(heap, st)
  /\ ticks' = Quantum(left, st)
  /\ processActivate(cur')
  /\ switchTo(stacks, label, cur')
  /\ eflagsIF' = FALSE

-----------------------------------------------------------------------------
(* The gates are interrupt gates.  From user mode the CPU takes the kernel *)
(* stack of the TSS, from its top; threadCurrent() is who owns that page.  *)
Enter(label) ==
  /\ at' = label
  /\ eflagsIF' = FALSE
  /\ IF at = "user"
     THEN stack' = [stack EXCEPT ![esp0] = <<Frame(at, eflagsIF)>>] /\ cur' = esp0
     ELSE stack' = Push(cur, Frame(at, eflagsIF)) /\ cur' = cur
  /\ UNCHANGED <<heap, status, panic, selfKStack, frame, esp0, cr3, ticks, waited>>

(* Every 10 ms; a request that is still pending is not counted twice. *)
Pit == /\ ~ irr
       /\ irr' = TRUE
       /\ UNCHANGED <<threadVars, at, eflagsIF, stackVars, ticks, isr, waited, window>>

(* The PIC does not ask again before it has been sent EOI. *)
Interrupt ==
  /\ irr /\ ~ isr /\ eflagsIF
  /\ irr' = FALSE /\ isr' = TRUE
  /\ IF at = "func"
     THEN /\ window[cur] < WindowTicks
          /\ window' = [window EXCEPT ![cur] = @ + 1]
     ELSE UNCHANGED window
  /\ Enter("entry")

(* Mutant: EOI is sent on the way out, in intrExit. *)
intrTimerHandlerLateEoi ==
  LET left == [ticks EXCEPT ![cur] = uint8(@ - 1)]
  IN  /\ at = "entry"
      /\ IF left[cur] = 0
         THEN /\ Reschedule(status, stack, "intrExit", left)
              /\ isr' = (at' # "intrExit" /\ isr)
         ELSE /\ at' = "intrExit" /\ ticks' = left
              /\ isr' = FALSE
              /\ UNCHANGED <<threadVars, eflagsIF, stack, selfKStack, esp0, cr3>>
      /\ Waiting(1)
      /\ UNCHANGED <<frame, irr, window>>

(* intr0x20entry and the handler it calls: EOI comes first, since the      *)
(* handler may not return for a long time.                                 *)
intrTimerHandler ==
  LET left == [ticks EXCEPT ![cur] = uint8(@ - 1)]
  IN  /\ at = "entry"
      /\ isr' = FALSE
      /\ IF left[cur] = 0
         THEN Reschedule(status, stack, "intrExit", left)
         ELSE /\ at' = "intrExit" /\ ticks' = left
              /\ UNCHANGED <<threadVars, eflagsIF, stack, selfKStack, esp0, cr3>>
      /\ Waiting(1)
      /\ UNCHANGED <<frame, irr, window>>

(* iretd, or intrSetStatus(oldStatus) and the return from threadBlock. *)
Resume == /\ at' = Last(stack[cur]).at
          /\ eflagsIF' = Last(stack[cur]).flag
          /\ stack' = [stack EXCEPT ![cur] = Front(@)]
          /\ UNCHANGED <<threadVars, selfKStack, frame, esp0, cr3, ticks, irr, isr,
                         waited, window>>

intrExit     == at = "intrExit" /\ Resume
threadWoken  == at = "woken" /\ Resume

-----------------------------------------------------------------------------
(* Mutant: intrEnable is forgotten. *)
kernelThreadOff ==
  /\ at = "kernelThread"
  /\ at' = IF cur \in Process THEN "func" ELSE "run"
  /\ UNCHANGED <<threadVars, eflagsIF, stackVars, ticks, irr, isr, waited, window>>

(* What switchTo returns to in a new thread. *)
kernelThread ==
  /\ at = "kernelThread"
  /\ at' = IF cur \in Process THEN "func" ELSE "run"
  /\ eflagsIF' = TRUE
  /\ UNCHANGED <<threadVars, stackVars, ticks, irr, isr, waited, window>>

(***************************************************************************)
(* startProcess takes the place for its frame from selfKStack: what        *)
(* threadCreate has reserved, unless switchTo has been there in between.   *)
(***************************************************************************)
startProcess ==
  /\ at = "func"
  /\ frame' = [frame EXCEPT ![cur] = IF selfKStack[cur] = "created" THEN "reserved"
                                     ELSE "stale"]
  /\ at' = "getPage"
  /\ UNCHANGED <<threadVars, eflagsIF, stack, selfKStack, esp0, cr3, ticks, irr, isr,
                 waited, window>>

(* jmp intrExit on that frame; one in the used part of the stack has been   *)
(* overwritten by getPage.                                                 *)
startUser ==
  /\ at = "getPage"
  /\ IF frame[cur] = "reserved" THEN UNCHANGED panic ELSE panic' = "wild"
  /\ at' = "user" /\ eflagsIF' = TRUE
  /\ stack' = [stack EXCEPT ![cur] = <<>>]
  /\ UNCHANGED <<heap, status, cur, selfKStack, frame, esp0, cr3, ticks, irr, isr,
                 waited, window>>

syscallHandler == at = "user" /\ Enter("syscall") /\ UNCHANGED <<irr, isr, window>>
syscallReturn  == at = "syscall" /\ Resume

(* Mutant: oldStatus is read after interrupts were turned off. *)
threadBlockLate ==
  /\ at \in {"run", "syscall", "getPage"} /\ cur # Main
  /\ Reschedule([status EXCEPT ![cur] = "blocked"], Push(cur, Frame(at, FALSE)),
                "woken", ticks)
  /\ Waiting(0)
  /\ UNCHANGED <<frame, irr, isr, window>>

(* threadBlock, and the same lines of lockAcquire and conditionWait. *)
threadBlock ==
  /\ at \in {"run", "syscall", "getPage"} /\ cur # Main
  /\ Reschedule([status EXCEPT ![cur] = "blocked"], Push(cur, Frame(at, eflagsIF)),
                "woken", ticks)
  /\ Waiting(0)
  /\ UNCHANGED <<frame, irr, isr, window>>

(* A thread wakes another one. *)
threadUnblock(p) ==
  /\ at \in {"run", "syscall"} /\ cur # Main
  /\ status[p] = "blocked"
  /\ S!threadUnblock(p)
  /\ Waiting(0)
  /\ UNCHANGED <<at, eflagsIF, stackVars, ticks, irr, isr, window>>

Next ==
  /\ panic = "none"
  /\ \/ \E t \in Thread : createThread(t)
     \/ mainEnable \/ Pit \/ Interrupt \/ intrTimerHandler \/ intrExit
     \/ threadWoken \/ kernelThread \/ startProcess \/ startUser
     \/ syscallHandler \/ syscallReturn \/ threadBlock
     \/ \E p \in Thread : threadUnblock(p)

Spec == Init /\ [][Next]_vars

(***************************************************************************)
(* The timer goes on, a pending interrupt comes when the flag is set, and  *)
(* code of the kernel ends or sleeps; a system call, which keeps the flag   *)
(* clear, does not sleep for ever.  What threads do is up to them.         *)
(***************************************************************************)
Fairness ==
  /\ WF_vars(panic = "none" /\ Pit)
  /\ SF_vars(panic = "none" /\ Interrupt)
  /\ WF_vars(panic = "none" /\ (mainEnable \/ \E t \in Thread : createThread(t)))
  /\ WF_vars(panic = "none" /\ (intrTimerHandler \/ intrExit \/ threadWoken))
  /\ WF_vars(panic = "none" /\ (kernelThread \/ startProcess \/ startUser))
  /\ \A t \in Process : SF_vars(panic = "none" /\ cur = t /\ syscallReturn)

FairSpec == Spec /\ Fairness

-----------------------------------------------------------------------------
(***************************************************************************)
(* In user mode the next interrupt or system call will find the stack of   *)
(* this very process, with nothing on it that is still needed, and the     *)
(* memory it sees is its own.  Kernel threads run in between without       *)
(* touching esp0; processActivate has to put it right in time.             *)
(***************************************************************************)
EntersOnOwnStack ==
  at = "user" => esp0 = cur /\ stack[cur] = <<>> /\ cr3 = cur

(***************************************************************************)
(* Although switchTo leaves the flag to whoever comes next, code of threads *)
(* runs with interrupts on, and system calls and handlers with them off.   *)
(***************************************************************************)
FlagOfCode == eflagsIF <=> at \in {"run", "func", "getPage", "user"}

(***************************************************************************)
(* process.c: "startProcess builds initial context of a new user process", *)
(* in the place threadCreate has reserved for it.  It finds that place by  *)
(* selfKStack, which the first preemption overwrites: what keeps the two   *)
(* apart is a first quantum longer than the window.                        *)
(***************************************************************************)
InitialContext == panic # "wild"

(***************************************************************************)
(* A ready thread waits no longer than one quantum of each other thread,   *)
(* although whoever is woken goes before it: a thread that sleeps and      *)
(* wakes keeps what is left of its quantum, and is behind once that is     *)
(* used up.                                                                *)
(***************************************************************************)
Quanta(t) == UNION {{u} \X (1 .. priority[u]) : u \in Thread \ {t}}

WaitBounded == \A t \in Thread : waited[t] <= Cardinality(Quanta(t))

(* What the other modules take for granted of threads and their flags. *)
ImplementsScheduler == S!Spec

(* Under Fairness: a ready thread runs. *)
ReadyRuns == \A t \in Thread : status[t] = "ready" ~> (cur = t \/ panic # "none")
=============================================================================
