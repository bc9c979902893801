------------------------------- MODULE Console -------------------------------
(***************************************************************************)
(* device/console.c and its callers: kernel threads that call consolePuts  *)
(* with interrupts on, and user processes that reach it through the write  *)
(* system call, whose interrupt gate clears IF until iretd.                *)
(***************************************************************************)
EXTENDS Locks, Sequences

CONSTANTS consoleLock,   \* the console's lock
          Process,       \* the threads that call through int 0x80
          StrLen         \* characters of a string

ASSUME ConsoleAssumption == /\ Lock = {consoleLock}
                            /\ Level = {"task"}
                            /\ Process \subseteq Thread \ {Main}
                            /\ StrLen \in Nat \ {0}

VARIABLES line,      \* who wrote each character since a string last ended
          printed    \* how far puts has got with each thread's string

vars == <<schedVars, iflag, lockVars, callVars, line, printed>>

conVars == <<line, printed>>

Task(t) == <<t, "task">>

-----------------------------------------------------------------------------
Init == /\ ThreadsInit
        /\ LocksInit
        /\ line = <<>>
        /\ printed = [t \in Thread |-> 0]

(* consoleAcquire, on entry to consolePuts (in write: after the gate). *)
consolePuts(t) ==
  /\ At(Task(t), "idle")
  /\ iflag' = [iflag EXCEPT ![t] = t \notin Process]
  /\ Call(Task(t), "lockAcquire", consoleLock, "puts")
  /\ UNCHANGED <<schedVars, lockVars, thread, conVars>>

(* Mutant: the loop runs once more, past the end of the string. *)
putcharOneMore(t) ==
  /\ At(Task(t), "puts")
  /\ IF printed[t] <= StrLen
     THEN /\ line' = Append(line, t)
          /\ printed' = [printed EXCEPT ![t] = @ + 1]
          /\ UNCHANGED <<pc, lk, ret>>
     ELSE /\ line' = <<>>
          /\ printed' = [printed EXCEPT ![t] = 0]
          /\ Call(Task(t), "lockRelease", consoleLock, "return")
  /\ UNCHANGED <<schedVars, iflag, lockVars, thread>>

(* puts, one character at a time; its NUL ends the string and the call. *)
putchar(t) ==
  /\ At(Task(t), "puts")
  /\ IF printed[t] < StrLen
     THEN /\ line' = Append(line, t)
          /\ printed' = [printed EXCEPT ![t] = @ + 1]
          /\ UNCHANGED <<pc, lk, ret>>
     ELSE /\ line' = <<>>
          /\ printed' = [printed EXCEPT ![t] = 0]
          /\ Call(Task(t), "lockRelease", consoleLock, "return")
  /\ UNCHANGED <<schedVars, iflag, lockVars, thread>>

(* Back to the caller, whose frame is gone; iretd sets the process's IF. *)
Return(t) ==
  /\ At(Task(t), "return")
  /\ iflag' = [iflag EXCEPT ![t] = TRUE]
  /\ Goto(Task(t), "idle")
  /\ ret' = [ret EXCEPT ![Task(t)] = "idle"]
  /\ UNCHANGED <<schedVars, lockVars, lk, thread, conVars>>

Next == \/ (Timer \/ Boot) /\ UNCHANGED conVars
        \/ \E c \in Ctx : (lockAcquire(c) \/ lockRelease(c)) /\ UNCHANGED conVars
        \/ \E t \in Thread \ {Main} : consolePuts(t) \/ putchar(t) \/ Return(t)

Spec == Init /\ [][Next]_vars

-----------------------------------------------------------------------------
TypeOK == /\ LocksTypeOK({"puts", "return"})
          /\ line \in Seq(Thread)
          /\ printed \in [Thread -> 0 .. StrLen]

(* Program points at which a thread owns the lock it asked for. *)
Holding == {"acquireRemove", "acquireUnspin", "puts", "lockRelease"}

(***************************************************************************)
(* What the console lock is for: whatever interrupts come between two      *)
(* characters, a string is on the screen in one piece.                     *)
(***************************************************************************)
Screen == INSTANCE Lines WITH Writer <- Thread \ {Main}
ImplementsLines == Screen!Spec

(***************************************************************************)
(* A thread is past compareAndSwap32 and before lock->holder = NULL just   *)
(* when it is the holder, and waitersLock is occupied just when one thread *)
(* is inside it: the two locks of struct lock never drift apart, even when *)
(* a thread loses the CPU inside them.                                     *)
(***************************************************************************)
LockExclusion ==
  /\ \A c \in Ctx : ThreadOf(c) = holder[consoleLock] <=> pc[c] \in Holding
  /\ waitersLock[consoleLock] <=> \E c \in Ctx : pc[c] \in Spinning
  /\ \A c, d \in Ctx : pc[c] \in Spinning /\ pc[d] \in Spinning => c = d

(* ASSERT(lock->holder == threadCurrent()) in lockRelease never fails. *)
ReleaseByHolder == panic # "notHolder"

(* ASSERT(!listExist(&threadReadyList, ...)) in schedule and threadUnblock. *)
NeverQueuedTwice == panic # "alreadyReady"
=============================================================================
