# HoloOS in TLA+

HoloOS is a small protected-mode kernel for one 32-bit x86 CPU: kernel threads
and user processes under a round-robin scheduler, locks and condition variables,
a page allocator with a heap on top, a text console and a keyboard. This
directory models it in TLA+, from the interrupt entry to the formatting of `printf`,
model-checks the modules on small instances with TLC, and proves with TLAPS, for any
number of threads and any sizes, the console and the lock, semaphores with all their
lists, the I/O queue, the interrupt layer, the page allocator, the heap, start-up, bitmaps,
the keyboard, the text screen and the string functions.

Contents: [the system](#the-system) · [modules](#modules) · [how the code is
modelled](#how-the-code-is-modelled) · [runs](#runs) · [fairness](#fairness) ·
[proofs](#proofs) · [disagreements](#disagreements-with-the-sources-own-words) ·
[not modelled](#not-modelled) · [plan](#plan).

To repeat the checks:

    tlc -config ConsoleThreads.cfg Console.tla
    tlapm ConsoleProofs.tla

and likewise for the other runs and the other modules whose names end in `Proofs`.

## The system

`boot/` loads the kernel, which `kernel/main.c` initialises with interrupts off;
it starts two processes and two kernel threads, turns interrupts on and spins.
From then on everything happens in threads (`work1`, `work2`), in processes that
enter the kernel through `int 0x80` (`uWork1`, `uWork2`), and in two interrupt
handlers, timer and keyboard. All gates are interrupt gates: a handler or a
system call begins with interrupts off and `iretd` turns them on again. There is
no interrupt nesting and no second CPU, but a handler or a system call can call
`schedule()` and so let others run before it returns. `ASSERT` is armed when
`NDEBUG` is defined (`include/kernel/debug.h:8`), and the Makefile defines it: a
failed assertion stops the kernel.

| component | state | operations | talks to | what is hard | what makes it correct |
|---|---|---|---|---|---|
| linked lists `lib/list.c` | next and prev of nodes that live inside their owners | init, insertBefore, push, append, remove, pop, exist, empty | used by all lists below | `listRemove` leaves the removed node's pointers as they were; no test for "already on a list" | both directions well formed; each list a sequence |
| scheduler `kernel/thread.c`, `switch.S` | ready list, statuses, the thread on the CPU, what is left of each quantum, kernel stacks | schedule, threadBlock, threadUnblock, threadCreate, threadStart, switchTo | timer, locks, conditions | anything with interrupts on may be cut in two; `switchTo` leaves the interrupt flag alone | lists and statuses agree; nobody lost, nobody twice; everybody ready runs, and soon |
| spin and sleeping lock `kernel/sync.c`, `cas.S` | holder, waitersLock, waiters | lockAcquire, lockRelease | scheduler | checks and queueing are separate; release clears before it wakes | mutual exclusion, no lost wakeup |
| condition variables, semaphores `kernel/sync.c` | waiters; value | wait, signal; down, up | locks, scheduler | a signal that finds nobody, a woken thread that comes second | no missed signal; a semaphore counts |
| console `device/console.c` | a lock | consolePuts, Putchar, Putint | locks, screen, write system call | interrupts between two characters | a string stays in one piece |
| text screen `lib/kernel/print.S` | video memory, cursor and selected register in the graphics controller | putchar, puts, putint, clearScreen | console, keyboard | boundaries of lines, of the screen and of the segment; the keyboard handler prints in the middle of a `putchar` | it shows the end of the text; an interruption does limited damage |
| I/O queue `device/ioqueue.c` | ring, head, tail, lock, two conditions | Putchar, Getchar | keyboard handler, readers | the producer is a handler inside some other thread | a bounded FIFO, every key read |
| keyboard `device/keyboard.c` | five flags | intrKeyboardHandler, one byte a time | I/O queue, `putchar` | codes of several bytes, modifiers, repeats | nothing stuck, the right character |
| timer, interrupts `device/timer.c`, `kernel/interrupt.c`, `kernel.S` | IDT, PIC, tick counters, EFLAGS.IF | entry, handlers, intrExit, intrEnable, intrDisable, intrSetStatus | everything | preemption at any instruction; EOI before a handler that may not return | code runs with the flag it left with; no thread waits for more than the quanta of the others |
| bitmaps `kernel/bitmap.c` | bytes | init, get, set, scan | page allocator | runs across bytes; set is read-change-write | first free run, nothing lent twice |
| page allocator `kernel/memory.c` | two pools, virtual bitmaps, page tables | mallocPage, mfreePage, getPage, palloc, pfree, pageTableAdd | bitmaps, locks, TLB | two pools, two locks; page tables come from the pool of the other; failures half-way | a frame has one owner, what is lent is mapped, nothing is lost but by a request that fails half-way |
| TLB | cached translations | invlpg, cr3 | page allocator, pageDirActivate | the wrong address is invalidated | what the CPU uses is what the tables say |
| heap `kernel/memory.c` | arenas, free lists of seven sizes | sysMalloc, sysFree | page allocator | arenas that come and go; no frame for an address | blocks do not overlap, lists are right, pages are those of arenas |
| pool set-up `memPoolInit` | sizes and bases of two pools | memPoolInit | page allocator | 16 bit counters | pools inside the memory and apart |
| processes, TSS `kernel/process.c`, `tss.c` | page directory, user bitmap, first context, esp0 | processExecute, startProcess, createPageDir, processActivate | scheduler, pages | pages nobody tests for NULL; the first context lies on the stack in use; esp0 is shared | a process enters the kernel on its own stack; tasks share no page |
| system calls `kernel/syscall.c`, `syscall-init.c` | none | getpid, write, malloc, free | console, heap | interrupts are off in them | (part of Console and Pages) |
| stdio, strings `lib/` | none | printf, sprintf, itoa, mem*, str* | console | boundaries, signed characters, the least integer | they do what their comments say |
| start-up `kernel/main.c` | the tasks made so far | main | memory, processes, scheduler | memory that does not suffice | a shortage is noticed |

Every hazard found in this code, with its line and the properties that watch it,
is in `PROJECT.json` under `hazards`.

## Modules

    List ── Threads ──┬─ Locks ─┬── Console     ⊑ Lines
     │                │         └── Conditions ──┬── IoQueue     ⊑ BoundedFifo
     │                │                          └── Semaphores  ⊑ Semaphore, Queues
     │                └─ Scheduler ⊒ Interrupts ── MCInterrupts
     └─────────┐
    Bitmap ──┬─┴ Heap ⊑ Allocator
             ├── Pages ── MCPages             Strings ── Stdio ──┐
             └── Tlb ───┐                     Screen ── Printing ┴── MCScreen
    MemPool ────────────┴── Startup ── MCStartup          Keyboard

    Bitmap ── BitmapProofs ──┬── PagesProofs ── Pages
                             └── MemoryProofs ── Startup, Heap
    Threads ── ThreadsProofs ──┬── SemaphoresProofs ── Semaphores
                               ├── IoQueueProofs ── IoQueue, Keyboard
                               └── InterruptsProofs ── Interrupts
    ConsoleProofs ── Console, Printing

(`──` extends, `⊑` implements, by INSTANCE with a refinement mapping. A proof module
extends the modules on its right and the proof module on its left; those with two
modules on the right have a part for each, which share no variable, and `Printing` has
one for `Screen` and one for `Strings`.
`InterruptsProofs` has `ThreadsProofs` as an instance, as `Interrupts` has no flag per
thread, and so has `MemoryProofs`, for the lists of free blocks.)

| module | source | state and actions |
|---|---|---|
| `List` | `lib/list.c` | operators on a heap `[next, prev]` of nodes. `listRemove` leaves stale pointers, and so does `ListRemove` |
| `Threads` | `kernel/thread.c`, `switch.S`, `timer.c` | `schedule`, `threadUnblock`, `threadStart`, `TimerPreempts` on the ready list, statuses, `cur` and the interrupt flag of each thread. A failed assertion sets `panic` and stops everything |
| `Scheduler` | the same | abstractly, threads and nothing else: they start, sleep, wake each other, set their flags and are preempted |
| `Interrupts` | `kernel.S`, `interrupt.c`, `timer.c`, `thread.c`, `switch.S`, `process.c`, `tss.c` | the layer below: the one flag of the CPU, the PIC, frames on kernel stacks, `ticks`, `selfKStack`, esp0 and cr3. Shown to implement `Scheduler` |
| `Locks` | `kernel/sync.c`, `lib/cas.S`, `main.c` | one action per access of `lockAcquire` and `lockRelease` to shared memory; `Boot` |
| `Conditions` | `kernel/sync.c` | `conditionWait`, `conditionSignal` around lock and scheduler |
| `Console`, `Lines` | `device/console.c`, `print.S` (`puts`), `syscall-init.c`, `kernel.S` | `consolePuts`, `putchar`, `Return`; abstractly, a screen on which lines are not mixed |
| `IoQueue`, `BoundedFifo` | `device/ioqueue.c`, `keyboard.c` | the handler runs in the context `<<t, "irq">>` of the thread it interrupted, whose own context waits for it |
| `Semaphores`, `Semaphore` | `kernel/sync.c` | down and up; abstractly, a counter that never goes below zero |
| `Queues` | `thread.c`, `sync.c` as users of `list.c` | abstractly, what the lists are for: queues of threads, each thread in one at most, served in order. `Semaphores` is shown to implement it, stale pointers and all |
| `Keyboard` | `device/keyboard.c` | one action per byte; the environment presses, releases and repeats keys |
| `Screen` | `lib/kernel/print.S`, `keyboard.c` | `putchar` in nine steps, one for each access to a port and one for the store; `unknownKey` is the handler that prints, between any two of them. The text "as on paper" is history |
| `Strings`, `Stdio` | `lib/string.c`; `lib/stdio.c`, `printC.c` | pure functions, and next to them what their comments promise |
| `Printing` | | puts them together with `Screen`, where what they promise is an invariant |
| `Bitmap` | `kernel/bitmap.c` | the operations as operators, used by the next three modules |
| `Pages` | `kernel/memory.c` | mallocPage, mfreePage and getPage with palloc, pfree and pageTableAdd inside; the two accesses of bitmapSet are two actions. `MCPages` adds the symmetry of the threads for TLC |
| `Heap`, `Allocator` | `kernel/memory.c` | sysMalloc, sysFree on arenas, free lists and pages; abstractly, disjoint pieces of memory |
| `MemPool` | `kernel/memory.c` | memPoolInit with the widths of its variables |
| `Tlb` | `kernel/memory.c`, `process.c` | the kernel's page table against what the CPU caches of it |
| `Startup` | `main.c`, `thread.c`, `process.c`, `memory.c` | `MemPool` and `Tlb` together, from the size of the memory over the pages of the four tasks of `main` to what threads do with the pages that are left |
| `BitmapProofs` | `kernel/bitmap.c` | what the loops of `bitmapScan` return; used by the next two |
| `PagesProofs`, `MemoryProofs` | — | theorems about `Pages`; about `Startup` with `MemPool` and `Tlb`, and about `Heap` |
| `ThreadsProofs` | `lib/list.c`, `kernel/thread.c` | lemmas: when the pointers are those of sequences, what each list operation does to the sequences, and `schedule` and `threadUnblock` with them; used by the next three, and for the lists of the heap |
| `SemaphoresProofs`, `InterruptsProofs` | — | theorems about `Semaphores` with lock, conditions and lists; about `Interrupts` |
| `IoQueueProofs` | — | theorems about `IoQueue` with lock, conditions and lists; about `Keyboard`, whose handler fills the queue |
| `ConsoleProofs` | — | theorems about `Console` with the lock; about `Screen`, which it prints on |

`PROJECT.json` maps each definition to its lines (`map`) and gives each property
a mutant of the code that breaks it (`mutants`); the mutated forms stand next to
the definitions, marked as such.

## How the code is modelled

**Interleaving.** There is one CPU. What runs with interrupts off, up to the next
`schedule`, is one step. What may run with interrupts on is a step per access to
shared memory, and `TimerPreempts` can come between any two. That a time slice lasts 31
or 16 ticks is forgotten there: nothing says how much code fits into it.
`Interrupts` counts the ticks, and knows of the code in between only which kind it
is (`at`): user mode, a system call, a kernel thread, a way in or out. A process
inside a system call goes through the same labels with its flag off; only
`schedule` takes the CPU from it.

**Interrupt flag.** In the modules over `Threads`, `iflag[t]` is live for the thread on
the CPU and saved for the others. The CPU has only one flag, and `switchTo` does not
save it: it stays clear through `schedule`, until the next thread comes to the
`iretd` or `intrSetStatus` that restores its own. `Interrupts` models this, defines
each thread's flag from the frames on its stack (`Flag`), and `ImplementsScheduler`
shows that what the other modules assume of `iflag` is so.

**Lists.** A list operation is one step. Every list that interrupts could break
in the middle is guarded by a spinlock or touched with interrupts off only; the
traces that damage lists do so between operations.

**Damaged lists.** When a list is damaged, its operators follow the pointers to
wherever they lead. If the kernel takes a list head or a null pointer for a
thread, `panic` becomes `"wild"` and the model stops, since from there on the
code writes to arbitrary memory. Up to that point the properties proved of the console hold.

**Locks in `Pages` and `Heap`.** In `Pages` the pool locks are plain mutexes; that
`lockAcquire`/`lockRelease` are such is what `MutualExclusion` in `ConsoleProofs` shows. `sysMalloc` and
`sysFree` run under the lock of their pool and are one step in `Heap`. In `Locks` the last
two accesses of `lockRelease`, the check of the status and the `intrDisable` of
`threadUnblock`, are one step (`ReleaseWake`): nobody else wakes a thread that was popped.

**Failures of `mallocPage`.** It stops the kernel if it is asked for 3840 pages or more
(`MaxPgCnt`, action `TooManyPages`), and it gives up half-way when it has addresses but
no frame, taking nothing back (`memory.c:239`, "TODO: reclaim allocated pages"). A
history variable `lost` of `Pages` and of `Heap` collects what is left behind, so that the
properties can say that nothing else is: `marked`, the addresses of such a request, and
`mapped`, those of its pages that have a frame. In `Heap` (`RunOut`) it can happen at
every page of every request, since a process has far more addresses than its pool has
frames, and other processes and page tables take frames too. `Tlb` and `Startup` leave it
out: they are about the first kernel pages, of which there are as many as frames. A
process whose `getPage` has found no frame for its stack (`memory.c:307`) keeps the lock
and goes on with its stack at address `NULL + PG_SIZE`, where its first push faults; in
`Pages` it does nothing more (`"noStack"`).

**Data.** A character is a model value, in `Console` even only its writer. Addresses
are counted in pages, and in `Heap` in units of a few bytes. The contents of a page
are forgotten when it is unmapped.

**Pure functions.** `Strings` and `Stdio` have no state. What they promise is a constant
formula (`StringsRight`, `NumbersRight`, `FormatRight`) over all inputs within the
bounds; it rides on the run `screen`, as what is printed there, and has one value
in all its states (`StringsKept`, `FormatKept` in `Printing`). Loops are recursive
functions, defined where the loop can get before it meets a terminator.

**Callers.** Semaphores, `ioqueueGetchar` and `getUserPages` have no caller in the
kernel as it is; the first two are modelled with arbitrary callers, as threads
and as system calls.

## Runs

| run | instance | checks | shows |
|---|---|---|---|
| `console_threads` | main, 2 kernel threads, 1 process, strings of 2 | `TypeOK`, `LockExclusion`, `ReleaseByHolder`, `InterruptibleIsRunning`, `ImplementsLines` | exclusion and unmixed strings whatever preemption does, to the lists too |
| `console_assert` | the same | violates `NeverQueuedTwice` | and something does happen to the lists |
| `semaphores` | main, 1 kernel thread, 2 processes, values 0 to 2, starting with 1 | `NoLostWakeup`, `ListsConsistent`, `ImplementsQueues`, `NoUnitForgotten`, `ImplementsSemaphore` | with at most one contender that can be interrupted, lock, condition, lists and scheduler are right in every respect |
| `ioqueue` | 2 reading processes, ring of 3, 3 keys, fair | `LockExclusion`, `NoMissedSignal`, `SomebodyReady`, `ImplementsFifo`, `EveryKeyRead` | the queue between handler and readers, full ring included; here `LockExclusion` also says that the lists are right |
| `ioq_overflow` | 1 reader, 4 keys | violates `SomebodyReady` | with more keys than that, handlers put everybody to sleep |
| `interrupts` | main, 1 kernel thread, 2 processes, quanta of 1 and 2 ticks, fair | `EntersOnOwnStack`, `FlagOfCode`, `InitialContext`, `WaitBounded`, `ImplementsScheduler`, `ReadyRuns` | interrupts, stacks, TSS and quanta carry the scheduler of the other modules, and every ready thread runs |
| `keyboard` | 12 keys, 3 held | `NothingStuck`, `TypesWhatIsPressed` | all key events, repeats, Pause |
| `screen` | 4 rows of 2, 6 rows of text, a segment of 12 cells; bytes 0, 37, 65, 128, 255, texts of 2, formats of 3 items, integers of 12 bits | `ShowsLastRows`, `InterruptedStaysInside`, `StringsKept`, `FormatKept` | wrapping, scrolling, erasing; a handler that prints in between; what is printed is right |
| `pages` | 2 kernel threads, or 2 processes; 4 frames in each pool; requests of up to 3 pages, of which `mallocPage` allows 2 | `FrameOnce`, `FramesAccounted`, `LiveMapped`, `NoPanic`, `FirstFit` | preemption inside the bitmap updates; page tables from the other pool; pages run out before a request, in the middle of one and in `getPage`; requests that are too large |
| `pages_race` | 1 kernel thread and 1 process | violates `FrameOnce` | why the two kinds do not run together in `pages`: a page table is taken without the pool's lock |
| `heap` | 8 pages of 8 units, 3 frames; sizes 2 and 3 (a block each), 6, 7, 15 and 23 (1 to 4 pages, 4 being too many) | `FreeListsRight`, `ArenasRight`, `ImplementsAllocator` | arenas made, filled, emptied and given back; frames run out at any page of a request |
| `startup` | 1039 memory sizes, 2 MB to 1 GB; tasks in kernel pools of up to 64 pages | `PoolsInMemory`, `SmallMemoryManaged`, `TasksApart`, `MissingPagesNoticed`, `StaleIsRecent` | from the memory found to threads that share what is left of it |

**Why the instances are large enough.** A defect of a lock needs two threads that
contend; a third one gives a waiter with another behind it, and the proofs cover
any number. The ring of 3 has 2 usable slots, so that it wraps round, is full
with two keys and makes a third handler wait. Four bits in bytes of two give runs
inside a byte, across one and over a whole one. In `pages` there are as many
frames as it takes for one request to succeed, the next to succeed in part and a
third to fail; a process has two page tables. Three frames of the heap hold one arena of
each size and a large block at the same time, and one arena can be full while
another of the same size is made; eight addresses leave room for such a set beside and
between the pages that failed requests have left behind. The screen has every kind of row: first, middle,
last; bytes of `BASE` 6 give a cursor whose high byte is 0 or 1 on the screen and reaches
35 cells, over the screen of 8 and the segment of 12, when its bytes are mixed, as 256
does for 2000 and 8192. In `interrupts` a quantum of 1 ends at the first tick and
one of 2 does not; two processes and a thread give every order of entry from user
mode after another process or a kernel thread. The sizes of `startup` lie on both
sides of the 16 bit wrap-around, which comes every 256 MB, and end in kernel pools
that suffice for none, some and all of the pages that `main` asks for.

Bounds of the model only are `MaxPages` (pages of a request), `MaxValue`, `MaxHeld`, `MaxRows`, `Outstanding`,
`Size`, `Capacity`, `MaxKernelBits` (kernel pools for which tasks are made), `MaxFree`
(pages that are left for the threads), `WindowTicks` (ticks between two given
lines of a new process), `Byte`, `MaxLength`, `Nibbles` and `MaxItems` (inputs of
the pure functions). Each is in a guard or names the inputs tried, and is
commented where it is declared.

**`CHECK_DEADLOCK FALSE`** stands where the system really stops: `ConsoleThreads`
and `Semaphores` (a process with interrupts off spins for a `waitersLock` whose
holder, a preempted kernel thread, it keeps from running; in the first also a
failed assertion), `MCPages` (`getPage` returns without releasing the lock, so that
everybody ends up waiting for it; and the assertion of `mallocPage`), `Heap` (that assertion;
or failed requests have taken all addresses, and nothing is in use), `Screen` (the bound on the text is reached, or
a store misses the video segment), `Startup` (a NULL was used, or the bounds leave no
page to ask for), `Interrupts` (main spins in `while (1)`, which is no step; the
timer goes on for ever under its fairness), and the runs that look for a violation.
The other runs check deadlock, and have none.

## Fairness

Two runs need it. `ioqueue` (`IoQueue`, `Fairness`) has weak fairness of the steps of code:
the CPU does not stop; strong fairness of a reader's call: the instructions before
the call are executed with interrupts on and a thread is preempted only after a
quantum of many instructions, so it arrives however often it is preempted; strong fairness of the
timer: the PIC latches an interrupt that comes while they are off and delivers it
when they are on again, however short that is. No key need ever be pressed, and
no order among ready threads is assumed beyond that of the ready list.

`EveryKeyRead` promises a handler its turn only if the ring does not stay full: a
handler that was woken for a free slot may find that a later key has taken it, and
nothing in the code makes an end of that. `ioqueue` bounds the keys that are pressed
and not yet read to one more than the ring holds; with more, see `ioq_overflow`.

`interrupts` (`Interrupts`, `Fairness`) has weak fairness of the PIT, which goes on
by itself, and of the code that leads into, through and out of an interrupt and
into a new thread; strong fairness of a pending interrupt, latched by the PIC as
above; and strong fairness of the end of a system call, process by process: with
interrupts off it only runs on or sleeps, and every sleep was somebody's decision to
wake it again. Threads need not do anything: in `ReadyRuns` others may compute for
ever, sleep or wake each other in turn.

## Proofs

What is proved holds for every value of the constants that satisfies the assumptions
of the modules (`...Assumption`, named and commented where they are declared; they
say that sets which stand for different things are disjoint, that sizes are numbers, and
how the code sets them up), and for the further hypotheses of the last column. Each
of those is met by the run that checks the same property (`KernelRuns` by the half of
`pages` in which kernel threads run).

| theorem | property | says | needs |
|---|---|---|---|
| `ConsoleProofs` | | | |
| `TypeCorrect` | `TypeOK` | types | |
| `MutualExclusion` | `LockExclusion` | the holder is exactly who is past the compare-and-swap; `waitersLock` is occupied exactly while one thread is inside it | |
| `HolderReleases` | `ReleaseByHolder` | the assertion in `lockRelease` does not fail | |
| `PreemptsTheRunning` | `InterruptibleIsRunning` | the timer takes the CPU from running threads only | |
| `Refinement` | `ImplementsLines` | strings are never mixed on the screen | |
| `ScreenStaysInside` | `InterruptedStaysInside` | no `putchar` stores beyond the segment, but for the one instruction at which a handler makes it read the wrong byte, and a backspace at the top left (a fault of its own in `Screen`) | |
| `ScreenShowsText` | `ShowsLastRows` | as long as no `putchar` is interrupted, the screen shows the last rows of what was printed, and the cursor where it goes on | |
| `StringsStayKept` | `StringsKept` | the loops of `string.c` compute what its comments say, for all strings and bytes | |
| `SemaphoresProofs` | | | |
| `SemaphoreCounts` | `ImplementsSemaphore` | the value counts, never below zero, a unit for each down | |
| `ListsAreConsistent` | `ListsConsistent` | the lists are well formed and agree with the statuses; no assertion of the scheduler fails | `OneContender` |
| `ListsAreQueues` | `ImplementsQueues` | with their stale pointers the lists implement queues | `OneContender` |
| `InterruptibleRuns` | `InterruptibleIsRunning` | as in the console, with `conditionWait` | `OneContender` |
| `NoWakeupIsLost` | `NoLostWakeup` | whoever sleeps on a free lock has somebody coming | `OneContender` |
| `NoUnitIsForgotten` | `NoUnitForgotten` | while a thread waits, each unit has a taker or a signal to come | `OneContender` |
| `InterruptsProofs` | | | |
| `StacksFit` | | what is on each kernel stack is what the code has left there; ready list and statuses agree | |
| `CodeHasItsFlag` | `FlagOfCode` | threads and user mode run with interrupts on, system calls and handlers with them off | |
| `OwnStack` | `EntersOnOwnStack` | user mode has its own cr3 and esp0 and an empty kernel stack | |
| `ContextFound` | `InitialContext` | a new process finds the place for its context; the kernel follows no wild pointer | `LongQuanta` |
| `SchedulerImplemented` | `ImplementsScheduler` | one CPU flag and `switchTo` amount to a flag per thread | `LongQuanta` |
| `ReadyWaitBounded` | `WaitBounded` | a ready thread waits one quantum of each other thread at most | |
| `BitmapProofs` | | | |
| `ScanFirstFit` | | `bitmapScan` returns the first run that fits, or -1 if there is none | |
| `PagesProofs` | | | |
| `SpaceInvariant` | | locks, bitmaps, page tables and requests agree at every program point | |
| `NeverPanics` | `NoPanic` | the assertions of `vaddrGet`, `pageTableAdd` and `mfreePage` do not fail; that of `mallocPage` only where a pool has so many pages that `sysMalloc` accepts requests of `MaxPgCnt` | |
| `LiveStaysMapped` | `LiveMapped` | what is lent is mapped and overlaps nothing | |
| `FirstFitAlways` | `FirstFit` | every scan of `vaddrGet` and `palloc` is first fit | |
| `FramesOnce`, `FramesAreAccounted` | `FrameOnce`, `FramesAccounted` | a frame has one user; whatever is marked or mapped is in use or in `lost`; no lock stays held but by a failed `getPage` | `OneKindRuns`, `TableIsFrame` |
| `KernelFrames` | both | the same for kernel threads | `KernelRuns` |
| `MemoryProofs` | | | |
| `PoolsAreInMemory` | `PoolsInMemory` | pools lie in the memory and apart, 16 bit counters included | |
| `SmallMemoryIsManaged` | `SmallMemoryManaged` | up to 257 MB fewer than 16 pages are lost | |
| `WrongForOneTurn` | `StaleIsRecent` | a stale translation is of a page unmapped since cr3 was last loaded | |
| `TasksStayApart` | `TasksApart` | pages and frames of all tasks are mapped and apart | |
| `EnoughOrNoticed` | `MissingPagesNoticed` | a missing page is noticed, but for the exception of 24 pages | `ByteBits = 8` |
| `FreeListsStayRight` | `FreeListsRight` | the free lists are well formed and hold exactly the blocks of each size that nobody uses | |
| `ArenasStayRight` | `ArenasRight` | counts and arenas agree; addresses and frames taken are those of the arenas and, apart from them, those in `lost`; an empty arena is given back; its assertion in `sysFree` does not fail | |
| `HeapIsAllocator` | `ImplementsAllocator` | what is handed out lies in the memory, is as large as asked for, and overlaps nothing in use | |
| `IoQueueProofs` | | | |
| `RingIsFifo` | `ImplementsFifo` | the ring is a bounded queue, whoever reads and however | |
| `OneInside` | `LockExclusion` | one context is inside the two calls, thread or handler; the lists agree with the statuses | `OnlyProcesses` |
| `NoSignalIsMissed` | `NoMissedSignal` | a sleeper with something to take has somebody awake ahead of it | `OnlyProcesses` |
| `SomebodyRuns` | `SomebodyReady` | `schedule` finds a thread; no assertion of `sync.c` and `thread.c` fails | `OnlyProcesses`, `FewKeys` |
| `NothingGetsStuck` | `NothingStuck` | no flag outlives its key, no prefix is left over | |
| `TypesTheKey` | `TypesWhatIsPressed` | the character is that of the key | |

**The hypotheses.** They are definitions beside the theorems, and say where the code is
right rather than that it is.

- `OneContender`: of the threads other than main, at most one is a kernel thread; processes,
  which are in the kernel with interrupts off, are any number. With two kernel threads
  the second can find the lock taken, and be preempted while it queues itself in
  `lockAcquire`: the first of the disagreements below. That the value counts does not
  depend on it.
- `OnlyProcesses`: who reads the I/O queue comes through int 0x80 and keeps interrupts off.
  A kernel thread that reads with interrupts on can be interrupted by the handler inside
  the call, and the handler then sleeps for the lock of its own thread (`NoSelfWait` below).
- `FewKeys`: the keys pressed and not yet read are fewer than a full ring and a waiting
  handler in every thread together hold. It is the exact bound: with as many,
  nobody is left to run (`ioq_overflow`).
- `LongQuanta`: the first quantum of a process is longer than the ticks that `startProcess` takes
  between its first `intrEnable` and the use of its reserved place. The code's quantum is 16,
  and without it the disagreement on `process.c:29` is real.
- `OneKindRuns`, `KernelRuns`: the threads that run together are all kernel threads, or all
  processes; only the former (`pages_race` shows why). `TableIsFrame`: palloc has had a
  frame whenever a page table was asked for; its result is not tested. It stands inside the
  theorem, as a condition on the state.
- `ByteBits = 8`: the 24 pages of the exception are whole bytes.

Two assumptions of modules say more than that. `ScreenAssumption`: the bytes of the cursor
have an even number of values, `Limit`, the cells that a cursor with a high byte from the
screen can name, is within the segment, and the segment is below half of what a register
holds. The code has 80 by 25 cells, 256, 2048, 8192 and 32768.
`HeapAssumption`: a page has room for the arena struct and the largest block; in the
code 12 bytes and 1024 of 4096. There is no hypothesis about callers of the heap other than
that they free what they have; one that frees anything else is outside `Heap`.

**Console.** `LockExclusion` is not inductive by itself. The invariant is

    IInv == TypeOK /\ ControlOK /\ LockExclusion /\ LineOK

`ControlOK` says where a call returns to at each program point, so that a lock
taken in `consolePuts` is known to lead to `puts`, and that the boot thread is never in
a call. `LineOK` ties the screen to the lock: what stands on the open line was
written by the holder, as many characters as `printed` says, and nothing stands
there when nobody is past the lock; with it each `putchar` is a step of `Lines`, and
all other steps stutter. There is one lemma per action. The proof nowhere uses that
the lists are well formed. It therefore also covers the behaviours of `console_assert`
in which they are not: threads may be lost or queued twice, but never two of them let
past the lock.

**Lists.** `ThreadsProofs` relates pointers to sequences. `IsList(h, L, q)` says that from
the sentinel of L the next pointers go through the threads of q and back, and the prev
pointers the other way; it says nothing of threads that are not in q, and so
nothing of the pointers that `listRemove` leaves in them. `Agree(Q)` says it of all
lists at once, with no thread in two of them and the ready list holding exactly who is
ready. Each list operation then has a lemma that says what becomes of Q, which uses
only that the nodes it changes are not in other lists. `ListContents` is a recursive
function; that it returns q is an induction over positions, as are the loops of
`bitmapScan`. The library's induction theorems take an operator as a parameter; here
each induction is over a set of numbers instead, which has a least element.

**Semaphores.** In four layers, each inductive on the ones before.

- `LockInv`: control points, the lock and the value. A context is between two labels at
  which the lock is held exactly if its thread is the holder; `downTake` is reached
  with a value that is not zero. It is independent of the lists, and `SemaphoreCounts`
  follows from it.
- `FlagInv`: each thread's interrupt flag, and the one that `conditionWait` has saved, is
  determined by its place in the code. A thread that is off the CPU with interrupts off is
  in `lockAcquire`; and (`SpinOK`) only a process is ever between the two checks of
  `lockAcquire`, where the lock stays taken because it is another, preempted thread's.
- `Placed(Q)`: `Agree(Q)`, and for each thread the one place where it is: on the CPU, in
  one of the queues, or in the hands of the one thread that has taken it off and will
  wake it, which is still coming. Each step changes the queues as `Queues` allows
  (`Moved`), which is the refinement.
- `Served(Q)`: whoever is queued on a free lock has somebody coming, and
  `Cardinality(Ahead) >= value` while somebody waits on the condition. A step
  disturbs the second only by adding a unit, by giving a signal, or by taking a unit;
  the lemmas follow the set `Ahead` through them.

**I/O queue.** The same four layers, with two contexts in each thread: the handler's lies on
top of that of the thread it interrupted.

- `LockInv`: control points, the lock, and what each context has read of the ring
  (`RingOK`): one that is about to advance `tail` has stored its character at `tail`, and there
  is room. `RingIsFifo` follows for all callers. `Contents` is a sequence made from
  slots with `% BUFSIZE`; the lemmas `ViewPut` and `ViewTake` say what becomes of it.
- `FlagInv`: a thread's flag is off exactly while one of its contexts is in a call, and only
  one ever is. Off the CPU such a context is where `schedule` in `conditionWait` left it. So
  a context that acts is `Alone`, the lock is free whenever a call begins, and nobody
  queues for the lock.
- `Placed(Q)`: as for semaphores; the list that a thread is on also says which of its two
  contexts sleeps.
- `Served(Q)`: for each condition, while anybody is queued, `Work <= Cardinality(Ahead)`:
  `Work` counts what there is to take, characters or free slots; `Ahead` are the contexts
  that are about to take one, or to signal. It is the same formula for readers and for
  handlers, and a character that goes in or out adds one to each side of one of them.
- `Bounded`, for the last theorem: characters in the ring and in handlers' hands are
  together at most `Outstanding`. Were the ready list empty in `conditionWait`, all
  threads would sleep in the queue, main in a handler; by `Served` the ring would be full,
  so everybody in a handler, which is one key too many.

**Interrupts.** `Inv == TypeInv /\ ThreadsInv /\ StackInv`. `StackInv` gives for each label
and for each thread that is off the CPU the frames on its kernel stack: nothing, an
interrupt frame, or what `schedule` has pushed on top of one. The flag a thread will
have is in those frames. `WindowInv`, for the last two theorems, bounds what is left of
a new process's quantum from below by what is left of its window; that `schedule`
never finds an empty ready list rests on main, which never sleeps.

`WaitBounded` rests on `WaitInv`. `Left(q, t)` is the set of the ticks that a ready thread t
may still have to wait for: the rest of the quantum of each thread that is ahead of it,
because it runs, sleeps (it may be woken, and then goes first) or stands before t in the
ready list q. What t has waited and the size of that set are together at most the size of
`Quanta(t)`, the quanta of all others. A tick takes one element out, that of the running
thread; `schedule` gives a new quantum only to a thread that goes to the end of the
list, where it is ahead of nobody; to wake and to start threads adds none. Nothing is
needed of the quanta, and no fairness.

**Pages.** `SpaceInv` describes what each thread, preempted at any program point, has done
of its request: the virtual range it has taken is apart from those of others, mapped
so far as `i` says, and the lock that its place needs is its own. `FrameInv` gives
every frame whose bit is set exactly one owner: a mapping, a page table, or a call that
is about to map it; and says that the byte a preempted `bitmapSet` has read is still the
one in the bitmap, since nobody else is inside the pool. `LostKnown`, a part of `SpaceInv`,
says what failures have left behind: addresses that are marked and belong to no request or
loan, mapped exactly where `lost` says so; and that every other marked address belongs
to one. `FramesAccounted` follows from it when no request is under way.

**Heap.** `HeapInv` has two halves. `Sound` says what each page is: free, the header of a
large block with the pages behind it, or an arena; the pages of two of them are
apart, and their union is the bitmap without the addresses in `lost` (`Kept`). `FramesKnown`
says that the pages with a frame are these and those that `lost` says are mapped. What is lent lies on its arena, at the
address of a block, and a counter says how many of the blocks are not lent. `Holds` says
that the list of each size is that of a sequence (`IsList` of `ThreadsProofs`, with blocks
for threads) whose members are the blocks that are not lent of all arenas of the
size (`FreeOf`). The second half makes the first inductive, and the other way round: a block
popped from a list is free because the list has no other, and `sysFree` finds every
block of an arena on its list because the count was right. The two loops
that run over the blocks of an arena, of `sysMalloc` to fill the list and of `sysFree`
to take each out, are recursive functions of the number of blocks done; the lemmas
`HoldsSplit` and `HoldsUnsplit` are inductions over it, and say what the lists are at the end.

**Screen.** Two invariants, for the two theorems. `InsideInv` bounds each byte that is read,
computed or written, at each of the nine steps and in the handler: a high byte of the cursor
is at most that of the last cell, so that with any low byte the store is
below `Limit`. It holds until a handler comes in at `readHigh`, the one step after which
the register selected is not the one that the next instruction means; everywhere else
the handler leaves register 15 selected where `putchar` needs it or selects again.
`TextInv` is for a `putchar` that is left alone: before the store the screen shows
`Printed`, after it `Typed(Printed, cl)`, with the cursor already in the controller, or in bx
and partly written. `Shows` compares the screen with the last rows of a text;
that each of `putchar`'s cases (a character, the end of a row, a line feed, a
backspace, a scroll of the whole screen) takes a screen that shows a text to one that
shows it typed is a lemma each, on products such as `row * COLS + column` for
all `COLS`. `puts` of the handler is a recursive function of the characters printed, and
what it does an induction over them.

**Strings.** A loop of `string.c` is a recursive function, that is, CHOOSE a function that
satisfies the recursion. So each needs two facts: there is one (`LoopUpIs`, `LoopDownIs`,
`CountIs`, which construct it from where the loop stops first), and its value is that
at the first stop (`LoopUpEnds`, `LoopDownEnds`, `CountEnds`, inductions over the turns). The
induction is that of `UpTo`, over a set of numbers. With them there is one lemma per C
function, on any memory, that says where it stops (`EndIs`, `memcmpIs`, `strcmpIs`,
`strchrIs`, `strrchrIs`, `strchrsIs`), and then three on two texts side by side: `Compares`,
`Finds` and `Joins`. That the signed and the unsigned comparison agree on what is equal
is `charIs`.

**Start-up.** `MemPool` is arithmetic on words of 16 and 32 bits for every memory size. For
the tasks `MemoryInv` says that the pages and frames in use are those of the tasks and
pairwise apart (`Fits`, `Apart`), preserved through each of the nested requests;
`BootInv` says that until threads run, the pages are given from the first on
(`FirstPages`), so that a count of them tells which request fails.

**Keyboard.** `KeyboardInv` says in which phase of a code of several bytes the handler and
the user are, and that outside of it each flag stands for a held key.

**Only model-checked.** `FormatKept`: an int of `Stdio` has 16^`Nibbles` values, and no
backend knows anything of `^`, or of `SelectSeq`, which picks the arguments. Out of the prover's reach, with ENABLED and
fairness, is liveness: `EveryKeyRead`, `ReadyRuns`. All other properties of the runs have a
theorem.

## Disagreements with the source's own words

Each of the first three has a run that shows it.

| where | run |
|---|---|
| `sync.c:35` queues the thread on the lock before interrupts are off (`:43`); preempted there, it is queued twice, and the assertions of `thread.c:148,168` fail | `console_assert` |
| `ioqueue.c:46` blocks the interrupted thread when the ring is full; with enough keys the ready list is empty, `thread.c:179`. The kernel as it is has no reader, so 63 keys fill the ring | `ioq_overflow` |
| `memory.c:211` takes from `kernelPool` under the lock of `userPool`; one frame for two | `pages_race` |

Others were met while modelling. Those with a property are stated in the module
and do not hold; to see it, check the property with the instance given.

| where | property |
|---|---|
| `ioqueue.h:9` "thread-safe": the handler sleeps for a lock of the thread it interrupted | `IoQueue!NoSelfWait`, `Consumer = {k1}`, `Process = {}` |
| the same: the handler spins for its `waitersLock` | `IoQueue!NoSpinForever`, the same |
| `memory.c:211` does not test the result of palloc; page table at physical 0 | `Pages!TableIsFrame`, `KernelBytes = 1` |
| `memory.c:228` "ASSERT(pgCnt > 0 && pgCnt < 3840)" against `:373`, which accepts every size below `poolSize`: with 32 MB a pool has 15 MB, and `malloc(15 MB - 1)` of a process asks for 3841 pages and stops the kernel | `MemPool!RequestsInRange`, in the run `startup`; `Pages!NoPanic` says that no smaller pool is concerned |
| `memory.c:239` "TODO: reclaim allocated pages.": a request that fails half-way keeps its addresses and frames for ever | `lost` in `Pages!FramesAccounted` and `Heap!ArenasRight` |
| `memory.c:307`: `getPage` returns NULL with the lock of the pool held | the exception in `Pages!FramesAccounted` |
| `memory.c:134` "update TLB" drops another translation | `Tlb!TlbUpdated`, in the run `startup` |
| `memory.c:14` "can manage 4 * 128MB": a uint16 wraps at 256 MB | `MemPool!ManagesHalfGB`, in the run `startup` |
| `print.S:23`, `keyboard.c:177`: a handler that prints after `putchar` has selected the high byte of the cursor and before it reads it leaves the low byte selected; the store may leave the video segment | the exception in `Screen!InterruptedStaysInside` |
| `process.c:96`: with a kernel pool of exactly 24 pages the first process gets NULL for a page directory, which marks it as a kernel thread | the exception in `Startup!MissingPagesNoticed` |
| `process.c:29`: a new process that is preempted between its first `intrEnable` and this line builds its context over the stack in use | `Interrupts!InitialContext`, `WindowTicks` not less than the quantum |
| `string.c` (strchr, strrchr, strchrs): a signed `char` is compared with a uint8, so that a character from 0x80 on is never found | excepted in `Strings!Places` |
| `stdio.c:86`: printf formats into 1024 bytes of its stack and does not count them | |
| `bitmap.c:18` "return > 0": it returns 0 on an empty bitmap, as callers expect | |
| `keyboard.c:38` the columns of the table are the other way round | |

## Not modelled

- `boot/`: BIOS and disk I/O, straight-line set-up before the kernel runs.
- The programming of PIT, PIC and IDT and the descriptors of `tssInit`: constants written
  once to ports and tables, with no later state that depends on their order.
- Exceptions: their handler prints and spins with interrupts off. A fault ends the
  model where it is one (`fault` in `Screen`, `"wild"` in `Threads`); in `Pages` the process
  without a stack allocates no more, and the others go on as if it had not run yet.
- The frames that page tables of processes take from the kernel's pool are counted in
  `Pages` and not in `Tlb` and `Startup`.
- A key that comes in the window of `startProcess` that `InitialContext` is about: there the timer is
  the only interrupt.
- General registers: `switchTo` pushes and pops four of them, interrupt frames all. The
  frames of `Interrupts` have the two parts that decide what runs next.
- `threadAllList` and `elapsedTicks`: written and never read. Pids: read by `getpid` only.
- The entries that `createPageDir` copies (`process.c:67`). They go wrong for a process made
  before the kernel's memory grows past the page tables that the loader has made;
  main makes its processes first and uses little, and the modules stay in the first table.
- Colours, and the single stores of a scroll.
- `conditionSignalAll`, a loop around `conditionSignal`; `getUserPages`: no callers.
- Text: what is printed at boot and by `panicSpin`.
- Makefiles, beyond that they arm `ASSERT`.

## Plan

Done, in this order: lists; scheduler; lock; console and its proof; conditions;
I/O queue; bitmap; page allocator; TLB; heap; pool set-up; keyboard; semaphores;
screen; interrupts, quanta and stacks below the scheduler; screen port by port with the
handler in between; strings and formatting; start-up.

Proved so far, in this order: console; bitmaps and page allocator; start-up; keyboard;
lists; interrupts; semaphores; I/O queue; heap; screen; strings.

Next module: page directories of several processes and of the kernel, with the copy of
the kernel's entries and kernel memory of more than one page table.
