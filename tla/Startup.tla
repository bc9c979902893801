------------------------------- MODULE Startup -------------------------------
(***************************************************************************)
(* From the memory that the loader has found to threads that use it: the   *)
(* pools of memPoolInit, then the two processes and two kernel threads     *)
(* that main() makes, of kernel pages that nobody checks to be NULL, then  *)
(* the requests of those threads, one at a time (Tlb).                     *)
(***************************************************************************)
EXTENDS MemPool, Tlb, Sequences

CONSTANTS MaxKernelBits,   \* bound: kernel pools for which tasks are made
          MaxFree          \* bound: pages that are left when threads start

VARIABLES task,      \* the tasks on the ready list, in order
          failed     \* what a NULL has led to

vars == <<memCapacity, layout, pageVars, task, failed>>

PG_SIZE           == 4096
USER_VADDR_START  == 32840      \* addresses in pages: 0x8048
USER_STACK3_VADDR == 786431     \* 0xbffff
KERNEL_START      == 786432     \* 0xc0000

(* Size of the userVaddr bitmap of a process, in bytes. *)
vaddrBytes == (KERNEL_START - USER_VADDR_START) \div 8

(* Mutant: one page for each PG_SIZE bits. *)
bitmapPgCntBits == (8 * vaddrBytes + PG_SIZE - 1) \div PG_SIZE

bitmapPgCnt == (vaddrBytes + PG_SIZE - 1) \div PG_SIZE

Init == /\ memCapacity \in Capacity /\ layout = None
        /\ frames = bitmapInit(0) /\ vaddrs = bitmapInit(0)
        /\ pte = Empty /\ tlb = Empty
        /\ live = {} /\ removed = {}
        /\ task = <<>>
        /\ failed = "nothing"

(* memPoolInit clears the bitmaps it has laid out. *)
memInit == /\ memPoolInit
           /\ frames' = bitmapInit(layout'.kBits \div ByteBits)
           /\ vaddrs' = bitmapInit(layout'.vaddrBits \div ByteBits)
           /\ UNCHANGED <<pte, tlb, live, removed, task, failed>>

-----------------------------------------------------------------------------
Queue(t, m) == /\ Becomes(m)
               /\ tlb' = Cached(DOMAIN m.pte \ DOMAIN pte, m.pte)
               /\ task' = Append(task, t)
               /\ UNCHANGED <<memCapacity, layout, live, removed, failed>>

Fail(how) == failed' = how /\ UNCHANGED <<memCapacity, layout, pageVars, task>>

Booting == layout # None /\ layout.kBits <= MaxKernelBits /\ failed = "nothing"

(* threadStart: one page, used without a test. *)
threadStart ==
  LET pcb == Malloc(Memory, 1)
  IN  /\ Booting /\ Len(task) \in {2, 3}
      /\ IF pcb.got = NoPage THEN Fail("page 0 taken for a PCB")
         ELSE Queue([pcb |-> pcb.got, bitmap |-> NoPage, pageDir |-> NoPage], pcb)

(* processExecute: the PCB, createUserVaddrBitmap, createPageDir.  memset   *)
(* asserts that the bitmap is not NULL; a page directory that is makes the *)
(* process one that uses the kernel's.                                     *)
processExecute ==
  LET pcb    == Malloc(Memory, 1)
      bitmap == Malloc(pcb, bitmapPgCnt)
      dir    == Malloc(bitmap, 1)
  IN  /\ Booting /\ Len(task) \in {0, 1}
      /\ IF pcb.got = NoPage THEN Fail("page 0 taken for a PCB")
         ELSE IF bitmap.got = NoPage THEN Fail("ASSERT(dst != NULL)")
         ELSE Queue([pcb |-> pcb.got, bitmap |-> bitmap.got, pageDir |-> dir.got], dir)

(* main() has turned interrupts on; the threads run. *)
Left    == Positions(vaddrs) \ vaddrs.used
Running == /\ Len(task) = 4
           /\ Cardinality(Left \cup LivePages) <= MaxFree
           /\ UNCHANGED <<memCapacity, layout, task, failed>>

Next == \/ memInit \/ processExecute \/ threadStart
        \/ Running /\ \E cnt \in 1 .. MaxPages : getKernelPages(cnt)
        \/ Running /\ \E a \in live : mfreePage(a)
        \/ Running /\ \E p \in LivePages : Access(p)
        \/ Running /\ pageDirActivate

Spec == Init /\ [][Next]_vars

-----------------------------------------------------------------------------
TaskPages(t) == {t.pcb}
                  \cup IF t.bitmap = NoPage THEN {} ELSE Run(t.bitmap, bitmapPgCnt)
                  \cup IF t.pageDir = NoPage THEN {} ELSE {t.pageDir}

(***************************************************************************)
(* Tasks do not share pages with each other, nor with what threads are     *)
(* given later; what they have stays mapped, each page to a frame of its   *)
(* own.  The pages of a user bitmap hold all its bytes, and its last bit   *)
(* is that of the stack page, which startProcess takes from there.         *)
(***************************************************************************)
TasksApart ==
  /\ \A i, j \in DOMAIN task :
       i # j => TaskPages(task[i]) \cap TaskPages(task[j]) = {}
  /\ \A i \in DOMAIN task :
       /\ TaskPages(task[i]) \cap LivePages = {}
       /\ TaskPages(task[i]) \subseteq DOMAIN pte
  /\ \A p, q \in DOMAIN pte : pte[p] = pte[q] => p = q
  /\ vaddrBytes <= bitmapPgCnt * PG_SIZE
  /\ USER_STACK3_VADDR - USER_VADDR_START = 8 * vaddrBytes - 1

(***************************************************************************)
(* With kernel memory for 52 pages main() gets all it asks for.  With less *)
(* nothing checks, and still no process is started with the page directory *)
(* of the kernel except in a pool of 24 pages, where the bitmap of the     *)
(* first process takes the last.                                           *)
(***************************************************************************)
MissingPagesNoticed ==
  /\ layout # None /\ layout.kBits >= 52 => failed = "nothing"
  /\ \A i \in {1, 2} \cap DOMAIN task :
       task[i].pageDir = NoPage => layout.kBits = 24
=============================================================================
