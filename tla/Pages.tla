-------------------------------- MODULE Pages --------------------------------
(***************************************************************************)
(* The page allocator of kernel/memory.c under its callers: kernel threads *)
(* that run sysMalloc and sysFree with interrupts on, and processes that   *)
(* run startProcess (getPage for the stack) with interrupts on and then    *)
(* malloc and free through int 0x80 with interrupts off.                   *)
(*                                                                         *)
(* Addresses are counted in pages.  A frame is a pool and a bit of it.     *)
(* The locks of the two pools are mutexes here; their code is in Locks.    *)
(* The kernel pages modelled are those of the page table that exists from  *)
(* the start, the 3 MB from K_HEAP_START on.                               *)
(***************************************************************************)
EXTENDS Bitmap

CONSTANTS NULL,
          KThread, Process,      \* the threads that allocate
          Together,              \* the sets of threads that may run together
          Kernel,                \* the address space of the kernel threads
          KernelBytes, UserBytes,   \* sizes of the pools' bitmaps, in bytes
          UserVaddrBytes,        \* size of each process's userVaddr bitmap
          RegionPages,           \* pages one page table maps: 1024
          MaxPgCnt,              \* what the ASSERT of mallocPage allows: 3840
          MaxPages               \* bound: pages of one request

Pool   == {"kernel", "user"}
Thread == KThread \cup Process
Space  == {Kernel} \cup Process

SpaceOf(t) == IF t \in Process THEN t ELSE Kernel
PoolOf(t)  == IF t \in Process THEN "user" ELSE "kernel"

(* memPoolInit gives kernelVaddr as many bits as kernelPool. *)
PoolBytes  == [p \in Pool |-> IF p = "user" THEN UserBytes ELSE KernelBytes]
VaddrBytes == [s \in Space |-> IF s = Kernel THEN KernelBytes ELSE UserVaddrBytes]

PhysZero == <<"none", 0>>     \* what a NULL of palloc becomes in a pde

ASSUME PagesAssumption == /\ NULL \notin Thread \cup (Pool \X Nat) \cup {PhysZero}
                          /\ KThread \cap Process = {}
                          /\ Kernel \notin Process
                          /\ Together \subseteq SUBSET Thread
                          /\ KernelBytes \in Nat \ {0}
                          /\ UserBytes \in Nat \ {0}
                          /\ UserVaddrBytes \in Nat \ {0}
                          /\ RegionPages \in Nat \ {0}
                          /\ MaxPgCnt \in Nat
                          /\ MaxPages \in Nat \ {0}

VARIABLES pool,      \* the bitmaps of kernelPool and userPool
          vaddrs,    \* kernelVaddr and the userVaddr of each process
          table,     \* page directories: the frame of each user page table
          pte,       \* page tables: the frame of each page
          lock,      \* holder of kernelPool.lock and userPool.lock
          cli,       \* the thread that runs with interrupts off, if any
          loc,       \* per thread: program counter and locals
          live,      \* history: the pages each thread has been given
          lost,      \* history: what requests given up half-way left behind
          panic      \* the function whose ASSERT has failed, if any

vars == <<pool, vaddrs, table, pte, lock, cli, loc, live, lost, panic>>

Page(s)   == 0 .. VaddrBytes[s] * ByteBits - 1
Region(p) == p \div RegionPages
StackPage(s) == VaddrBytes[s] * ByteBits - 1

PagesOf(a) == a.start .. a.start + a.cnt - 1

Idle == [pc |-> "idle", op |-> "none", start |-> 0, cnt |-> 0, page |-> 0,
         for |-> "page", bit |-> 0, byte |-> {}, frame |-> NULL]

-----------------------------------------------------------------------------
(* Only malloc and free of processes come through the interrupt gate. *)
Syscall(t) == t \in Process /\ loc[t].op # "stack"

At(t, label) == panic = "none" /\ cli \in {NULL, t} /\ loc[t].pc = label

Set(t, f) ==
  loc' = [loc EXCEPT ![t] = [x \in DOMAIN loc[t] |-> IF x \in DOMAIN f THEN f[x]
                                                    ELSE loc[t][x]]]

(* The positions of the byte that holds a bit. *)
ByteOf(bit) == LET first == (bit \div ByteBits) * ByteBits
               IN  first .. first + ByteBits - 1

Init == /\ pool = [p \in Pool |-> bitmapInit(PoolBytes[p])]
        /\ vaddrs = [s \in Space |-> bitmapInit(VaddrBytes[s])]
        /\ table = [s \in Process |-> [r \in {Region(p) : p \in Page(s)} |-> NULL]]
        /\ pte = [s \in Space |-> [p \in Page(s) |-> NULL]]
        /\ lock = [p \in Pool |-> NULL]
        /\ cli = NULL
        /\ \E T \in Together :
             loc = [t \in Thread |->
                      IF t \notin T THEN [Idle EXCEPT !.pc = "unborn"]
                      ELSE IF t \in Process
                      THEN [Idle EXCEPT !.pc = "lock", !.op = "stack"] ELSE Idle]
        /\ live = [t \in Thread |-> {}]
        /\ lost = [s \in Space |-> [marked |-> {}, mapped |-> {}]]
        /\ panic = "none"

(***************************************************************************)
(* sysMalloc accepts sizes below poolSize, which counts up to ByteBits - 1 *)
(* pages that the bitmap does not, and adds the size of an arena struct.   *)
(***************************************************************************)
LargestRequest(p) == (PoolBytes[p] + 1) * ByteBits

(* sysMalloc of cnt pages, sysFree of pages that were allocated. *)
Malloc(t, cnt) ==
  /\ At(t, "idle")
  /\ cnt <= LargestRequest(PoolOf(t))
  /\ Set(t, [pc |-> "lock", op |-> "malloc", cnt |-> cnt])
  /\ UNCHANGED <<pool, vaddrs, table, pte, lock, cli, live, lost, panic>>

Free(t, a) ==
  /\ At(t, "idle")
  /\ Set(t, [pc |-> "lock", op |-> "free", start |-> a.start, page |-> a.start,
             cnt |-> a.cnt])
  /\ live' = [live EXCEPT ![t] = @ \ {a}]
  /\ UNCHANGED <<pool, vaddrs, table, pte, lock, cli, lost, panic>>

(* Mutant: the pool is not locked at all. *)
LockPoolNoWait(t) ==
  /\ At(t, "lock")
  /\ lock' = [lock EXCEPT ![PoolOf(t)] = t]
  /\ Set(t, [pc |-> loc[t].op])
  /\ UNCHANGED <<pool, vaddrs, table, pte, cli, live, lost, panic>>

(* A process in a system call keeps the CPU once it has the lock. *)
LockPool(t) ==
  /\ At(t, "lock")
  /\ lock[PoolOf(t)] = NULL
  /\ lock' = [lock EXCEPT ![PoolOf(t)] = t]
  /\ cli' = IF Syscall(t) THEN t ELSE cli
  /\ Set(t, [pc |-> loc[t].op])
  /\ UNCHANGED <<pool, vaddrs, table, pte, live, lost, panic>>

(* lockRelease; a call that has failed has set cnt to 0. *)
UnlockPool(t) ==
  /\ At(t, "unlock")
  /\ lock' = [lock EXCEPT ![PoolOf(t)] = NULL]
  /\ cli' = NULL
  /\ live' = IF loc[t].op = "free" \/ loc[t].cnt = 0 THEN live
             ELSE [live EXCEPT ![t] = @ \cup
                     {[start |-> loc[t].start, cnt |-> loc[t].cnt]}]
  /\ loc' = [loc EXCEPT ![t] = Idle]
  /\ UNCHANGED <<pool, vaddrs, table, pte, lost, panic>>

-----------------------------------------------------------------------------
(* mallocPage begins with an ASSERT on the number of pages. *)
TooManyPages(t) ==
  /\ At(t, "malloc")
  /\ loc[t].cnt >= MaxPgCnt
  /\ panic' = "mallocPage"
  /\ UNCHANGED <<pool, vaddrs, table, pte, lock, cli, loc, live, lost>>

(* Then comes vaddrGet, whose ASSERT keeps off the stack page. *)
VaddrGet(t) ==
  LET s     == SpaceOf(t)
      start == bitmapScan(vaddrs[s], loc[t].cnt)
  IN  /\ At(t, "malloc")
      /\ loc[t].cnt < MaxPgCnt
      /\ IF start = -1
         THEN /\ Set(t, [pc |-> "unlock", cnt |-> 0])
              /\ UNCHANGED <<vaddrs, panic>>
         ELSE /\ vaddrs' = [vaddrs EXCEPT ![s] =
                              bitmapSetRun(@, start, loc[t].cnt, 1)]
              /\ Set(t, [pc |-> "palloc", start |-> start, page |-> start])
              /\ panic' = IF t \in Process /\ start >= StackPage(t)
                          THEN "vaddrGet" ELSE "none"
      /\ UNCHANGED <<pool, table, pte, lock, cli, live, lost>>

(* Mutant: the bit of the stack page is not set in userVaddr. *)
GetPageUnmarked(t) ==
  /\ At(t, "stack")
  /\ Set(t, [pc |-> "palloc", start |-> StackPage(t), page |-> StackPage(t),
             cnt |-> 1])
  /\ UNCHANGED <<pool, vaddrs, table, pte, lock, cli, live, lost, panic>>

(* getPage(PF_USER, USER_STACK3_VADDR) of startProcess. *)
GetPage(t) ==
  /\ At(t, "stack")
  /\ vaddrs' = [vaddrs EXCEPT ![t] = bitmapSet(@, StackPage(t), 1)]
  /\ Set(t, [pc |-> "palloc", start |-> StackPage(t), page |-> StackPage(t),
             cnt |-> 1])
  /\ UNCHANGED <<pool, table, pte, lock, cli, live, lost, panic>>

(***************************************************************************)
(* palloc, for a page of the request or for a page table (pageTableAdd),   *)
(* looks for a bit and then sets it.  The three callers treat NULL in      *)
(* three ways.  pageTableAdd does not notice.  mallocPage gives up and     *)
(* leaves the addresses marked and the pages before this one mapped.       *)
(* getPage returns NULL without releasing the lock, and the process goes   *)
(* to user mode with its stack at NULL + PG_SIZE, where the first push is  *)
(* a page fault: it allocates nothing any more ("noStack").                *)
(***************************************************************************)
PoolFor(t) == IF loc[t].for = "table" THEN "kernel"
              ELSE IF loc[t].op = "free" THEN loc[t].frame[1] ELSE PoolOf(t)

(* With the pages of a request that has found no frame for one of them. *)
GivenUp(t) ==
  LET left == lost[SpaceOf(t)]
  IN  [marked |-> left.marked \cup PagesOf(loc[t]),
       mapped |-> left.mapped \cup (loc[t].start .. loc[t].page - 1)]

Palloc(t) ==
  LET bit == bitmapScan(pool[PoolFor(t)], 1)
  IN  /\ At(t, "palloc")
      /\ IF bit # -1
         THEN Set(t, [pc |-> "load", bit |-> bit]) /\ UNCHANGED <<table, lost>>
         ELSE IF loc[t].for = "table"
         THEN /\ table' = [table EXCEPT ![t][Region(loc[t].page)] = PhysZero]
              /\ Set(t, [pc |-> "map"])
              /\ UNCHANGED lost
         ELSE /\ IF loc[t].op = "stack" THEN Set(t, [Idle EXCEPT !.pc = "noStack"])
                                        ELSE Set(t, [pc |-> "unlock", cnt |-> 0])
              /\ lost' = [lost EXCEPT ![SpaceOf(t)] = GivenUp(t)]
              /\ UNCHANGED table
      /\ UNCHANGED <<pool, vaddrs, pte, lock, cli, live, panic>>

(* bitmapSet reads the byte, changes the bit and writes the byte back. *)
SetLoad(t) ==
  /\ At(t, "load")
  /\ Set(t, [pc |-> "store",
             byte |-> pool[PoolFor(t)].used \cap ByteOf(loc[t].bit)])
  /\ UNCHANGED <<pool, vaddrs, table, pte, lock, cli, live, lost, panic>>

Stored(t, bits) ==
  pool' = [pool EXCEPT ![PoolFor(t)].used = (@ \ ByteOf(loc[t].bit)) \cup bits]

PallocStore(t) ==
  LET got == <<PoolFor(t), loc[t].bit>>
  IN  /\ At(t, "store")
      /\ loc[t].op # "free"
      /\ Stored(t, loc[t].byte \cup {loc[t].bit})
      /\ IF loc[t].for = "table"
         THEN /\ table' = [table EXCEPT ![t][Region(loc[t].page)] = got]
              /\ Set(t, [pc |-> "map", byte |-> {}])
         ELSE /\ Set(t, [pc |-> "map", byte |-> {}, frame |-> got])
              /\ UNCHANGED table
      /\ UNCHANGED <<vaddrs, pte, lock, cli, live, lost, panic>>

(* Mutant: a page table is allocated for every page. *)
PageTableAddAlways(t) ==
  LET s    == SpaceOf(t)
      page == loc[t].page
      next == page + 1
  IN  /\ At(t, "map")
      /\ IF s # Kernel /\ loc[t].for # "table"
         THEN /\ Set(t, [pc |-> "palloc", for |-> "table"])
              /\ UNCHANGED <<pte, panic>>
         ELSE /\ panic' = IF pte[s][page] # NULL THEN "pageTableAdd" ELSE "none"
              /\ pte' = [pte EXCEPT ![s][page] = loc[t].frame]
              /\ Set(t, IF next = loc[t].start + loc[t].cnt
                        THEN [pc |-> "unlock"]
                        ELSE [pc |-> "palloc", for |-> "page", page |-> next])
      /\ UNCHANGED <<pool, vaddrs, table, lock, cli, live, lost>>

(* pageTableAdd: allocates the page table first if the pde is not present. *)
PageTableAdd(t) ==
  LET s    == SpaceOf(t)
      page == loc[t].page
      next == page + 1
  IN  /\ At(t, "map")
      /\ IF s # Kernel /\ table[s][Region(page)] = NULL
         THEN /\ Set(t, [pc |-> "palloc", for |-> "table"])
              /\ UNCHANGED <<pte, panic>>
         ELSE /\ panic' = IF pte[s][page] # NULL THEN "pageTableAdd" ELSE "none"
              /\ pte' = [pte EXCEPT ![s][page] = loc[t].frame]
              /\ Set(t, IF next = loc[t].start + loc[t].cnt
                        THEN [pc |-> "unlock"]
                        ELSE [pc |-> "palloc", for |-> "page", page |-> next])
      /\ UNCHANGED <<pool, vaddrs, table, lock, cli, live, lost>>

-----------------------------------------------------------------------------
(* mfreePage, one page at a time: v2p, then pfree and pageTablePteRemove.  *)
(* A page that is not mapped, where v2p would return whatever the pte      *)
(* holds, counts as a failed ASSERT.                                       *)
Pfree(t) ==
  LET frame == pte[SpaceOf(t)][loc[t].page]
  IN  /\ At(t, "free")
      /\ panic' = IF frame = NULL \/ frame[1] # PoolOf(t) THEN "mfreePage" ELSE "none"
      /\ Set(t, IF panic' # "none" THEN [pc |-> "free"]
                ELSE [pc |-> "load", frame |-> frame, bit |-> frame[2]])
      /\ UNCHANGED <<pool, vaddrs, table, pte, lock, cli, live, lost>>

(* After the last page, vaddrRemove. *)
PfreeStore(t) ==
  LET s    == SpaceOf(t)
      next == loc[t].page + 1
      done == next = loc[t].start + loc[t].cnt
  IN  /\ At(t, "store")
      /\ loc[t].op = "free"
      /\ Stored(t, loc[t].byte \ {loc[t].bit})
      /\ pte' = [pte EXCEPT ![s][loc[t].page] = NULL]
      /\ vaddrs' = IF done THEN [vaddrs EXCEPT ![s] =
                                   bitmapSetRun(@, loc[t].start, loc[t].cnt, 0)]
                   ELSE vaddrs
      /\ Set(t, IF done THEN [pc |-> "unlock"] ELSE [pc |-> "free", page |-> next])
      /\ UNCHANGED <<table, lock, cli, live, lost, panic>>

Step(t) == \/ LockPool(t) \/ TooManyPages(t) \/ VaddrGet(t) \/ GetPage(t) \/ Palloc(t)
           \/ SetLoad(t) \/ PallocStore(t) \/ PageTableAdd(t)
           \/ Pfree(t) \/ PfreeStore(t) \/ UnlockPool(t)

Next == \E t \in Thread :
          \/ \E cnt \in 1 .. MaxPages : Malloc(t, cnt)
          \/ \E a \in live[t] : (t \in Process => a.start # StackPage(t)) /\ Free(t, a)
          \/ Step(t)

Spec == Init /\ [][Next]_vars

-----------------------------------------------------------------------------
(* Where a frame is in use: mapped at a page, or as a page table. *)
Mapping == UNION {{s} \X {p \in Page(s) : pte[s][p] # NULL} : s \in Space}
Tables  == UNION {{s} \X {r \in DOMAIN table[s] : table[s][r] # NULL} : s \in Process}

(***************************************************************************)
(* palloc gives a frame to one user only: no two pages, of whatever        *)
(* address space, and no page table share a frame.                         *)
(***************************************************************************)
FrameOnce ==
  /\ \A m, n \in Mapping : pte[m[1]][m[2]] = pte[n[1]][n[2]] => m = n
  /\ \A u, v \in Tables : table[u[1]][u[2]] = table[v[1]][v[2]] => u = v
  /\ \A m \in Mapping, u \in Tables : pte[m[1]][m[2]] # table[u[1]][u[2]]

(***************************************************************************)
(* When no call is under way, the bits of the pools are those of the       *)
(* frames that are mapped or a page table, and whatever is marked or       *)
(* mapped in an address space is a thread's own, got and not yet freed, or *)
(* what a request left behind that ran out of frames half-way: of one of   *)
(* those the addresses, and the frames of the pages before the one it      *)
(* failed at, are lost ("TODO: reclaim allocated pages").  Nothing else is *)
(* lost, and nothing in use can be given away.  Nor is a pool's lock held, *)
(* except by a process whose getPage has found no frame.                   *)
(***************************************************************************)
InUse == {pte[m[1]][m[2]] : m \in Mapping} \cup {table[u[1]][u[2]] : u \in Tables}

(* What a thread has, and gives back once it gets the lock in sysFree. *)
Has(t) == live[t] \cup IF loc[t].op = "free"
                        THEN {[start |-> loc[t].start, cnt |-> loc[t].cnt]} ELSE {}

Belongs(s, p) == \E t \in Thread : SpaceOf(t) = s /\ \E a \in Has(t) : p \in PagesOf(a)

FramesAccounted ==
  (\A t \in Thread : loc[t].pc \in {"unborn", "idle", "lock", "noStack"})
    => /\ UNION {{p} \X pool[p].used : p \in Pool} = InUse
       /\ \A s \in Space : \A p \in Page(s) :
            /\ bitmapTest(vaddrs[s], p) <=> Belongs(s, p) \/ p \in lost[s].marked
            /\ pte[s][p] # NULL <=> Belongs(s, p) \/ p \in lost[s].mapped
       /\ \A q \in Pool : lock[q] # NULL => loc[lock[q]].pc = "noStack"

(***************************************************************************)
(* What a caller of sysMalloc got and has not freed is mapped, cannot be   *)
(* given out again and overlaps nothing else it or another thread of its   *)
(* address space has.                                                      *)
(***************************************************************************)
LiveMapped ==
  \A t, u \in Thread : \A a \in live[t], b \in live[u] :
    /\ \A p \in PagesOf(a) : pte[SpaceOf(t)][p] # NULL
                             /\ bitmapTest(vaddrs[SpaceOf(t)], p)
    /\ SpaceOf(t) = SpaceOf(u) /\ PagesOf(a) \cap PagesOf(b) # {}
         => t = u /\ a = b

(***************************************************************************)
(* Of the ASSERTs of memory.c that guard pages only the first of           *)
(* mallocPage, "pgCnt > 0 && pgCnt < 3840", can fail, and only if          *)
(* sysMalloc lets such a request through, as it does from pools of 15 MB   *)
(* on; no order of calls makes one of vaddrGet, pageTableAdd or mfreePage  *)
(* fail.                                                                   *)
(***************************************************************************)
NoPanic ==
  /\ panic \in {"none", "mallocPage"}
  /\ panic = "mallocPage" => \E p \in Pool : LargestRequest(p) >= MaxPgCnt

(***************************************************************************)
(* Whenever vaddrGet or palloc looks for free bits, bitmapScan finds the   *)
(* lowest run of as many zeros, across byte boundaries, and says -1 only   *)
(* if there is none: memory that is free in one piece can be had.          *)
(***************************************************************************)
FindsFirst(b, cnt) ==
  bitmapScan(b, cnt) = IF Runs(b, cnt) = {} THEN -1 ELSE Min(Runs(b, cnt))

FirstFit ==
  \A t \in Thread :
    /\ loc[t].pc = "malloc" => FindsFirst(vaddrs[SpaceOf(t)], loc[t].cnt)
    /\ loc[t].pc = "palloc" => FindsFirst(pool[PoolFor(t)], 1)

(* pageTableAdd: "if pde doesn't exist, allocate a page frame to create it" *)
TableIsFrame == \A u \in Tables : table[u[1]][u[2]] # PhysZero
=============================================================================
