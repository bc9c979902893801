-------------------------------- MODULE Heap --------------------------------
(***************************************************************************)
(* sysMalloc and sysFree of kernel/memory.c: requests of up to the largest *)
(* block size are served from arenas, pages cut into blocks of one size    *)
(* whose free ones are on the list of the size; larger requests get pages  *)
(* of their own.  The pool's lock is held all through a call, so that one  *)
(* call is one step.  Addresses are bytes from K_HEAP_START on, or in a    *)
(* process from USER_VADDR_START on, where the page of the stack is left   *)
(* out: getPage marks it before the process runs.  Pages has the steps     *)
(* within mallocPage and mfreePage.                                        *)
(***************************************************************************)
EXTENDS Bitmap, List

CONSTANTS PageBytes, ArenaSize,  \* PG_SIZE, 4096; sizeof(struct arena), 12
          MinBlock, DESC_CNT,    \* 16 and 7: blocks of 16, 32, ... 1024 bytes
          VaddrBytes,            \* size of the bitmap of addresses
          PoolPages,             \* the frames of the pool: poolSize / PG_SIZE
          MaxPgCnt,              \* 3840, what ASSERT of mallocPage allows below
          Size                   \* bound: the sizes that are asked for

Desc         == 0 .. DESC_CNT - 1
Page         == 0 .. VaddrBytes * ByteBits - 1
blockSize[d \in Desc] == IF d = 0 THEN MinBlock ELSE 2 * blockSize[d - 1]
blocksPerArena(d) == (PageBytes - ArenaSize) \div blockSize[d]
LargestBlock == blockSize[DESC_CNT - 1]

arena2block(page, d, idx) == page * PageBytes + ArenaSize + idx * blockSize[d]
block2arena(b)            == b \div PageBytes
BlocksOf(page, d) == {arena2block(page, d, idx) : idx \in 0 .. blocksPerArena(d) - 1}

Blocks        == UNION {BlocksOf(p, d) : p \in Page, d \in Desc}
freeNode(b)   == <<b>>         \* the list node in a block, &b->freeNode
entry(node)   == node[1]       \* the block of a list node

ArenaStruct == [desc : Desc \cup {NULL}, cnt : Int, large : BOOLEAN]

ASSUME HeapAssumption ==
  /\ {PageBytes, MinBlock, DESC_CNT, VaddrBytes} \subseteq Nat \ {0}
  /\ PoolPages \in Nat /\ MaxPgCnt \in Nat /\ MaxPgCnt > 1
  /\ ArenaSize \in Nat /\ ArenaSize + LargestBlock <= PageBytes
  /\ Size \subseteq Nat
  /\ NULL \notin Nat \cup {freeNode(b) : b \in Blocks} \cup Sentinels(Desc) \cup ArenaStruct

VARIABLES pages,     \* the bitmap of addresses, a bit for a page
          mapped,    \* the pages that have a frame
          arena,     \* the arena struct at the start of a page, if any
          free,      \* the free lists of all block sizes
          lent,      \* history: address and requested size of what is in use
          lost,      \* history: the pages left behind by mallocPage's failures
          panic      \* the function whose ASSERT has failed, or "none"

heapVars == <<pages, mapped, arena, free, lent, lost, panic>>

HeapInit == /\ pages = bitmapInit(VaddrBytes)
            /\ mapped = {}
            /\ arena = [p \in Page |-> NULL]
            /\ free = ListInit(Desc, {freeNode(b) : b \in Blocks})
            /\ lent = {}
            /\ lost = [marked |-> {}, mapped |-> {}]
            /\ panic = "none"

-----------------------------------------------------------------------------
(***************************************************************************)
(* memset(b, 0, ...) on a block that is handed out.  The contents of a     *)
(* page are forgotten when it is unmapped, since mallocPage's callers      *)
(* clear it before they use it again.                                      *)
(***************************************************************************)
Clear(list, nodes) ==
  LET zeroed(link) == [n \in DOMAIN link |-> IF n \in nodes THEN NULL ELSE link[n]]
  IN  [next |-> zeroed(list.next), prev |-> zeroed(list.prev)]

PageRun(a, cnt) == a .. a + cnt - 1

(* Mutant: the pages are counted without the arena struct. *)
pageCntNoHeader(size) == (size + PageBytes - 1) \div PageBytes

(* The pages of a large request: the arena struct and the caller's bytes. *)
pageCnt(size)  == (size + ArenaSize + PageBytes - 1) \div PageBytes

Accepted(size) == 0 < size /\ size < PageBytes * PoolPages
Large(size)    == size > LargestBlock
descIdx(size)  == Min({i \in Desc : size <= blockSize[i]})

(* So many frames may still be free.  There are fewer if other processes,  *)
(* stacks or page tables have taken some: RunOut can happen at any time.   *)
FramesLeft(n) == Cardinality(mapped) + n <= PoolPages

(* ASSERT(pgCnt > 0 && pgCnt < 3840), at the start of mallocPage. *)
TooManyPages(size) ==
  /\ Large(size) /\ pageCnt(size) >= MaxPgCnt
  /\ panic' = "mallocPage"
  /\ UNCHANGED <<pages, mapped, arena, free, lent, lost>>

(***************************************************************************)
(* mallocPage finds addresses but, after got pages, no frame.  It returns  *)
(* NULL and takes nothing back: the addresses stay marked, and the got     *)
(* pages mapped.                                                           *)
(***************************************************************************)
RunOut(size) ==
  LET cnt == IF Large(size) THEN pageCnt(size) ELSE 1
      a   == bitmapScan(pages, cnt)
  IN  /\ ~ Large(size) => ListEmpty(free, descIdx(size))
      /\ cnt < MaxPgCnt
      /\ a # -1
      /\ \E got \in 0 .. cnt - 1 :
           /\ FramesLeft(got)
           /\ mapped' = mapped \cup PageRun(a, got)
           /\ lost' = [marked |-> lost.marked \cup PageRun(a, cnt),
                       mapped |-> lost.mapped \cup PageRun(a, got)]
      /\ pages' = bitmapSetRun(pages, a, cnt, 1)
      /\ UNCHANGED <<arena, free, lent, panic>>

MallocLarge(size) ==
  LET cnt == pageCnt(size)
      a   == bitmapScan(pages, cnt)
  IN  /\ Large(size)
      /\ cnt < MaxPgCnt
      /\ a # -1 /\ FramesLeft(cnt)
      /\ pages' = bitmapSetRun(pages, a, cnt, 1)
      /\ mapped' = mapped \cup PageRun(a, cnt)
      /\ arena' = [arena EXCEPT ![a] = [desc |-> NULL, cnt |-> cnt, large |-> TRUE]]
      /\ lent' = lent \cup {[addr |-> a * PageBytes + ArenaSize, size |-> size]}
      /\ UNCHANGED <<free, lost, panic>>

(* The list of size d after its blocks in a new arena were appended.  It   *)
(* was empty, so that ASSERT(!listExist) holds for each of them.           *)
Split(a, d) ==
  LET list[idx \in 0 .. blocksPerArena(d)] ==
        IF idx = 0 THEN free
        ELSE ListAppend(list[idx - 1], d, freeNode(arena2block(a, d, idx - 1)))
  IN  list[blocksPerArena(d)]

MallocSmall(size) ==
  LET d      == descIdx(size)
      isNew  == ListEmpty(free, d)
      a      == bitmapScan(pages, 1)
      list   == IF isNew THEN Split(a, d) ELSE free
      arenas == IF isNew THEN [arena EXCEPT ![a] =
                                 [desc |-> d, cnt |-> blocksPerArena(d), large |-> FALSE]]
                ELSE arena
      b      == entry(ListFirst(list, d))
  IN  /\ ~ Large(size)
      /\ isNew => a # -1 /\ FramesLeft(1)
      /\ pages' = IF isNew THEN bitmapSet(pages, a, 1) ELSE pages
      /\ mapped' = IF isNew THEN mapped \cup {a} ELSE mapped
      /\ free' = Clear(ListPop(list, d), {freeNode(b)})
      /\ arena' = [arenas EXCEPT ![block2arena(b)].cnt = @ - 1]
      /\ lent' = lent \cup {[addr |-> b, size |-> size]}
      /\ UNCHANGED <<lost, panic>>

-----------------------------------------------------------------------------
(* sysFree(ptr), for a ptr that sysMalloc returned and that is still in use. *)

(* Mutant: mfreePage is told of one page only. *)
FreeLargeOne(blk) ==
  LET a == block2arena(blk.addr)
  IN  /\ arena[a].desc = NULL /\ arena[a].large
      /\ pages' = bitmapSet(pages, a, 0)
      /\ mapped' = mapped \ {a}
      /\ arena' = [arena EXCEPT ![a] = NULL]
      /\ lent' = lent \ {blk}
      /\ UNCHANGED <<free, lost, panic>>

FreeLarge(blk) ==
  LET a == block2arena(blk.addr)
  IN  /\ arena[a].desc = NULL /\ arena[a].large
      /\ pages' = bitmapSetRun(pages, a, arena[a].cnt, 0)
      /\ mapped' = mapped \ PageRun(a, arena[a].cnt)
      /\ arena' = [arena EXCEPT ![a] = NULL]
      /\ lent' = lent \ {blk}
      /\ UNCHANGED <<free, lost, panic>>

(* Mutant: the last block of the arena stays on the list. *)
UnsplitShort(list, a, d) ==
  LET rest[idx \in 0 .. blocksPerArena(d) - 1] ==
        IF idx = 0 THEN list
        ELSE ListRemove(rest[idx - 1], freeNode(arena2block(a, d, idx - 1)))
  IN  rest[blocksPerArena(d) - 1]

(* The list after all the blocks of an arena were removed. *)
Unsplit(list, a, d) ==
  LET rest[idx \in 0 .. blocksPerArena(d)] ==
        IF idx = 0 THEN list
        ELSE ListRemove(rest[idx - 1], freeNode(arena2block(a, d, idx - 1)))
  IN  Clear(rest[blocksPerArena(d)], {freeNode(b) : b \in BlocksOf(a, d)})

FreeSmall(blk) ==
  LET a    == block2arena(blk.addr)
      d    == arena[a].desc
      list == ListAppend(free, d, freeNode(blk.addr))
      cnt  == arena[a].cnt + 1
      full == cnt = blocksPerArena(d)
  IN  /\ arena[a].desc # NULL
      /\ panic' = IF full /\ \E b \in BlocksOf(a, d) : ~ ListExist(list, d, freeNode(b))
                  THEN "sysFree" ELSE "none"
      /\ free' = IF full THEN Unsplit(list, a, d) ELSE list
      /\ pages' = IF full THEN bitmapSet(pages, a, 0) ELSE pages
      /\ mapped' = IF full THEN mapped \ {a} ELSE mapped
      /\ arena' = [arena EXCEPT ![a] = IF full THEN NULL ELSE [@ EXCEPT !.cnt = cnt]]
      /\ lent' = lent \ {blk}
      /\ UNCHANGED lost

sysMalloc(size) == /\ panic = "none" /\ Accepted(size)
                   /\ \/ TooManyPages(size) \/ RunOut(size)
                      \/ MallocLarge(size) \/ MallocSmall(size)

sysFree(blk)    == panic = "none" /\ (FreeLarge(blk) \/ FreeSmall(blk))

HeapNext == \/ \E size \in Size : sysMalloc(size)
            \/ \E blk \in lent : sysFree(blk)

HeapSpec == HeapInit /\ [][HeapNext]_heapVars

-----------------------------------------------------------------------------
(***************************************************************************)
(* The free list of a size holds the blocks of its arenas that are not in  *)
(* use: none is handed out twice, none is lost, and none lies in a page that *)
(* was given back.                                                         *)
(***************************************************************************)
InUse(p) == {blk \in lent : block2arena(blk.addr) = p}
Small(d) == {p \in Page : arena[p] # NULL /\ arena[p].desc = d}

FreeListsRight ==
  \A d \in Desc :
    /\ ListWellFormed(free, d)
    /\ \A p \in Page : \A b \in BlocksOf(p, d) :
         ListExist(free, d, freeNode(b)) <=> p \in Small(d) /\ \A blk \in lent : blk.addr # b

(***************************************************************************)
(* a->cnt counts the free blocks of an arena, and no arena without a block *)
(* in use is kept; when one is taken down, the ASSERT of sysFree finds all *)
(* its blocks on the free list of their size.  The addresses taken, and    *)
(* the frames, are those of the arenas and, apart from them, those left    *)
(* behind when mallocPage ran out of frames half-way (its TODO): nothing   *)
(* else is lost, and an arena has a frame at each of its pages.            *)
(***************************************************************************)
ArenaPages ==
  UNION {PageRun(p, IF arena[p].large THEN arena[p].cnt ELSE 1) :
           p \in {q \in Page : arena[q] # NULL}}

ArenasRight ==
  /\ panic # "sysFree"
  /\ \A p \in Page : arena[p] # NULL =>
       /\ InUse(p) # {}
       /\ arena[p].desc # NULL =>
            arena[p].cnt = blocksPerArena(arena[p].desc) - Cardinality(InUse(p))
  /\ ArenaPages \cap lost.marked = {}
  /\ pages.used = ArenaPages \cup lost.marked
  /\ mapped = ArenaPages \cup lost.mapped

(***************************************************************************)
(* The heap implements Allocator: what sysMalloc returns has the size that *)
(* was asked for, lies within the memory and overlaps no block in use, and *)
(* sysFree gives back the caller's block and no other.                     *)
(***************************************************************************)
Promise == INSTANCE Allocator
             WITH live <- {<<blk.addr, blk.addr + blk.size - 1>> : blk \in lent},
                  MemorySize <- PageBytes * VaddrBytes * ByteBits
ImplementsAllocator == Promise!Spec
=============================================================================
