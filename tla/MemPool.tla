------------------------------- MODULE MemPool -------------------------------
(***************************************************************************)
(* memPoolInit of kernel/memory.c: how the memory the loader has found is  *)
(* split into the two pools, with the widths of the C variables.  Amounts  *)
(* of memory are in KB, places in page frames, bitmaps in bytes.           *)
(***************************************************************************)
EXTENDS Integers

CONSTANT Capacity         \* bound: the values of memCapacity, in KB

ASSUME CapacityAssumption ==
  \A c \in Capacity : c \in Nat /\ c >= 2048 /\ c < 4 * 1024 * 1024

VARIABLES memCapacity, layout

uint16(n)   == n % 2^16
uint32KB(n) == n % 2^22           \* a uint32 number of bytes, in KB

BitmapRoom  == 4 * 4096           \* from MEM_BITMAP_BASE to the PCB of main
usedMemory  == 1024 + 4 * 256     \* the first MB and the page tables

-----------------------------------------------------------------------------
allFreePages(capacity) == uint16(uint32KB(capacity - usedMemory) \div 4)

(* Mutants: the user pool gets all pages; a bitmap is half as long. *)
LayoutOverlap(freePages) ==
  LET kernelFreePages == freePages \div 2
      userFreePages   == uint16(freePages)
      kbmLength       == kernelFreePages \div 8
      ubmLength       == userFreePages \div 8
      kPhyStart       == usedMemory \div 4
  IN  [kStart |-> kPhyStart, kPages |-> kernelFreePages, kBits |-> 8 * kbmLength,
       uStart |-> kPhyStart + kernelFreePages, uPages |-> userFreePages,
       uBits |-> 8 * ubmLength, vaddrBits |-> 8 * kbmLength,
       bitmaps |-> kbmLength + ubmLength + kbmLength]

LayoutHalf(freePages) ==
  LET kernelFreePages == freePages \div 2
      userFreePages   == uint16(freePages - kernelFreePages)
      kbmLength       == kernelFreePages \div 16
      ubmLength       == userFreePages \div 8
      kPhyStart       == usedMemory \div 4
  IN  [kStart |-> kPhyStart, kPages |-> kernelFreePages, kBits |-> 8 * kbmLength,
       uStart |-> kPhyStart + kernelFreePages, uPages |-> userFreePages,
       uBits |-> 8 * ubmLength, vaddrBits |-> 8 * kbmLength,
       bitmaps |-> kbmLength + ubmLength + kbmLength]

Layout(freePages) ==
  LET kernelFreePages == freePages \div 2
      userFreePages   == uint16(freePages - kernelFreePages)
      kbmLength       == kernelFreePages \div 8
      ubmLength       == userFreePages \div 8
      kPhyStart       == usedMemory \div 4
  IN  [kStart |-> kPhyStart, kPages |-> kernelFreePages, kBits |-> 8 * kbmLength,
       uStart |-> kPhyStart + kernelFreePages, uPages |-> userFreePages,
       uBits |-> 8 * ubmLength, vaddrBits |-> 8 * kbmLength,
       bitmaps |-> kbmLength + ubmLength + kbmLength]

None == [kStart |-> 0, kPages |-> 0, kBits |-> 0, uStart |-> 0, uPages |-> 0,
         uBits |-> 0, vaddrBits |-> 0, bitmaps |-> 0]

memPoolInit == /\ layout = None
               /\ layout' = Layout(allFreePages(memCapacity))
               /\ UNCHANGED memCapacity

-----------------------------------------------------------------------------
Done == layout # None

(***************************************************************************)
(* Every frame a pool can hand out exists, is free, and belongs to one     *)
(* pool; pfree tells the pools apart by userPool.paddrStart, so the kernel *)
(* pool has to lie below it.  Each kernel page can have a frame.  The      *)
(* three bitmaps end below 0xc009e000, where the PCB of main is.           *)
(***************************************************************************)
PoolsInMemory ==
  Done => /\ layout.kStart * 4 >= usedMemory
          /\ layout.kStart + layout.kBits <= layout.uStart
          /\ 4 * (layout.uStart + layout.uBits) <= memCapacity
          /\ layout.vaddrBits = layout.kBits
          /\ layout.bitmaps <= BitmapRoom

(* Free pages that no bitmap covers: those the two roundings to bytes lose. *)
Free == (memCapacity - usedMemory) \div 4
Unmanaged == Free - layout.kBits - layout.uBits

(* Up to 257 MB, at most 15 pages are lost to rounding. *)
SmallMemoryManaged ==
  Done /\ Free < 2^16 => Unmanaged \in 0 .. 15

(* memory.c, line 14: the four pages of bitmap "can manage 4 * 128MB memory". *)
ManagesHalfGB == Done /\ memCapacity <= 4 * 128 * 1024 => Unmanaged \in 0 .. 15

(* memory.c, line 228: mallocPage gets fewer than 3840 pages.  The largest  *)
(* request sysMalloc lets through is one byte less than the pool, and needs *)
(* with the arena struct a page more than the pool has.                     *)
LargestPgCnt(poolPages) == (4096 * poolPages - 1 + 12 + 4095) \div 4096

RequestsInRange ==
  Done => LargestPgCnt(layout.kPages) < 3840 /\ LargestPgCnt(layout.uPages) < 3840
=============================================================================
