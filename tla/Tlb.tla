--------------------------------- MODULE Tlb ---------------------------------
(***************************************************************************)
(* The kernel's page table of kernel/memory.c and the TLB of the CPU that  *)
(* walks it.  Kernel threads allocate, use and free pages one call at a    *)
(* time; what calls do to each other is in Pages.  Every page directory    *)
(* has the same page table for these pages.                                *)
(***************************************************************************)
EXTENDS Bitmap, Sequences, Functions

CONSTANTS NoPage,
          MaxPages     \* bound: pages of one request

ASSUME TlbAssumption == NoPage \notin Nat /\ MaxPages \in Nat

VARIABLES frames,      \* kernelPool.poolBitmap
          vaddrs,      \* kernelVaddr.vaddrBitmap
          pte,         \* the frame of each page that is mapped
          tlb,         \* the translations the CPU has cached
          live,        \* history: the pages handed out, by first page and count
          removed      \* history: pages unmapped since the last load of cr3

pageVars == <<frames, vaddrs, pte, tlb, live, removed>>

Empty == [p \in {} |-> NoPage]

Run(start, cnt) == start .. start + cnt - 1

(* What a page table or the TLB holds, with a second one taking precedence. *)
Over(f, g) == [p \in DOMAIN f \cup DOMAIN g |-> IF p \in DOMAIN g THEN g[p] ELSE f[p]]
Without(f, pages) == Restrict(f, DOMAIN f \ pages)

(* The CPU walks the page table pt for pages it has no translation of. *)
Cached(pages, pt) == Over(Restrict(pt, pages \cap DOMAIN pt), tlb)

(* Mutant: the bit of the frame is not set. *)
pallocUnset(m) == [m EXCEPT !.given = Append(@, bitmapScan(m.frames, 1))]

(* palloc: the first free frame, after those that were given before. *)
palloc(m) == LET bit == bitmapScan(m.frames, 1)
             IN  [given |-> Append(m.given, bit), frames |-> bitmapSet(m.frames, bit, 1)]

(* The loop of mallocPage: cnt frames. *)
pallocs(m, cnt) ==
  LET after[i \in 0 .. cnt] == IF i = 0 THEN [given |-> <<>>, frames |-> m.frames]
                               ELSE palloc(after[i - 1])
  IN  after[cnt]

(* mallocPage(PF_KERNEL, cnt), in a state m of the bitmaps and the table:  *)
(* the first page, or NULL, and the new state.  There are as many frames   *)
(* as addresses, and they run out together: the frames that page tables of *)
(* processes take from this pool (pageTableAdd) are left out here, and     *)
(* with them mallocPage's failure half-way, which is in Pages.             *)
Malloc(m, cnt) ==
  LET start == bitmapScan(m.vaddrs, cnt)
      new   == pallocs(m, cnt)
  IN  IF start = -1 THEN [m EXCEPT !.got = NoPage]
      ELSE [got    |-> start,
            vaddrs |-> bitmapSetRun(m.vaddrs, start, cnt, 1),
            frames |-> new.frames,
            pte    |-> Over(m.pte, [p \in Run(start, cnt) |-> new.given[p - start + 1]])]

Memory == [got |-> NoPage, vaddrs |-> vaddrs, frames |-> frames, pte |-> pte]

Becomes(m) == vaddrs' = m.vaddrs /\ frames' = m.frames /\ pte' = m.pte

-----------------------------------------------------------------------------
(* getKernelPages: mallocPage, and the memset that touches every page. *)
getKernelPages(cnt) ==
  LET m == Malloc(Memory, cnt)
  IN  /\ m.got # NoPage
      /\ Becomes(m)
      /\ tlb' = Cached(Run(m.got, cnt), m.pte)
      /\ live' = live \cup {<<m.got, cnt>>}
      /\ UNCHANGED removed

(* invlpg is given the local variable vaddr, a word of the kernel stack, as *)
(* its operand: the translation it drops is not that of the page.          *)
pageTablePteRemove(pages) == pte' = Without(pte, pages) /\ UNCHANGED tlb

mfreePage(a) ==
  LET pages == Run(a[1], a[2])
  IN  /\ frames' = [frames EXCEPT !.used = @ \ {pte[p] : p \in pages}]
      /\ pageTablePteRemove(pages)
      /\ vaddrs' = bitmapSetRun(vaddrs, a[1], a[2], 0)
      /\ live' = live \ {a}
      /\ removed' = removed \cup pages

(* Mutant: cr3 is not loaded, as if the page directory were the same one. *)
pageDirActivateSame == removed' = {} /\ UNCHANGED <<frames, vaddrs, pte, tlb, live>>

(* Each schedule loads cr3, in pageDirActivate, which empties the TLB. *)
pageDirActivate == /\ tlb' = Empty
                   /\ removed' = {}
                   /\ UNCHANGED <<frames, vaddrs, pte, live>>

LivePages == UNION {Run(a[1], a[2]) : a \in live}

(* A thread reads or writes a page it was given. *)
Access(p) == /\ p \notin DOMAIN tlb
             /\ tlb' = Cached({p}, pte)
             /\ UNCHANGED <<frames, vaddrs, pte, live, removed>>

-----------------------------------------------------------------------------
(***************************************************************************)
(* What the CPU has cached of a page in use can be out of date only if the *)
(* page was freed and handed out again without a schedule in between: the  *)
(* load of cr3 in every schedule bounds the damage.                        *)
(***************************************************************************)
Stale(p) == p \notin DOMAIN pte \/ tlb[p] # pte[p]

StaleIsRecent == \A p \in DOMAIN tlb : Stale(p) => p \in removed

(* pageTablePteRemove: "update TLB".  A page in use is where pte says it is. *)
TlbUpdated == \A p \in LivePages \cap DOMAIN tlb : ~ Stale(p)
=============================================================================
