----------------------------- MODULE PagesProofs -----------------------------
(***************************************************************************)
(* Proofs about Pages for all sizes of the pools and the address spaces,   *)
(* any number of threads and requests of every length.                     *)
(***************************************************************************)
EXTENDS Pages, BitmapProofs

Frame == Pool \X Nat

Label == {"unborn", "idle", "lock", "malloc", "stack", "palloc", "load", "store",
          "map", "free", "unlock", "noStack"}

Locals == [pc : Label, op : {"none", "malloc", "free", "stack"}, start : Int,
           cnt : Int, page : Int, for : {"page", "table"}, bit : Int,
           byte : SUBSET Int, frame : Frame \cup {NULL}]

Regions == {Region(p) : p \in 0 .. UserVaddrBytes * ByteBits - 1}

TypeOK ==
  /\ pool \in [Pool -> BitmapType]
  /\ \A p \in Pool : pool[p].size = PoolBytes[p]
  /\ vaddrs \in [Space -> BitmapType]
  /\ \A s \in Space : vaddrs[s].size = VaddrBytes[s] /\ vaddrs[s].used \subseteq Page(s)
  /\ table \in [Process -> [Regions -> Frame \cup {PhysZero, NULL}]]
  /\ DOMAIN pte = Space
  /\ \A s \in Space : pte[s] \in [Page(s) -> Frame \cup {NULL}]
  /\ lock \in [Pool -> Thread \cup {NULL}]
  /\ cli \in Thread \cup {NULL}
  /\ loc \in [Thread -> Locals]
  /\ live \in [Thread -> SUBSET [start : Int, cnt : Int]]
  /\ lost \in [Space -> [marked : SUBSET Int, mapped : SUBSET Int]]

(* A call has the lock of its pool, or getPage has kept it. *)
Inside(t) == loc[t].pc \notin {"unborn", "idle", "lock"}

LocksHeld == /\ \A t \in Thread : Inside(t) => lock[PoolOf(t)] = t
             /\ \A p \in Pool : lock[p] \in Thread => PoolOf(lock[p]) = p /\ Inside(lock[p])

(* What the program counter says about the locals. *)
ControlOK(t) ==
  /\ loc[t].pc \in {"unborn", "idle", "noStack"} => loc[t].op = "none"
  /\ loc[t].pc = "lock" => loc[t].op \in {"malloc", "free", "stack"}
  /\ loc[t].pc = "malloc" => loc[t].op = "malloc"
  /\ loc[t].pc = "stack" => loc[t].op = "stack"
  /\ loc[t].pc \in {"palloc", "map"} => loc[t].op \in {"malloc", "stack"}
  /\ loc[t].pc \in {"load", "store", "unlock"} =>
       loc[t].op \in {"malloc", "stack", "free"}
  /\ loc[t].pc = "free" => loc[t].op = "free"
  /\ loc[t].pc \in {"unborn", "idle", "lock", "malloc", "stack"} => loc[t].for = "page"
  /\ loc[t].pc \in {"lock", "malloc"} /\ loc[t].op = "malloc" =>
       loc[t].cnt \in Nat \ {0} /\ loc[t].cnt <= LargestRequest(PoolOf(t))
  /\ loc[t].pc = "lock" /\ loc[t].op = "free" => loc[t].page = loc[t].start
  /\ loc[t].op = "stack" => t \in Process
  /\ loc[t].op = "free" => loc[t].for = "page"
  /\ loc[t].for = "table" => t \in Process
  /\ loc[t].pc = "map" \/ (loc[t].for = "table" /\ loc[t].pc # "unlock") =>
       loc[t].frame \in {PoolOf(t)} \X Nat
  /\ loc[t].op = "free" /\ loc[t].pc \in {"load", "store"} =>
       loc[t].frame \in {PoolOf(t)} \X Nat
  /\ loc[t].for = "table" /\ loc[t].pc \in {"palloc", "load", "store"} =>
       table[t][Region(loc[t].page)] = NULL
  /\ loc[t].pc \in {"load", "store"} => loc[t].bit \in Nat

(***************************************************************************)
(* The pages of its address space that belong to a thread: what it has     *)
(* been given, and the request it is working on until mallocPage or        *)
(* getPage gives up or mfreePage is done.                                  *)
(***************************************************************************)
Working(t) == \/ loc[t].pc \in {"palloc", "load", "store", "map", "free"}
              \/ loc[t].pc = "lock" /\ loc[t].op = "free"
              \/ loc[t].pc = "unlock" /\ loc[t].op # "free" /\ loc[t].cnt # 0

Claim(t)  == [start |-> loc[t].start, cnt |-> loc[t].cnt]
Claims(t) == live[t] \cup IF Working(t) THEN {Claim(t)} ELSE {}

ClaimsUsed ==
  \A t \in Thread : \A a \in Claims(t) :
    /\ a.cnt \in Nat \ {0}
    /\ PagesOf(a) \subseteq vaddrs[SpaceOf(t)].used
    /\ t \in Process /\ StackPage(t) \in PagesOf(a) => a.start = StackPage(t)

ClaimsApart ==
  \A t, u \in Thread : \A a \in Claims(t), b \in Claims(u) :
    SpaceOf(t) = SpaceOf(u) /\ PagesOf(a) \cap PagesOf(b) # {} => t = u /\ a = b

ClaimNotLive == \A t \in Thread : Working(t) => Claim(t) \notin live[t]

Mapped(s, p) == pte[s][p] # NULL

LivesMapped ==
  \A t \in Thread : \A a \in live[t] : \A p \in PagesOf(a) : Mapped(SpaceOf(t), p)

(* Requests are mapped and unmapped from the first page on. *)
Progress(t) ==
  Working(t) =>
    /\ loc[t].page \in PagesOf(Claim(t))
    /\ \A p \in PagesOf(Claim(t)) :
         Mapped(SpaceOf(t), p) <=>
           IF loc[t].op = "free" THEN p >= loc[t].page
           ELSE loc[t].pc = "unlock" \/ p < loc[t].page
    /\ loc[t].op = "stack" => loc[t].start = StackPage(t) /\ loc[t].cnt = 1
    /\ loc[t].op # "stack" /\ t \in Process => loc[t].start # StackPage(t)

UnusedUnmapped == \A s \in Space : \A p \in Page(s) : Mapped(s, p) => p \in vaddrs[s].used

RightPool ==
  \A s \in Space : \A p \in Page(s) :
    Mapped(s, p) => pte[s][p][1] = IF s = Kernel THEN "kernel" ELSE "user"

(* From getPage on, userVaddr keeps the stack page of a process. *)
Started(t) == /\ loc[t].pc # "unborn"
              /\ ~ (loc[t].op = "stack" /\ loc[t].pc \in {"lock", "stack"})

StackKept == \A t \in Process : IF Started(t) THEN StackPage(t) \in vaddrs[t].used
                               ELSE vaddrs[t].used = {}

(***************************************************************************)
(* An address that is marked is part of one claim, or of a request that    *)
(* was given up; of those the pages before the one that got no frame stay  *)
(* mapped.                                                                 *)
(***************************************************************************)
ClaimedPage(s, p) ==
  \E t \in Thread : SpaceOf(t) = s /\ \E a \in Claims(t) : p \in PagesOf(a)

LostKnown ==
  \A s \in Space :
    /\ lost[s].mapped \subseteq lost[s].marked
    /\ \A p \in lost[s].marked : /\ p \in vaddrs[s].used /\ ~ ClaimedPage(s, p)
                                 /\ Mapped(s, p) <=> p \in lost[s].mapped
    /\ \A p \in vaddrs[s].used : ClaimedPage(s, p) \/ p \in lost[s].marked

Claimed == /\ ClaimsUsed /\ ClaimsApart /\ ClaimNotLive /\ LivesMapped
           /\ \A t \in Thread : Progress(t)

(***************************************************************************)
(* The inductive invariant about address spaces.  NoPanic, LiveMapped and  *)
(* FirstFit follow from it.                                                *)
(***************************************************************************)
SpaceInv == /\ TypeOK /\ LocksHeld /\ (\A t \in Thread : ControlOK(t))
            /\ Claimed /\ UnusedUnmapped /\ RightPool /\ StackKept /\ LostKnown /\ NoPanic

-----------------------------------------------------------------------------
(* The locals of no other thread change. *)
OnlyLoc(t) == /\ loc[t] \in Locals
              /\ loc'[t] \in Locals => loc' \in [Thread -> Locals]
              /\ \A u \in Thread : u # t => loc'[u] = loc[u]

(* Set changes the fields it is given in the locals of one thread. *)
LEMMA SetFacts ==
  ASSUME loc \in [Thread -> Locals], NEW t \in Thread, NEW f, Set(t, f)
  PROVE  /\ loc'[t] \in Locals => loc' \in [Thread -> Locals]
         /\ \A u \in Thread : u # t => loc'[u] = loc[u]
         /\ loc'[t] =
              [pc    |-> IF "pc" \in DOMAIN f THEN f.pc ELSE loc[t].pc,
               op    |-> IF "op" \in DOMAIN f THEN f.op ELSE loc[t].op,
               start |-> IF "start" \in DOMAIN f THEN f.start ELSE loc[t].start,
               cnt   |-> IF "cnt" \in DOMAIN f THEN f.cnt ELSE loc[t].cnt,
               page  |-> IF "page" \in DOMAIN f THEN f.page ELSE loc[t].page,
               for   |-> IF "for" \in DOMAIN f THEN f.for ELSE loc[t].for,
               bit   |-> IF "bit" \in DOMAIN f THEN f.bit ELSE loc[t].bit,
               byte  |-> IF "byte" \in DOMAIN f THEN f.byte ELSE loc[t].byte,
               frame |-> IF "frame" \in DOMAIN f THEN f.frame ELSE loc[t].frame]
<1> DEFINE l == loc[t]
           new == [x \in DOMAIN l |-> IF x \in DOMAIN f THEN f[x] ELSE l[x]]
<1>1. l \in Locals
  OBVIOUS
<1>2. loc' = [loc EXCEPT ![t] = new]
  BY DEF Set
<1>3. /\ loc'[t] = new /\ (new \in Locals => loc' \in [Thread -> Locals])
      /\ \A u \in Thread : u # t => loc'[u] = loc[u]
  <2> HIDE DEF new
  <2> QED BY <1>2
<1> HIDE DEF l
<1>4. new =
        [pc    |-> IF "pc" \in DOMAIN f THEN f.pc ELSE l.pc,
         op    |-> IF "op" \in DOMAIN f THEN f.op ELSE l.op,
         start |-> IF "start" \in DOMAIN f THEN f.start ELSE l.start,
         cnt   |-> IF "cnt" \in DOMAIN f THEN f.cnt ELSE l.cnt,
         page  |-> IF "page" \in DOMAIN f THEN f.page ELSE l.page,
         for   |-> IF "for" \in DOMAIN f THEN f.for ELSE l.for,
         bit   |-> IF "bit" \in DOMAIN f THEN f.bit ELSE l.bit,
         byte  |-> IF "byte" \in DOMAIN f THEN f.byte ELSE l.byte,
         frame |-> IF "frame" \in DOMAIN f THEN f.frame ELSE l.frame]
  BY <1>1 DEF Locals
<1> QED BY <1>3, <1>4 DEF l

(* Threads, spaces and pools. *)
LEMMA SpaceFacts ==
  /\ NULL \notin Thread /\ NULL \notin Frame /\ NULL # PhysZero
  /\ \A t \in Thread : SpaceOf(t) \in Space /\ PoolOf(t) \in Pool
  /\ \A t \in Process : t \in Thread /\ t \in Space /\ t # Kernel
  /\ \A t \in Thread : SpaceOf(t) = IF t \in Process THEN t ELSE Kernel
  /\ \A t \in Thread : PoolOf(t) = IF t \in Process THEN "user" ELSE "kernel"
  /\ \A s \in Space : VaddrBytes[s] * ByteBits \in Nat \ {0}
  /\ \A s \in Space : StackPage(s) \in Page(s) /\ Page(s) \subseteq Nat
  BY PagesAssumption, ByteAssumption
     DEF Thread, Space, Pool, SpaceOf, PoolOf, Frame, VaddrBytes, StackPage, Page

(* After memInit, and after the start of the processes, nothing is         *)
(* claimed and nothing is mapped.                                          *)
LEMMA InitSpace == Init => SpaceInv
<1> SUFFICES ASSUME Init PROVE SpaceInv
  OBVIOUS
<1> USE DEF Init
<1>1. \A t \in Thread : loc[t] \in Locals /\ loc[t].pc \in {"unborn", "idle", "lock"}
        /\ loc[t].op \in {"none", "stack"} /\ loc[t].for = "page"
        /\ (loc[t].pc # "lock" => loc[t].op = "none")
        /\ (loc[t].op = "stack" => t \in Process)
        /\ (loc[t].pc = "lock" => loc[t].op = "stack")
        /\ (t \in Process /\ loc[t].pc # "unborn" => loc[t].op = "stack"
             /\ loc[t].pc = "lock")
  <2>1. PICK T \in Together :
          loc = [t \in Thread |->
                   IF t \notin T THEN [Idle EXCEPT !.pc = "unborn"]
                   ELSE IF t \in Process
                   THEN [Idle EXCEPT !.pc = "lock", !.op = "stack"] ELSE Idle]
    OBVIOUS
  <2>2. /\ Idle \in Locals /\ Idle.pc = "idle" /\ Idle.op = "none" /\ Idle.for = "page"
        /\ [Idle EXCEPT !.pc = "unborn"] \in Locals
        /\ [Idle EXCEPT !.pc = "lock", !.op = "stack"] \in Locals
    <3>1. Idle \in Locals /\ Idle.pc = "idle" /\ Idle.op = "none" /\ Idle.for = "page"
      BY DEF Idle, Locals, Label
    <3> HIDE DEF Idle
    <3> QED BY <3>1 DEF Locals, Label
  <2>3. \A t \in Thread : \/ loc[t] = [Idle EXCEPT !.pc = "unborn"]
                          \/ loc[t] = [Idle EXCEPT !.pc = "lock", !.op = "stack"]
                               /\ t \in Process
                          \/ loc[t] = Idle /\ t \notin Process
    BY <2>1
  <2> QED BY <2>2, <2>3 DEF Locals
<1>2. TypeOK
  <2>1. table \in [Process -> [Regions -> Frame \cup {PhysZero, NULL}]]
    BY PagesAssumption DEF Regions, Page, VaddrBytes, Space
  <2>2. pool \in [Pool -> BitmapType] /\ \A p \in Pool : pool[p].size = PoolBytes[p]
    BY PagesAssumption DEF bitmapInit, PoolBytes, BitmapType
  <2>3. /\ vaddrs \in [Space -> BitmapType]
        /\ \A s \in Space : vaddrs[s].size = VaddrBytes[s]
             /\ vaddrs[s].used \subseteq Page(s)
    BY PagesAssumption DEF bitmapInit, VaddrBytes, BitmapType
  <2> QED BY <2>1, <2>2, <2>3, <1>1 DEF TypeOK
<1>3. LocksHeld
  BY <1>1, SpaceFacts DEF LocksHeld, Inside, Thread
<1>4. \A t \in Thread : ControlOK(t)
  BY <1>1 DEF ControlOK
<1>5. \A t \in Thread : Claims(t) = {} /\ ~ Working(t)
  BY <1>1 DEF Claims, Working
<1>6. Claimed
  BY <1>5 DEF Claimed, ClaimsUsed, ClaimsApart, ClaimNotLive, LivesMapped, Progress
<1>7. UnusedUnmapped /\ RightPool
  BY DEF UnusedUnmapped, RightPool, Mapped
<1>8. StackKept
  BY <1>1 DEF StackKept, Started, Thread, Space, bitmapInit
<1>9. LostKnown
  BY DEF LostKnown, bitmapInit
<1> QED BY <1>2, <1>3, <1>4, <1>6, <1>7, <1>8, <1>9 DEF SpaceInv, NoPanic

-----------------------------------------------------------------------------
(* A step of one thread that maps nothing and claims nothing new. *)
LEMMA ClaimedKept ==
  ASSUME SpaceInv, NEW t \in Thread, UNCHANGED <<vaddrs, pte, live>>,
         \A u \in Thread : u # t => loc'[u] = loc[u],
         Working(t)' => /\ Working(t)
                        /\ loc'[t].start = loc[t].start /\ loc'[t].cnt = loc[t].cnt
                        /\ loc'[t].page = loc[t].page /\ loc'[t].op = loc[t].op
                        /\ (loc'[t].pc = "unlock" <=> loc[t].pc = "unlock")
  PROVE  Claimed' /\ UnusedUnmapped' /\ RightPool'
<1> USE DEF SpaceInv, Claimed
<1>1. \A u \in Thread : u # t => (Working(u)' <=> Working(u)) /\ Claim(u)' = Claim(u)
  BY DEF Working, Claim
<1>2. Working(t)' => Claim(t)' = Claim(t)
  BY DEF Claim
<1>3. \A u \in Thread : Claims(u)' \subseteq Claims(u)
  BY <1>1, <1>2 DEF Claims
<1>4. ClaimsUsed'
  BY <1>3 DEF ClaimsUsed
<1>5. ClaimsApart'
  BY <1>3 DEF ClaimsApart
<1>6. ClaimNotLive' /\ LivesMapped'
  BY <1>1, <1>2 DEF ClaimNotLive, LivesMapped, Mapped
<1>7. \A u \in Thread : Progress(u)'
  BY <1>1, <1>2 DEF Progress, Mapped
<1>8. UnusedUnmapped' /\ RightPool'
  BY DEF UnusedUnmapped, RightPool, Mapped
<1> QED BY <1>4, <1>5, <1>6, <1>7, <1>8

(* A step that takes no address and gives none back. *)
LEMMA LostKept ==
  ASSUME SpaceInv, UNCHANGED <<vaddrs, lost>>, \A u \in Thread : Claims(u)' = Claims(u),
         \A s \in Space : \A p \in lost[s].marked : Mapped(s, p)' <=> Mapped(s, p)
  PROVE  LostKnown'
<1>1. \A s, p : ClaimedPage(s, p)' <=> ClaimedPage(s, p)
  BY DEF ClaimedPage
<1> QED BY <1>1 DEF SpaceInv, LostKnown

(* A step of one thread that goes on with what it has claimed, if anything. *)
LEMMA LostStays ==
  ASSUME SpaceInv, NEW t \in Thread, UNCHANGED <<vaddrs, pte, live, lost>>,
         \A u \in Thread : u # t => loc'[u] = loc[u],
         Working(t)' <=> Working(t),
         Working(t) => loc'[t].start = loc[t].start /\ loc'[t].cnt = loc[t].cnt
  PROVE  LostKnown'
<1>1. \A u \in Thread : (Working(u)' <=> Working(u)) /\ (Working(u) => Claim(u)' = Claim(u))
  BY DEF Working, Claim
<1>2. \A u \in Thread : Claims(u)' = Claims(u)
  BY <1>1 DEF Claims
<1> QED BY <1>2, LostKept DEF Mapped

(* A step of a thread that keeps its lock. *)
LEMMA LocksKept ==
  ASSUME SpaceInv, NEW t \in Thread, lock' = lock,
         \A u \in Thread : u # t => loc'[u] = loc[u],
         Inside(t)' <=> Inside(t)
  PROVE  LocksHeld'
  BY DEF SpaceInv, LocksHeld, Inside

(* The program counters of the threads that do not move. *)
LEMMA ControlKept ==
  ASSUME SpaceInv, NEW t \in Thread,
         \A u \in Thread : u # t => loc'[u] = loc[u],
         \A u \in Process : u # t => table'[u] = table[u],
         ControlOK(t)'
  PROVE  \A u \in Thread : ControlOK(u)'
<1> SUFFICES ASSUME NEW u \in Thread, u # t
             PROVE  ControlOK(u)'
  OBVIOUS
<1>1. ControlOK(u) /\ loc'[u] = loc[u] /\ (u \in Process => table'[u] = table[u])
  BY DEF SpaceInv
<1> QED BY <1>1 DEF ControlOK

(* The stack pages of the processes, in a step that changes no bitmap. *)
LEMMA StackStays ==
  ASSUME SpaceInv, NEW t \in Thread, vaddrs' = vaddrs,
         \A u \in Thread : u # t => loc'[u] = loc[u],
         t \in Process => (Started(t)' <=> Started(t))
  PROVE  StackKept'
  BY DEF SpaceInv, StackKept, Started, Thread

(* sysMalloc is called. *)
LEMMA MallocStep ==
  ASSUME SpaceInv, NEW t \in Thread, NEW cnt \in 1 .. MaxPages, Malloc(t, cnt)
  PROVE  SpaceInv'
<1> USE DEF Malloc, At
<1>1. Set(t, [pc |-> "lock", op |-> "malloc", cnt |-> cnt]) /\ loc[t].pc = "idle"
      /\ cnt <= LargestRequest(PoolOf(t))
      /\ UNCHANGED <<pool, vaddrs, table, pte, lock, cli, live, lost, panic>>
  OBVIOUS
<1> DEFINE l == loc[t]
<1> DEFINE f == [pc |-> "lock", op |-> "malloc", cnt |-> cnt]
<1>2. OnlyLoc(t)
      /\ loc'[t] = [pc |-> "lock", op |-> "malloc", start |-> l.start, cnt |-> cnt,
                    page |-> l.page, for |-> l.for, bit |-> l.bit, byte |-> l.byte,
                    frame |-> l.frame]
  <2>1. /\ loc \in [Thread -> Locals] /\ Set(t, f) /\ DOMAIN f = {"pc", "op", "cnt"}
        /\ f.pc = "lock" /\ f.op = "malloc" /\ f.cnt = cnt
    BY <1>1 DEF SpaceInv, TypeOK
  <2> HIDE DEF f
  <2> QED BY <2>1, SetFacts DEF OnlyLoc
<1>3. TypeOK'
  <2>1. loc' \in [Thread -> Locals]
    <3>1. loc'[t] \in Locals
      BY <1>2, PagesAssumption DEF Locals, Label, OnlyLoc
    <3> QED BY <1>2, <3>1 DEF OnlyLoc
  <2> QED BY <2>1, <1>1 DEF SpaceInv, TypeOK
<1>4. ControlOK(t)'
  BY <1>1, <1>2, PagesAssumption DEF SpaceInv, ControlOK, Locals, OnlyLoc
<1>5. Claimed' /\ UnusedUnmapped' /\ RightPool'
  BY <1>1, <1>2, ClaimedKept DEF Working, Locals, OnlyLoc
<1>6. LocksHeld'
  BY <1>1, <1>2, LocksKept DEF Inside, Locals, OnlyLoc
<1>7. StackKept'
  BY <1>1, <1>2, StackStays DEF Started, Locals, OnlyLoc
<1>8. LostKnown'
  BY <1>1, <1>2, LostStays DEF Working, OnlyLoc
<1> QED BY <1>1, <1>2, <1>3, <1>4, <1>5, <1>6, <1>7, <1>8, ControlKept
        DEF SpaceInv, NoPanic, OnlyLoc

(* sysFree is called with pages that the thread has been given: from now   *)
(* on they belong to the request.                                          *)
LEMMA FreeStep ==
  ASSUME SpaceInv, NEW t \in Thread, NEW a \in live[t], Free(t, a),
         t \in Process => a.start # StackPage(t)
  PROVE  SpaceInv'
<1>1. /\ Set(t, [pc |-> "lock", op |-> "free", start |-> a.start, page |-> a.start,
                 cnt |-> a.cnt])
      /\ loc[t].pc = "idle" /\ live' = [live EXCEPT ![t] = @ \ {a}]
      /\ UNCHANGED <<pool, vaddrs, table, pte, lock, cli, lost, panic>>
  BY DEF Free, At
<1> DEFINE l == loc[t]
<1> DEFINE f == [pc |-> "lock", op |-> "free", start |-> a.start, page |-> a.start,
                 cnt |-> a.cnt]
<1>2. OnlyLoc(t)
      /\ loc'[t] = [pc |-> "lock", op |-> "free", start |-> a.start, cnt |-> a.cnt,
                    page |-> a.start, for |-> l.for, bit |-> l.bit, byte |-> l.byte,
                    frame |-> l.frame]
  <2>1. /\ loc \in [Thread -> Locals] /\ Set(t, f)
             /\ DOMAIN f = {"pc", "op", "start", "page", "cnt"}
        /\ f.pc = "lock" /\ f.op = "free" /\ f.start = a.start /\ f.page = a.start
             /\ f.cnt = a.cnt
    BY <1>1 DEF SpaceInv, TypeOK
  <2> HIDE DEF f
  <2> QED BY <2>1, SetFacts DEF OnlyLoc
<1>3. a.start \in Int /\ a.cnt \in Int /\ a = [start |-> a.start, cnt |-> a.cnt]
  BY DEF SpaceInv, TypeOK
<1>4. TypeOK'
  <2>1. loc'[t] \in Locals
    BY <1>2, <1>3 DEF Locals, Label, OnlyLoc
  <2> QED BY <1>1, <1>2, <2>1 DEF SpaceInv, TypeOK, OnlyLoc
<1>5. ControlOK(t)'
  BY <1>1, <1>2 DEF SpaceInv, ControlOK, OnlyLoc
<1>6. ~ Working(t) /\ Working(t)' /\ Claim(t)' = a /\ loc'[t].op = "free"
      /\ loc'[t].pc = "lock" /\ loc'[t].page = a.start /\ loc'[t].start = a.start
  BY <1>1, <1>2, <1>3 DEF Working, Claim
<1>7. \A u \in Thread : u # t => /\ Working(u)' <=> Working(u)
                                 /\ Claim(u)' = Claim(u) /\ live'[u] = live[u]
  BY <1>1, <1>2 DEF Working, Claim, OnlyLoc, SpaceInv, TypeOK
<1>8. live'[t] = live[t] \ {a}
  BY <1>1 DEF SpaceInv, TypeOK
<1>9. \A u \in Thread : Claims(u)' = Claims(u)
  BY <1>6, <1>7, <1>8 DEF Claims
<1>10. Claimed'
  <2>1. ClaimsUsed' /\ ClaimsApart'
    BY <1>1, <1>9 DEF SpaceInv, Claimed, ClaimsUsed, ClaimsApart
  <2>2. ClaimNotLive' /\ LivesMapped'
    BY <1>1, <1>6, <1>7, <1>8 DEF SpaceInv, Claimed, ClaimNotLive, LivesMapped, Mapped
  <2>3. a \in Claims(t) /\ a.cnt \in Nat \ {0}
        /\ \A p \in PagesOf(a) : Mapped(SpaceOf(t), p)
    BY DEF Claims, SpaceInv, Claimed, ClaimsUsed, LivesMapped
  <2>4. Progress(t)'
    BY <1>1, <1>3, <1>6, <2>3 DEF Progress, Mapped, PagesOf
  <2>5. \A u \in Thread : u # t => Progress(u)'
    BY <1>1, <1>2, <1>7 DEF SpaceInv, Claimed, Progress, Mapped, OnlyLoc
  <2> QED BY <2>1, <2>2, <2>4, <2>5 DEF Claimed
<1>11. LocksHeld'
  BY <1>1, <1>2, LocksKept DEF Inside, OnlyLoc
<1>12. StackKept'
  BY <1>1, <1>2, StackStays DEF Started, OnlyLoc, ControlOK, SpaceInv
<1>13. UnusedUnmapped' /\ RightPool'
  BY <1>1 DEF SpaceInv, UnusedUnmapped, RightPool, Mapped
<1>14. LostKnown'
  BY <1>1, <1>9, LostKept DEF Mapped
<1> QED BY <1>1, <1>2, <1>4, <1>5, <1>10, <1>11, <1>12, <1>13, <1>14, ControlKept
        DEF SpaceInv, NoPanic, OnlyLoc

(* lockAcquire of the pool; a process in a system call keeps the CPU. *)
LEMMA LockPoolStep ==
  ASSUME SpaceInv, NEW t \in Thread, LockPool(t)
  PROVE  SpaceInv'
<1>1. /\ Set(t, [pc |-> loc[t].op]) /\ loc[t].pc = "lock"
      /\ lock[PoolOf(t)] = NULL /\ lock' = [lock EXCEPT ![PoolOf(t)] = t]
      /\ cli' \in {t, cli}
      /\ UNCHANGED <<pool, vaddrs, table, pte, live, lost, panic>>
  BY DEF LockPool, At
<1> DEFINE l == loc[t]
<1> DEFINE f == [pc |-> l.op]
<1>2. OnlyLoc(t)
      /\ loc'[t] = [pc |-> l.op, op |-> l.op, start |-> l.start, cnt |-> l.cnt,
                    page |-> l.page, for |-> l.for, bit |-> l.bit, byte |-> l.byte,
                    frame |-> l.frame]
  <2>1. /\ loc \in [Thread -> Locals] /\ Set(t, f) /\ DOMAIN f = {"pc"}
        /\ f.pc = l.op
    BY <1>1 DEF SpaceInv, TypeOK
  <2> HIDE DEF f
  <2> QED BY <2>1, SetFacts DEF OnlyLoc
<1>3. l.op \in {"malloc", "free", "stack"} /\ l.for = "page"
  BY <1>1 DEF SpaceInv, ControlOK
<1>4. TypeOK'
  <2>1. loc'[t] \in Locals
    BY <1>2, <1>3 DEF Locals, Label, OnlyLoc
  <2>2. lock' \in [Pool -> Thread \cup {NULL}]
    BY <1>1 DEF SpaceInv, TypeOK
  <2>3. cli' \in Thread \cup {NULL}
    BY <1>1 DEF SpaceInv, TypeOK
  <2> QED BY <1>1, <1>2, <2>1, <2>2, <2>3 DEF SpaceInv, TypeOK, OnlyLoc
<1>5. ControlOK(t)'
  BY <1>1, <1>2, <1>3 DEF SpaceInv, ControlOK, OnlyLoc
<1>6. Claimed' /\ UnusedUnmapped' /\ RightPool'
  BY <1>1, <1>2, <1>3, ClaimedKept DEF Working, OnlyLoc
<1>7. LocksHeld'
  <2>1. \A u \in Thread : Inside(u)' => u = t \/ Inside(u)
    BY <1>2 DEF Inside, OnlyLoc
  <2>2. \A u \in Thread : Inside(u) => PoolOf(u) # PoolOf(t)
    BY <1>1, SpaceFacts DEF SpaceInv, LocksHeld
  <2>3. Inside(t)'
    BY <1>2, <1>3 DEF Inside
  <2>4. \A u \in Thread : Inside(u) => Inside(u)'
    BY <1>2, <2>3 DEF Inside, OnlyLoc
  <2>5. lock \in [Pool -> Thread \cup {NULL}]
    BY DEF SpaceInv, TypeOK
  <2>6. /\ lock'[PoolOf(t)] = t
        /\ \A q \in Pool : q # PoolOf(t) => lock'[q] = lock[q]
    BY <1>1, <2>5, SpaceFacts
  <2>7. \A u \in Thread : Inside(u)' => lock'[PoolOf(u)] = u
    BY <2>1, <2>2, <2>6, SpaceFacts DEF SpaceInv, LocksHeld
  <2>8. \A q \in Pool : lock'[q] \in Thread => PoolOf(lock'[q]) = q
    BY <2>6 DEF SpaceInv, LocksHeld
  <2>9. \A q \in Pool : lock'[q] \in Thread =>
          loc'[lock'[q]].pc \notin {"unborn", "idle", "lock"}
    BY <2>3, <2>4, <2>6 DEF SpaceInv, LocksHeld, Inside
  <2> QED BY <2>7, <2>8, <2>9 DEF LocksHeld, Inside
<1>8. StackKept'
  BY <1>1, <1>2, <1>3, StackStays DEF Started, OnlyLoc
<1>9. LostKnown'
  BY <1>1, <1>2, <1>3, LostStays DEF Working, OnlyLoc
<1> QED BY <1>1, <1>2, <1>4, <1>5, <1>6, <1>7, <1>8, <1>9, ControlKept
        DEF SpaceInv, NoPanic, OnlyLoc

(* The ASSERT of mallocPage fails only if sysMalloc lets through a request *)
(* that is too large for it.                                               *)
LEMMA TooManyPagesStep ==
  ASSUME SpaceInv, NEW t \in Thread, TooManyPages(t)
  PROVE  SpaceInv'
<1>1. /\ loc[t].pc = "malloc" /\ loc[t].cnt >= MaxPgCnt /\ panic' = "mallocPage"
      /\ UNCHANGED <<pool, vaddrs, table, pte, lock, cli, loc, live, lost>>
  BY DEF TooManyPages, At
<1>2. NoPanic'
  <2>1. loc[t].cnt \in Nat /\ loc[t].cnt <= LargestRequest(PoolOf(t)) /\ PoolOf(t) \in Pool
    BY <1>1, SpaceFacts DEF SpaceInv, ControlOK
  <2>2. LargestRequest(PoolOf(t)) \in Nat
    BY PagesAssumption, ByteAssumption DEF LargestRequest, PoolBytes, PoolOf, Pool
  <2>3. LargestRequest(PoolOf(t)) >= MaxPgCnt
    BY <1>1, <2>1, <2>2, PagesAssumption
  <2> QED BY <1>1, <2>1, <2>3 DEF NoPanic, LargestRequest
<1>3. TypeOK' /\ LocksHeld' /\ \A u \in Thread : ControlOK(u)'
  BY <1>1 DEF SpaceInv, TypeOK, LocksHeld, Inside, ControlOK
<1>4. Claimed' /\ UnusedUnmapped' /\ RightPool' /\ LostKnown'
  BY <1>1, ClaimedKept, LostStays DEF Working
<1>5. StackKept'
  BY <1>1, StackStays DEF Started
<1> QED BY <1>2, <1>3, <1>4, <1>5 DEF SpaceInv

(* vaddrGet finds no run of pages that is long enough. *)
LEMMA VaddrGetFails ==
  ASSUME SpaceInv, NEW t \in Thread, VaddrGet(t),
         bitmapScan(vaddrs[SpaceOf(t)], loc[t].cnt) = -1
  PROVE  SpaceInv'
<1>1. /\ Set(t, [pc |-> "unlock", cnt |-> 0]) /\ loc[t].pc = "malloc"
      /\ UNCHANGED <<pool, vaddrs, table, pte, lock, cli, live, lost, panic>>
  BY DEF VaddrGet, At
<1> DEFINE l == loc[t]
<1> DEFINE f == [pc |-> "unlock", cnt |-> 0]
<1>2. OnlyLoc(t)
      /\ loc'[t] = [pc |-> "unlock", op |-> l.op, start |-> l.start, cnt |-> 0,
                    page |-> l.page, for |-> l.for, bit |-> l.bit, byte |-> l.byte,
                    frame |-> l.frame]
  <2>1. /\ loc \in [Thread -> Locals] /\ Set(t, f) /\ DOMAIN f = {"pc", "cnt"}
        /\ f.pc = "unlock" /\ f.cnt = 0
    BY <1>1 DEF SpaceInv, TypeOK
  <2> HIDE DEF f
  <2> QED BY <2>1, SetFacts DEF OnlyLoc
<1>3. l.op = "malloc" /\ l.for = "page"
  BY <1>1 DEF SpaceInv, ControlOK
<1>4. TypeOK'
  <2>1. loc'[t] \in Locals
    BY <1>2 DEF Locals, Label, OnlyLoc
  <2> QED BY <1>1, <1>2, <2>1 DEF SpaceInv, TypeOK, OnlyLoc
<1>5. ControlOK(t)'
  BY <1>1, <1>2, <1>3 DEF SpaceInv, ControlOK, OnlyLoc
<1>6. Claimed' /\ UnusedUnmapped' /\ RightPool'
  BY <1>1, <1>2, <1>3, ClaimedKept DEF Working, OnlyLoc
<1>7. LocksHeld'
  BY <1>1, <1>2, LocksKept DEF Inside, OnlyLoc
<1>8. StackKept'
  BY <1>1, <1>2, <1>3, StackStays DEF Started, OnlyLoc
<1>9. LostKnown'
  BY <1>1, <1>2, <1>3, LostStays DEF Working, OnlyLoc
<1> QED BY <1>1, <1>2, <1>4, <1>5, <1>6, <1>7, <1>8, <1>9, ControlKept
        DEF SpaceInv, NoPanic, OnlyLoc

(* The pages that vaddrGet or getPage marks were nobody's: the claim they  *)
(* make overlaps no other, and none of them is mapped.                     *)
LEMMA NewClaim ==
  ASSUME SpaceInv, NEW t \in Thread, NEW start \in Int, NEW cnt \in Nat \ {0},
         NEW s, s = SpaceOf(t),
         start .. start + cnt - 1 \subseteq Page(s),
         vaddrs[s].used \cap (start .. start + cnt - 1) = {},
         vaddrs'[s].used = vaddrs[s].used \cup (start .. start + cnt - 1),
         \A r \in Space : r # s => vaddrs'[r] = vaddrs[r],
         UNCHANGED <<pte, live, lost>>, ~ Working(t), Working(t)',
         OnlyLoc(t), loc'[t].pc = "palloc", loc'[t].op \in {"malloc", "stack"},
         loc'[t].start = start, loc'[t].cnt = cnt, loc'[t].page = start,
         loc'[t].op = "stack" => start = StackPage(t) /\ cnt = 1 /\ t \in Process,
         loc'[t].op = "malloc" /\ t \in Process => StackPage(t) \in vaddrs[t].used
  PROVE  Claimed' /\ UnusedUnmapped' /\ RightPool' /\ LostKnown'
<1> DEFINE new == [start |-> start, cnt |-> cnt]
<1>1. s \in Space /\ \A u \in Thread : SpaceOf(u) \in Space
  BY SpaceFacts
<1>2. \A r \in Space : vaddrs[r].used \subseteq vaddrs'[r].used
  OBVIOUS
<1>3. PagesOf(new) = start .. start + cnt - 1 /\ start \in PagesOf(new)
  BY DEF PagesOf
<1>4. Claim(t)' = new
  BY DEF Claim
<1>5. \A u \in Thread : u # t => /\ Working(u)' <=> Working(u)
                                 /\ Claim(u)' = Claim(u)
  BY DEF Working, Claim, OnlyLoc
<1>6. Claims(t)' = Claims(t) \cup {new} /\ \A u \in Thread : u # t => Claims(u)' = Claims(u)
  BY <1>4, <1>5 DEF Claims
<1>7. \A u \in Thread : \A a \in Claims(u) : PagesOf(a) # {}
        /\ PagesOf(a) \subseteq vaddrs[SpaceOf(u)].used
  <2> SUFFICES ASSUME NEW u \in Thread, NEW a \in Claims(u)
               PROVE  PagesOf(a) # {} /\ PagesOf(a) \subseteq vaddrs[SpaceOf(u)].used
    OBVIOUS
  <2>1. a.start \in Int /\ a.cnt \in Nat \ {0}
          /\ PagesOf(a) \subseteq vaddrs[SpaceOf(u)].used
    BY DEF SpaceInv, Claimed, ClaimsUsed, Claims, Claim, TypeOK, Locals
  <2>2. a.start \in PagesOf(a)
    BY <2>1 DEF PagesOf
  <2> QED BY <2>1, <2>2
<1>8. \A u \in Thread : \A a \in Claims(u) :
         SpaceOf(u) = s => PagesOf(a) \cap PagesOf(new) = {} /\ a # new
  <2> HIDE DEF new
  <2> QED BY <1>3, <1>7
<1>9. t \in Process => s = t
  BY SpaceFacts
<1> HIDE DEF new
<1>10. ClaimsUsed'
  <2>1. \A u \in Thread : \A a \in Claims(u) :
          /\ a.cnt \in Nat \ {0}
          /\ PagesOf(a) \subseteq vaddrs'[SpaceOf(u)].used
          /\ u \in Process /\ StackPage(u) \in PagesOf(a) => a.start = StackPage(u)
    BY <1>1, <1>2 DEF SpaceInv, Claimed, ClaimsUsed
  <2>2. /\ new.cnt \in Nat \ {0} /\ new.start = start
        /\ PagesOf(new) \subseteq vaddrs'[s].used
        /\ t \in Process /\ StackPage(t) \in PagesOf(new) => start = StackPage(t)
    BY <1>3, <1>9 DEF new
  <2> QED BY <2>1, <2>2, <1>6 DEF ClaimsUsed
<1>11. ClaimsApart'
  BY <1>6, <1>8 DEF SpaceInv, Claimed, ClaimsApart
<1>12. ClaimNotLive' /\ LivesMapped'
  <2>1. new \notin live[t]
    BY <1>8 DEF Claims
  <2> QED BY <2>1, <1>4, <1>5 DEF SpaceInv, Claimed, ClaimNotLive, LivesMapped, Mapped
<1>13. \A p \in PagesOf(new) : ~ Mapped(s, p)
  BY <1>1, <1>3 DEF SpaceInv, UnusedUnmapped
<1>14. Progress(t)'
  <2>1. \A p \in PagesOf(new) : ~ (p < start)
    BY <1>3
  <2>2. loc'[t].op = "malloc" /\ t \in Process => start # StackPage(t)
    BY <1>3, <1>9
  <2> QED BY <2>1, <2>2, <1>3, <1>4, <1>13 DEF Progress, Mapped
<1>15. \A u \in Thread : u # t => Progress(u)'
  BY <1>5 DEF SpaceInv, Claimed, Progress, Mapped, OnlyLoc
<1>16. UnusedUnmapped' /\ RightPool'
  BY <1>2 DEF SpaceInv, UnusedUnmapped, RightPool, Mapped
<1>17. LostKnown'
  <2>1. \A r \in Space, p \in Int :
          ClaimedPage(r, p)' <=> ClaimedPage(r, p) \/ (r = s /\ p \in PagesOf(new))
    BY <1>6 DEF ClaimedPage
  <2>2. ASSUME NEW r \in Space
        PROVE  /\ lost'[r] = lost[r] /\ lost[r].marked \subseteq Int
               /\ vaddrs'[r].used = vaddrs[r].used \cup
                                      (IF r = s THEN PagesOf(new) ELSE {})
               /\ vaddrs[r].used \subseteq Int /\ PagesOf(new) \subseteq Int
               /\ r = s => vaddrs[r].used \cap PagesOf(new) = {}
    BY <1>3, SpaceFacts DEF SpaceInv, TypeOK
  <2>3. \A r \in Space : \A p \in lost[r].marked :
          (Mapped(r, p)' <=> Mapped(r, p)) /\ ~ (r = s /\ p \in PagesOf(new))
    BY <2>2 DEF SpaceInv, LostKnown, Mapped
  <2> QED BY <2>1, <2>2, <2>3 DEF SpaceInv, LostKnown
<1> QED BY <1>10, <1>11, <1>12, <1>14, <1>15, <1>16, <1>17 DEF Claimed

(* vaddrGet, and its ASSERT: the run that bitmapScan finds ends before     *)
(* the stack page, whose bit getPage has set.                              *)
LEMMA VaddrGetStep ==
  ASSUME SpaceInv, NEW t \in Thread, VaddrGet(t)
  PROVE  SpaceInv'
<1> DEFINE s == SpaceOf(t)
           l == loc[t]
           start == bitmapScan(vaddrs[s], l.cnt)
<1>1. CASE start = -1
  BY <1>1, VaddrGetFails
<1>2. CASE start # -1
  <2>1. /\ vaddrs' = [vaddrs EXCEPT ![s] = bitmapSetRun(@, start, l.cnt, 1)]
        /\ Set(t, [pc |-> "palloc", start |-> start, page |-> start])
        /\ l.pc = "malloc"
        /\ panic' = IF t \in Process /\ start >= StackPage(t) THEN "vaddrGet" ELSE "none"
        /\ UNCHANGED <<pool, table, pte, lock, cli, live, lost>>
    BY <1>2 DEF VaddrGet, At
  <2> DEFINE f == [pc |-> "palloc", start |-> start, page |-> start]
  <2>2. OnlyLoc(t)
        /\ loc'[t] = [pc |-> "palloc", op |-> l.op, start |-> start, cnt |-> l.cnt,
                      page |-> start, for |-> l.for, bit |-> l.bit, byte |-> l.byte,
                      frame |-> l.frame]
    <3>1. /\ loc \in [Thread -> Locals] /\ Set(t, f) /\ DOMAIN f = {"pc", "start", "page"}
          /\ f.pc = "palloc" /\ f.start = start /\ f.page = start
      BY <2>1 DEF SpaceInv, TypeOK
    <3> HIDE DEF f
    <3> QED BY <3>1, SetFacts DEF OnlyLoc
  <2>3. l.op = "malloc" /\ l.for = "page" /\ l.cnt \in Nat \ {0}
    BY <2>1 DEF SpaceInv, ControlOK
  <2>4. s \in Space /\ (t \in Process => s = t) /\ Page(s) \subseteq Nat
    BY SpaceFacts
  <2>5. /\ vaddrs[s] \in BitmapType /\ vaddrs[s].size = VaddrBytes[s]
        /\ vaddrs[s].size \in Nat /\ Positions(vaddrs[s]) = Page(s)
    BY <2>4 DEF SpaceInv, TypeOK, Positions, Page, BitmapType
  <2>6. start \in Page(s) /\ \A i \in start .. start + l.cnt - 1 :
                               i \in Page(s) /\ i \notin vaddrs[s].used
    BY <2>3, <2>5, <1>2, ScanFree
  <2> HIDE DEF start
  <2>7. start \in Nat
    BY <2>4, <2>6
  <2>8. vaddrs' = [vaddrs EXCEPT ![s] =
                     [size |-> VaddrBytes[s],
                      used |-> vaddrs[s].used \cup (start .. start + l.cnt - 1)]]
    <3>1. bitmapSetRun(vaddrs[s], start, l.cnt, 1) =
            [size |-> VaddrBytes[s],
             used |-> vaddrs[s].used \cup (start .. start + l.cnt - 1)]
      <4>1. start \in Int /\ l.cnt \in Int
        BY <2>3, <2>7
      <4> HIDE DEF s, l
      <4>2. bitmapSetRun(vaddrs[s], start, l.cnt, 1) =
              [size |-> vaddrs[s].size,
               used |-> vaddrs[s].used \cup (start .. start + l.cnt - 1)]
        BY <2>5, <4>1, SetRunBits, Zenon
      <4> QED BY <2>5, <4>2
    <3> QED BY <2>1, <3>1
  <2>9. t \in Process => StackPage(t) \in vaddrs[t].used
    BY <2>1, <2>3 DEF SpaceInv, StackKept, Started
  <2>10. panic' = "none"
    <3> SUFFICES ASSUME t \in Process, start >= StackPage(t)
                 PROVE  FALSE
      BY <2>1
    <3>1. start = StackPage(t) /\ start \in start .. start + l.cnt - 1
      BY <2>3, <2>4, <2>6, <2>7, SpaceFacts DEF Page, StackPage
    <3> QED BY <3>1, <2>4, <2>6, <2>9
  <2>11. TypeOK'
    <3>1. loc'[t] \in Locals
      BY <2>2, <2>7 DEF Locals, Label, OnlyLoc
    <3>2. /\ vaddrs' \in [Space -> BitmapType]
          /\ \A r \in Space : vaddrs'[r].size = VaddrBytes[r]
               /\ vaddrs'[r].used \subseteq Page(r)
      <4> DEFINE new == [size |-> VaddrBytes[s],
                         used |-> vaddrs[s].used \cup (start .. start + l.cnt - 1)]
      <4>1. new \in BitmapType /\ new.size = VaddrBytes[s]
            /\ new.used \subseteq Page(s)
        BY <2>4, <2>5, <2>6 DEF SpaceInv, TypeOK, BitmapType
      <4> HIDE DEF new, s
      <4> QED BY <4>1, <2>8, <2>4 DEF SpaceInv, TypeOK, new
    <3> QED BY <2>1, <2>2, <3>1, <3>2 DEF SpaceInv, TypeOK, OnlyLoc
  <2>12. ControlOK(t)'
    BY <2>1, <2>2, <2>3 DEF SpaceInv, ControlOK, OnlyLoc
  <2>13. Claimed' /\ UnusedUnmapped' /\ RightPool' /\ LostKnown'
    <3>1. ~ Working(t) /\ Working(t)'
      BY <2>1, <2>2 DEF Working
    <3>2. start .. start + l.cnt - 1 \subseteq Page(s)
          /\ vaddrs[s].used \cap (start .. start + l.cnt - 1) = {}
      BY <2>6
    <3>3. /\ loc'[t].pc = "palloc" /\ loc'[t].op = "malloc" /\ loc'[t].start = start
          /\ loc'[t].cnt = l.cnt /\ loc'[t].page = start /\ OnlyLoc(t)
      BY <2>2, <2>3
    <3>4. /\ vaddrs'[s].used = vaddrs[s].used \cup (start .. start + l.cnt - 1)
          /\ \A r \in Space : r # s => vaddrs'[r] = vaddrs[r]
      BY <2>4, <2>8 DEF SpaceInv, TypeOK
    <3> HIDE DEF l
    <3> QED BY <3>1, <3>2, <3>3, <3>4, <2>1, <2>3, <2>7, <2>9, NewClaim
  <2>14. LocksHeld'
    BY <2>1, <2>2, LocksKept DEF Inside, OnlyLoc
  <2>15. StackKept'
    <3>1. \A r \in Space : /\ vaddrs[r].used \subseteq vaddrs'[r].used
                           /\ r # s => vaddrs'[r] = vaddrs[r]
      BY <2>4, <2>8 DEF SpaceInv, TypeOK
    <3>2. \A u \in Process : Started(u)' <=> Started(u)
      BY <2>1, <2>2, <2>3 DEF Started, OnlyLoc, Thread
    <3>3. t \in Process => Started(t)
      BY <2>1, <2>3 DEF Started
    <3>4. \A u \in Process : u \in Space /\ (u # t => u # s)
      BY SpaceFacts DEF SpaceOf
    <3> HIDE DEF s
    <3> QED BY <2>4, <3>1, <3>2, <3>3, <3>4 DEF SpaceInv, StackKept
  <2> QED BY <2>1, <2>2, <2>10, <2>11, <2>12, <2>13, <2>14, <2>15, ControlKept
          DEF SpaceInv, NoPanic, OnlyLoc
<1> QED BY <1>1, <1>2

(* getPage of startProcess takes the stack page. *)
LEMMA GetPageStep ==
  ASSUME SpaceInv, NEW t \in Thread, GetPage(t)
  PROVE  SpaceInv'
<1> DEFINE l == loc[t]
           start == StackPage(t)
<1>1. /\ vaddrs' = [vaddrs EXCEPT ![t] = bitmapSet(@, start, 1)]
      /\ Set(t, [pc |-> "palloc", start |-> start, page |-> start, cnt |-> 1])
      /\ l.pc = "stack" /\ UNCHANGED <<pool, table, pte, lock, cli, live, lost, panic>>
  BY DEF GetPage, At
<1> DEFINE f == [pc |-> "palloc", start |-> start, page |-> start, cnt |-> 1]
<1>2. OnlyLoc(t)
      /\ loc'[t] = [pc |-> "palloc", op |-> l.op, start |-> start, cnt |-> 1,
                    page |-> start, for |-> l.for, bit |-> l.bit, byte |-> l.byte,
                    frame |-> l.frame]
  <2>1. /\ loc \in [Thread -> Locals] /\ Set(t, f)
             /\ DOMAIN f = {"pc", "start", "page", "cnt"}
        /\ f.pc = "palloc" /\ f.start = start /\ f.page = start /\ f.cnt = 1
    BY <1>1 DEF SpaceInv, TypeOK
  <2> HIDE DEF f
  <2> QED BY <2>1, SetFacts DEF OnlyLoc
<1>3. l.op = "stack" /\ l.for = "page" /\ t \in Process
  BY <1>1 DEF SpaceInv, ControlOK
<1>4. /\ t \in Space /\ SpaceOf(t) = t /\ start \in Page(t) /\ start \in Nat
           /\ start \in Int
      /\ Page(t) \subseteq Nat
  BY <1>3, SpaceFacts
<1>5. vaddrs[t].used = {} /\ vaddrs[t] \in BitmapType /\ vaddrs[t].size = VaddrBytes[t]
  BY <1>1, <1>3, <1>4 DEF SpaceInv, StackKept, Started, TypeOK
<1> HIDE DEF start
<1>6. vaddrs' = [vaddrs EXCEPT ![t] = [size |-> VaddrBytes[t], used |-> {start}]]
  <2>1. bitmapSet(vaddrs[t], start, 1)
          = [size |-> vaddrs[t].size, used |-> vaddrs[t].used \cup {start}]
    BY <1>4, <1>5, SetBits, Zenon
  <2> QED BY <2>1, <1>1, <1>5
<1>7. /\ vaddrs'[t] = [size |-> VaddrBytes[t], used |-> {start}]
      /\ \A r \in Space : r # t => vaddrs'[r] = vaddrs[r]
  BY <1>4, <1>6 DEF SpaceInv, TypeOK
<1>8. TypeOK'
  <2>1. loc'[t] \in Locals
    BY <1>2, <1>4 DEF Locals, Label, OnlyLoc
  <2>2. [size |-> VaddrBytes[t], used |-> {start}] \in BitmapType
    BY <1>4, <1>5 DEF BitmapType
  <2>3. vaddrs' \in [Space -> BitmapType]
    BY <1>6, <2>2 DEF SpaceInv, TypeOK
  <2>4. \A s \in Space : vaddrs'[s].size = VaddrBytes[s]
          /\ vaddrs'[s].used \subseteq Page(s)
    BY <1>4, <1>7 DEF SpaceInv, TypeOK
  <2> QED BY <1>1, <1>2, <2>1, <2>3, <2>4 DEF SpaceInv, TypeOK, OnlyLoc
<1>9. ControlOK(t)'
  BY <1>1, <1>2, <1>3 DEF SpaceInv, ControlOK, OnlyLoc
<1>10. Claimed' /\ UnusedUnmapped' /\ RightPool' /\ LostKnown'
  <2>1. ~ Working(t) /\ Working(t)'
    BY <1>1, <1>2 DEF Working
  <2>2. /\ start .. start + 1 - 1 \subseteq Page(t)
        /\ vaddrs[t].used \cap (start .. start + 1 - 1) = {}
        /\ vaddrs'[t].used = vaddrs[t].used \cup (start .. start + 1 - 1)
    BY <1>4, <1>5, <1>7
  <2>3. /\ loc'[t].pc = "palloc" /\ loc'[t].op = "stack" /\ loc'[t].start = start
        /\ loc'[t].cnt = 1 /\ loc'[t].page = start /\ OnlyLoc(t)
    BY <1>2, <1>3
  <2>4. start = StackPage(t) /\ t = SpaceOf(t)
    BY <1>4 DEF start
  <2> HIDE DEF l
  <2> QED BY <2>1, <2>2, <2>3, <2>4, <1>1, <1>3, <1>4, <1>7, NewClaim
<1>11. LocksHeld'
  BY <1>1, <1>2, LocksKept DEF Inside, OnlyLoc
<1>12. StackKept'
  <2>1. \A u \in Process : u # t => u \in Space /\ (Started(u)' <=> Started(u))
    BY <1>2, SpaceFacts DEF Started, OnlyLoc
  <2>2. start \in vaddrs'[t].used /\ start = StackPage(t) /\ Started(t)'
    BY <1>2, <1>7 DEF start, Started
  <2> QED BY <2>1, <2>2, <1>7 DEF SpaceInv, StackKept
<1> QED BY <1>1, <1>2, <1>8, <1>9, <1>10, <1>11, <1>12, ControlKept
        DEF SpaceInv, NoPanic, OnlyLoc

(* palloc finds a bit. *)
LEMMA PallocFinds ==
  ASSUME SpaceInv, NEW t \in Thread, Palloc(t),
         bitmapScan(pool[PoolFor(t)], 1) # -1
  PROVE  SpaceInv'
<1> DEFINE l == loc[t]
           bit == bitmapScan(pool[PoolFor(t)], 1)
<1>1. /\ Set(t, [pc |-> "load", bit |-> bit]) /\ l.pc = "palloc"
      /\ UNCHANGED <<pool, vaddrs, table, pte, lock, cli, live, lost, panic>>
  BY DEF Palloc, At
<1>2. l.op \in {"malloc", "stack"}
  BY <1>1 DEF SpaceInv, ControlOK
<1>3. bit \in Nat
  <2>1. PoolFor(t) \in Pool
    BY <1>2, SpaceFacts DEF PoolFor, Pool
  <2>2. pool[PoolFor(t)].size \in Nat
    BY <2>1 DEF SpaceInv, TypeOK, BitmapType
  <2> QED BY <2>2, ScanFree, ByteAssumption DEF Positions
<1> HIDE DEF bit
<1> DEFINE f == [pc |-> "load", bit |-> bit]
<1>4. OnlyLoc(t)
      /\ loc'[t] = [pc |-> "load", op |-> l.op, start |-> l.start, cnt |-> l.cnt,
                    page |-> l.page, for |-> l.for, bit |-> bit, byte |-> l.byte,
                    frame |-> l.frame]
  <2>1. /\ loc \in [Thread -> Locals] /\ Set(t, f) /\ DOMAIN f = {"pc", "bit"}
        /\ f.pc = "load" /\ f.bit = bit
    BY <1>1 DEF SpaceInv, TypeOK
  <2> HIDE DEF f
  <2> QED BY <2>1, SetFacts DEF OnlyLoc
<1>5. TypeOK'
  <2>1. loc'[t] \in Locals
    BY <1>3, <1>4 DEF Locals, Label, OnlyLoc
  <2> QED BY <1>1, <1>4, <2>1 DEF SpaceInv, TypeOK, OnlyLoc
<1>6. ControlOK(t)'
  BY <1>1, <1>2, <1>3, <1>4 DEF SpaceInv, ControlOK, OnlyLoc
<1>7. Claimed' /\ UnusedUnmapped' /\ RightPool'
  BY <1>1, <1>4, ClaimedKept DEF Working, OnlyLoc
<1>8. LocksHeld'
  BY <1>1, <1>4, LocksKept DEF Inside, OnlyLoc
<1>9. StackKept'
  BY <1>1, <1>4, StackStays DEF Started, OnlyLoc
<1>10. LostKnown'
  BY <1>1, <1>4, LostStays DEF Working, OnlyLoc
<1> QED BY <1>1, <1>4, <1>5, <1>6, <1>7, <1>8, <1>9, <1>10, ControlKept
        DEF SpaceInv, NoPanic, OnlyLoc

(* palloc finds none for a page table: pageTableAdd goes on. *)
LEMMA PallocNoTable ==
  ASSUME SpaceInv, NEW t \in Thread, Palloc(t),
         bitmapScan(pool[PoolFor(t)], 1) = -1, loc[t].for = "table"
  PROVE  SpaceInv'
<1> DEFINE l == loc[t]
           r == Region(l.page)
<1>1. /\ table' = [table EXCEPT ![t][r] = PhysZero]
      /\ Set(t, [pc |-> "map"]) /\ l.pc = "palloc"
      /\ UNCHANGED <<pool, vaddrs, pte, lock, cli, live, lost, panic>>
  BY DEF Palloc, At
<1>2. l.op \in {"malloc", "stack"} /\ t \in Process /\ l.frame \in {PoolOf(t)} \X Nat
  BY <1>1 DEF SpaceInv, ControlOK
<1> DEFINE f == [pc |-> "map"]
<1>3. OnlyLoc(t)
      /\ loc'[t] = [pc |-> "map", op |-> l.op, start |-> l.start, cnt |-> l.cnt,
                    page |-> l.page, for |-> l.for, bit |-> l.bit, byte |-> l.byte,
                    frame |-> l.frame]
  <2>1. /\ loc \in [Thread -> Locals] /\ Set(t, f) /\ DOMAIN f = {"pc"}
        /\ f.pc = "map"
    BY <1>1 DEF SpaceInv, TypeOK
  <2> HIDE DEF f
  <2> QED BY <2>1, SetFacts DEF OnlyLoc
<1>4. TypeOK'
  <2>1. loc'[t] \in Locals
    BY <1>3 DEF Locals, Label, OnlyLoc
  <2>2. table' \in [Process -> [Regions -> Frame \cup {PhysZero, NULL}]]
    BY <1>1, <1>2 DEF SpaceInv, TypeOK
  <2> QED BY <1>1, <1>3, <2>1, <2>2 DEF SpaceInv, TypeOK, OnlyLoc
<1>5. ControlOK(t)'
  BY <1>1, <1>2, <1>3 DEF SpaceInv, ControlOK, OnlyLoc
<1>6. Claimed' /\ UnusedUnmapped' /\ RightPool'
  BY <1>1, <1>3, ClaimedKept DEF Working, OnlyLoc
<1>7. LocksHeld'
  BY <1>1, <1>3, LocksKept DEF Inside, OnlyLoc
<1>8. StackKept'
  BY <1>1, <1>3, StackStays DEF Started, OnlyLoc
<1>9. \A u \in Process : u # t => table'[u] = table[u]
  BY <1>1, <1>2 DEF SpaceInv, TypeOK
<1>10. LostKnown'
  BY <1>1, <1>3, LostStays DEF Working, OnlyLoc
<1> QED BY <1>1, <1>3, <1>4, <1>5, <1>6, <1>7, <1>8, <1>9, <1>10, ControlKept
        DEF SpaceInv, NoPanic, OnlyLoc

(* The pages of a claim are those of its start and those that follow. *)
LEMMA ClaimPages ==
  ASSUME SpaceInv, NEW t \in Thread, Working(t)
  PROVE  LET l == loc[t]
             s == SpaceOf(t)
         IN  /\ l.start \in Int /\ l.cnt \in Nat \ {0} /\ l.page \in Int
             /\ PagesOf(Claim(t)) = l.start .. l.start + l.cnt - 1
             /\ PagesOf(Claim(t)) \subseteq vaddrs[s].used
             /\ PagesOf(Claim(t)) \subseteq Page(s)
             /\ l.page \in PagesOf(Claim(t))
             /\ s \in Space
<1>1. Claim(t) \in Claims(t)
  BY DEF Claims
<1>2. loc[t].start \in Int /\ loc[t].cnt \in Int /\ loc[t].page \in Int
  BY DEF SpaceInv, TypeOK, Locals
<1>3. Claim(t).cnt \in Nat \ {0} /\ PagesOf(Claim(t)) \subseteq vaddrs[SpaceOf(t)].used
  BY <1>1 DEF SpaceInv, Claimed, ClaimsUsed
<1>4. SpaceOf(t) \in Space /\ vaddrs[SpaceOf(t)].used \subseteq Page(SpaceOf(t))
  BY SpaceFacts DEF SpaceInv, TypeOK
<1>5. loc[t].page \in PagesOf(Claim(t))
  BY DEF SpaceInv, Claimed, Progress
<1> QED BY <1>2, <1>3, <1>4, <1>5 DEF Claim, PagesOf

(* pte changes at one page of a claim: the mappings of others stay. *)
LEMMA OtherClaims ==
  ASSUME SpaceInv, NEW t \in Thread, Working(t), NEW u \in Thread,
         NEW a \in Claims(u), u # t \/ a \in live[u], SpaceOf(u) = SpaceOf(t)
  PROVE  PagesOf(a) \cap PagesOf(Claim(t)) = {}
<1>1. Claim(t) \in Claims(t)
  BY DEF Claims
<1>2. u = t => a # Claim(t)
  BY DEF SpaceInv, Claimed, ClaimNotLive
<1> QED BY <1>1, <1>2 DEF SpaceInv, Claimed, ClaimsApart

(* A request that gets no frame for one of its pages leaves its addresses  *)
(* marked and the pages before that one mapped.                            *)
LEMMA GivenUpLost ==
  ASSUME SpaceInv, NEW t \in Thread, loc[t].pc = "palloc", ~ Working(t)',
         \A u \in Thread : u # t => loc'[u] = loc[u],
         UNCHANGED <<vaddrs, pte, live>>, lost' = [lost EXCEPT ![SpaceOf(t)] = GivenUp(t)]
  PROVE  /\ LostKnown'
         /\ lost' \in [Space -> [marked : SUBSET Int, mapped : SUBSET Int]]
<1> DEFINE s == SpaceOf(t)
           l == loc[t]
           pages == PagesOf(Claim(t))
           before == l.start .. l.page - 1
<1>1. Working(t) /\ l.op # "free" /\ l.pc # "unlock" /\ Claim(t) \in Claims(t)
  BY DEF Working, Claims, SpaceInv, ControlOK
<1>2. /\ s \in Space /\ l.start \in Int /\ l.cnt \in Nat \ {0} /\ l.page \in Int
      /\ pages = l.start .. l.start + l.cnt - 1 /\ l.page \in pages
      /\ pages \subseteq vaddrs[s].used
  BY <1>1, ClaimPages
<1>3. before \subseteq pages /\ \A p \in pages : p < l.page <=> p \in before
  <2> HIDE DEF l, pages
  <2> QED BY <1>2
<1>4. \A p \in pages : Mapped(s, p) <=> p \in before
  BY <1>1, <1>3 DEF SpaceInv, Claimed, Progress
<1>5. PagesOf(loc[t]) = pages
  BY DEF PagesOf, Claim
<1> HIDE DEF pages, before
<1>6. GivenUp(t) = [marked |-> lost[s].marked \cup pages,
                    mapped |-> lost[s].mapped \cup before]
  BY <1>5 DEF GivenUp, before
<1>7. /\ lost[s].marked \subseteq Int /\ lost[s].mapped \subseteq Int
      /\ pages \subseteq Int
  BY <1>2 DEF SpaceInv, TypeOK
<1>8. /\ lost'[s].marked = lost[s].marked \cup pages
      /\ lost'[s].mapped = lost[s].mapped \cup before
      /\ \A r \in Space : r # s => lost'[r] = lost[r]
      /\ lost' \in [Space -> [marked : SUBSET Int, mapped : SUBSET Int]]
  <2> DEFINE new == [marked |-> lost[s].marked \cup pages,
                     mapped |-> lost[s].mapped \cup before]
  <2>1. lost' = [lost EXCEPT ![s] = new]
    BY <1>6
  <2>2. /\ new \in [marked : SUBSET Int, mapped : SUBSET Int]
        /\ new.marked = lost[s].marked \cup pages /\ new.mapped = lost[s].mapped \cup before
    BY <1>3, <1>7
  <2>3. lost \in [Space -> [marked : SUBSET Int, mapped : SUBSET Int]]
    BY DEF SpaceInv, TypeOK
  <2> HIDE DEF s, new
  <2> QED BY <1>2, <2>1, <2>2, <2>3
<1>9. Claims(t)' = live[t] /\ \A u \in Thread : u # t => Claims(u)' = Claims(u)
  BY DEF Claims, Working, Claim
<1>10. \A r \in Space, p \in Int :
         ClaimedPage(r, p) <=> ClaimedPage(r, p)' \/ (r = s /\ p \in pages)
  BY <1>1, <1>9 DEF ClaimedPage, Claims, pages
<1>11. \A p \in pages : ~ ClaimedPage(s, p)'
  <2> SUFFICES ASSUME NEW p \in pages, NEW u \in Thread, SpaceOf(u) = s,
                      NEW a \in Claims(u)', p \in PagesOf(a)
               PROVE  FALSE
    BY DEF ClaimedPage
  <2>1. a \in Claims(u) /\ (u # t \/ a \in live[u])
    BY <1>9 DEF Claims
  <2>2. PagesOf(a) \cap PagesOf(Claim(t)) = {}
    BY <1>1, <2>1, OtherClaims
  <2> QED BY <2>2 DEF pages
<1>12. ASSUME NEW r \in Space
       PROVE  /\ lost'[r].mapped \subseteq lost'[r].marked
              /\ \A p \in lost'[r].marked :
                   /\ p \in vaddrs'[r].used /\ ~ ClaimedPage(r, p)'
                   /\ Mapped(r, p)' <=> p \in lost'[r].mapped
              /\ \A p \in vaddrs'[r].used : ClaimedPage(r, p)' \/ p \in lost'[r].marked
  <2>1. /\ lost[r].mapped \subseteq lost[r].marked
        /\ \A p \in lost[r].marked : /\ p \in vaddrs[r].used /\ ~ ClaimedPage(r, p)
                                     /\ Mapped(r, p) <=> p \in lost[r].mapped
        /\ \A p \in vaddrs[r].used : ClaimedPage(r, p) \/ p \in lost[r].marked
        /\ vaddrs[r].used \subseteq Int
        /\ \A p : Mapped(r, p)' <=> Mapped(r, p)
    BY DEF SpaceInv, LostKnown, TypeOK, BitmapType, Mapped
  <2>2. CASE r # s
    BY <1>8, <1>10, <2>1, <2>2
  <2>3. CASE r = s
    <3>1. \A p \in pages : p \in Int /\ p \notin lost[s].marked
      BY <1>7, <1>10, <2>1, <2>3
    <3>2. vaddrs'[s] = vaddrs[s]
      OBVIOUS
    <3> HIDE DEF s
    <3>3. lost'[s].mapped \subseteq lost'[s].marked
      BY <1>3, <1>8, <2>1, <2>3
    <3>4. \A p \in lost'[s].marked : p \in vaddrs'[s].used /\ ~ ClaimedPage(s, p)'
      BY <1>2, <1>8, <1>10, <1>11, <2>1, <2>3, <3>2
    <3>5. \A p \in lost'[s].marked : Mapped(s, p)' <=> p \in lost'[s].mapped
      BY <1>3, <1>4, <1>8, <2>1, <2>3, <3>1
    <3>6. \A p \in vaddrs'[s].used : ClaimedPage(s, p)' \/ p \in lost'[s].marked
      BY <1>8, <1>10, <2>1, <2>3, <3>2
    <3> QED BY <2>3, <3>3, <3>4, <3>5, <3>6
  <2> QED BY <2>2, <2>3
<1> QED BY <1>8, <1>12 DEF LostKnown

(* palloc finds none for a page of sysMalloc: mallocPage gives up. *)
LEMMA PallocGivesUp ==
  ASSUME SpaceInv, NEW t \in Thread, Palloc(t),
         bitmapScan(pool[PoolFor(t)], 1) = -1, loc[t].for # "table", loc[t].op # "stack"
  PROVE  SpaceInv'
<1> DEFINE l == loc[t]
<1>1. /\ Set(t, [pc |-> "unlock", cnt |-> 0]) /\ l.pc = "palloc"
      /\ UNCHANGED <<pool, vaddrs, table, pte, lock, cli, live, panic>>
      /\ lost' = [lost EXCEPT ![SpaceOf(t)] = GivenUp(t)]
  BY DEF Palloc, At
<1>2. l.op = "malloc" /\ l.for = "page"
  BY <1>1 DEF SpaceInv, ControlOK, TypeOK, Locals
<1> DEFINE f == [pc |-> "unlock", cnt |-> 0]
<1>3. OnlyLoc(t)
      /\ loc'[t] = [pc |-> "unlock", op |-> l.op, start |-> l.start, cnt |-> 0,
                    page |-> l.page, for |-> l.for, bit |-> l.bit, byte |-> l.byte,
                    frame |-> l.frame]
  <2>1. /\ loc \in [Thread -> Locals] /\ Set(t, f) /\ DOMAIN f = {"pc", "cnt"}
        /\ f.pc = "unlock" /\ f.cnt = 0
    BY <1>1 DEF SpaceInv, TypeOK
  <2> HIDE DEF f
  <2> QED BY <2>1, SetFacts DEF OnlyLoc
<1>4. LostKnown' /\ lost' \in [Space -> [marked : SUBSET Int, mapped : SUBSET Int]]
  <2>1. ~ Working(t)'
    BY <1>3 DEF Working
  <2> QED BY <1>1, <1>3, <2>1, GivenUpLost DEF OnlyLoc
<1>5. TypeOK'
  <2>1. loc'[t] \in Locals
    BY <1>3 DEF Locals, Label, OnlyLoc
  <2>2. lost' \in [Space -> [marked : SUBSET Int, mapped : SUBSET Int]]
    BY <1>4
  <2> QED BY <1>1, <1>3, <2>1, <2>2 DEF SpaceInv, TypeOK, OnlyLoc
<1>6. ControlOK(t)'
  BY <1>1, <1>2, <1>3 DEF SpaceInv, ControlOK, OnlyLoc
<1>7. Claimed' /\ UnusedUnmapped' /\ RightPool'
  BY <1>1, <1>2, <1>3, ClaimedKept DEF Working, OnlyLoc
<1>8. LocksHeld'
  BY <1>1, <1>3, LocksKept DEF Inside, OnlyLoc
<1>9. StackKept'
  BY <1>1, <1>2, <1>3, StackStays DEF Started, OnlyLoc
<1> QED BY <1>1, <1>3, <1>4, <1>5, <1>6, <1>7, <1>8, <1>9, ControlKept
        DEF SpaceInv, NoPanic, OnlyLoc

(* palloc finds none for the stack: getPage returns with the lock. *)
LEMMA PallocNoStack ==
  ASSUME SpaceInv, NEW t \in Thread, Palloc(t),
         bitmapScan(pool[PoolFor(t)], 1) = -1, loc[t].for # "table", loc[t].op = "stack"
  PROVE  SpaceInv'
<1> DEFINE f == [Idle EXCEPT !.pc = "noStack"]
<1>1. /\ Set(t, f) /\ loc[t].pc = "palloc"
      /\ UNCHANGED <<pool, vaddrs, table, pte, lock, cli, live, panic>>
      /\ lost' = [lost EXCEPT ![SpaceOf(t)] = GivenUp(t)]
  BY DEF Palloc, At
<1>2. f = [pc |-> "noStack", op |-> "none", start |-> 0, cnt |-> 0, page |-> 0,
           for |-> "page", bit |-> 0, byte |-> {}, frame |-> NULL]
  BY DEF Idle
<1> HIDE DEF f
<1>3. /\ DOMAIN f = {"pc", "op", "start", "cnt", "page", "for", "bit", "byte", "frame"}
      /\ f.pc = "noStack" /\ f.op = "none" /\ f.start = 0 /\ f.cnt = 0 /\ f.page = 0
      /\ f.for = "page" /\ f.bit = 0 /\ f.byte = {} /\ f.frame = NULL
  BY <1>2
<1>4. OnlyLoc(t) /\ loc'[t] = f
  <2>1. loc \in [Thread -> Locals]
    BY DEF SpaceInv, TypeOK
  <2>2. loc'[t] = [pc |-> f.pc, op |-> f.op, start |-> f.start, cnt |-> f.cnt,
                   page |-> f.page, for |-> f.for, bit |-> f.bit,
                   byte |-> f.byte, frame |-> f.frame]
    BY <1>1, <1>3, <2>1, SetFacts
  <2>3. OnlyLoc(t)
    BY <1>1, <2>1, SetFacts DEF OnlyLoc
  <2> QED BY <1>2, <1>3, <2>2, <2>3
<1>5. /\ loc'[t].pc = "noStack" /\ loc'[t].op = "none" /\ loc'[t].for = "page"
      /\ loc'[t] \in Locals
  BY <1>2, <1>3, <1>4 DEF Locals, Label
<1>6. LostKnown' /\ lost' \in [Space -> [marked : SUBSET Int, mapped : SUBSET Int]]
  <2>1. ~ Working(t)'
    BY <1>5 DEF Working
  <2> QED BY <1>1, <1>4, <2>1, GivenUpLost DEF OnlyLoc
<1>7. TypeOK'
  BY <1>1, <1>4, <1>5, <1>6 DEF SpaceInv, TypeOK, OnlyLoc
<1>8. ControlOK(t)'
  BY <1>5 DEF ControlOK
<1>9. Claimed' /\ UnusedUnmapped' /\ RightPool'
  BY <1>1, <1>4, <1>5, ClaimedKept DEF Working, OnlyLoc
<1>10. LocksHeld'
  BY <1>1, <1>4, <1>5, LocksKept DEF Inside, OnlyLoc
<1>11. StackKept'
  BY <1>1, <1>4, <1>5, StackStays DEF Started, OnlyLoc
<1> QED BY <1>1, <1>4, <1>6, <1>7, <1>8, <1>9, <1>10, <1>11, ControlKept
        DEF SpaceInv, NoPanic, OnlyLoc

(* The four outcomes of palloc. *)
LEMMA PallocStep ==
  ASSUME SpaceInv, NEW t \in Thread, Palloc(t)
  PROVE  SpaceInv'
  BY PallocFinds, PallocNoTable, PallocGivesUp, PallocNoStack

(* bitmapSet reads the byte. *)
LEMMA SetLoadStep ==
  ASSUME SpaceInv, NEW t \in Thread, SetLoad(t)
  PROVE  SpaceInv'
<1> DEFINE l == loc[t]
           byte == pool[PoolFor(t)].used \cap ByteOf(l.bit)
<1>1. /\ Set(t, [pc |-> "store", byte |-> byte]) /\ l.pc = "load"
      /\ UNCHANGED <<pool, vaddrs, table, pte, lock, cli, live, lost, panic>>
  BY DEF SetLoad, At
<1>2. l.op \in {"malloc", "stack", "free"} /\ l.bit \in Nat
  BY <1>1 DEF SpaceInv, ControlOK
<1>3. byte \in SUBSET Int
  BY <1>2, ByteAssumption DEF ByteOf
<1> HIDE DEF byte
<1> DEFINE f == [pc |-> "store", byte |-> byte]
<1>4. OnlyLoc(t)
      /\ loc'[t] = [pc |-> "store", op |-> l.op, start |-> l.start, cnt |-> l.cnt,
                    page |-> l.page, for |-> l.for, bit |-> l.bit, byte |-> byte,
                    frame |-> l.frame]
  <2>1. /\ loc \in [Thread -> Locals] /\ Set(t, f) /\ DOMAIN f = {"pc", "byte"}
        /\ f.pc = "store" /\ f.byte = byte
    BY <1>1 DEF SpaceInv, TypeOK
  <2> HIDE DEF f
  <2> QED BY <2>1, SetFacts DEF OnlyLoc
<1>5. TypeOK'
  <2>1. loc'[t] \in Locals
    BY <1>3, <1>4 DEF Locals, Label, OnlyLoc
  <2> QED BY <1>1, <1>4, <2>1 DEF SpaceInv, TypeOK, OnlyLoc
<1>6. ControlOK(t)'
  BY <1>1, <1>2, <1>4 DEF SpaceInv, ControlOK, OnlyLoc
<1>7. Claimed' /\ UnusedUnmapped' /\ RightPool'
  BY <1>1, <1>4, ClaimedKept DEF Working, OnlyLoc
<1>8. LocksHeld'
  BY <1>1, <1>4, LocksKept DEF Inside, OnlyLoc
<1>9. StackKept'
  BY <1>1, <1>4, StackStays DEF Started, OnlyLoc
<1>10. LostKnown'
  BY <1>1, <1>4, LostStays DEF Working, OnlyLoc
<1> QED BY <1>1, <1>4, <1>5, <1>6, <1>7, <1>8, <1>9, <1>10, ControlKept
        DEF SpaceInv, NoPanic, OnlyLoc

(* The store of bitmapSet changes the bits of one byte of one pool. *)
LEMMA StoredType ==
  ASSUME TypeOK, NEW t \in Thread, NEW bits \in SUBSET Int, Stored(t, bits),
         PoolFor(t) \in Pool
  PROVE  /\ pool' \in [Pool -> BitmapType]
         /\ \A p \in Pool : pool'[p].size = pool[p].size
         /\ \A p \in Pool : p # PoolFor(t) => pool'[p] = pool[p]
         /\ pool'[PoolFor(t)].used = (pool[PoolFor(t)].used \ ByteOf(loc[t].bit)) \cup bits
<1> DEFINE q == PoolFor(t)
           u == (pool[q].used \ ByteOf(loc[t].bit)) \cup bits
           new == [pool[q] EXCEPT !.used = u]
<1>1. pool' = [pool EXCEPT ![q] = new]
  BY DEF Stored
<1>2. u \in SUBSET Int
  BY DEF TypeOK, BitmapType
<1> HIDE DEF u
<1>3. new \in BitmapType /\ new.size = pool[q].size /\ new.used = u
  BY <1>2 DEF TypeOK, BitmapType
<1> HIDE DEF new, q
<1> QED BY <1>1, <1>3 DEF TypeOK, q, u

(* bitmapSet writes the byte back, and palloc has its frame. *)
LEMMA PallocStoreStep ==
  ASSUME SpaceInv, NEW t \in Thread, PallocStore(t)
  PROVE  SpaceInv'
<1> DEFINE l == loc[t]
           got == <<PoolFor(t), l.bit>>
           tab == l.for = "table"
<1>1. /\ Stored(t, l.byte \cup {l.bit}) /\ l.pc = "store" /\ l.op # "free"
      /\ UNCHANGED <<vaddrs, pte, lock, cli, live, lost, panic>>
      /\ IF tab
         THEN /\ table' = [table EXCEPT ![t][Region(l.page)] = got]
              /\ Set(t, [pc |-> "map", byte |-> {}])
         ELSE /\ Set(t, [pc |-> "map", byte |-> {}, frame |-> got])
              /\ UNCHANGED table
  BY DEF PallocStore, At
<1>2. l.op \in {"malloc", "stack"} /\ l.bit \in Nat /\ (tab => t \in Process)
  BY <1>1 DEF SpaceInv, ControlOK
<1>3. PoolFor(t) \in Pool /\ (~ tab => PoolFor(t) = PoolOf(t))
  BY <1>2, SpaceFacts DEF PoolFor, Pool
<1>4. got \in Frame
  BY <1>2, <1>3 DEF Frame
<1> HIDE DEF got
<1>5. OnlyLoc(t)
      /\ loc'[t] = [pc |-> "map", op |-> l.op, start |-> l.start, cnt |-> l.cnt,
                    page |-> l.page, for |-> l.for, bit |-> l.bit, byte |-> {},
                    frame |-> IF tab THEN l.frame ELSE got]
  <2>1. CASE tab
    <3> DEFINE f == [pc |-> "map", byte |-> {}]
    <3>1. OnlyLoc(t)
          /\ loc'[t] = [pc |-> "map", op |-> l.op, start |-> l.start, cnt |-> l.cnt,
                        page |-> l.page, for |-> l.for, bit |-> l.bit, byte |-> {},
                        frame |-> l.frame]
      <4>1. /\ loc \in [Thread -> Locals] /\ Set(t, f) /\ DOMAIN f = {"pc", "byte"}
            /\ f.pc = "map" /\ f.byte = {}
        BY <1>1, <2>1 DEF SpaceInv, TypeOK
      <4> HIDE DEF f
      <4> QED BY <4>1, SetFacts DEF OnlyLoc
    <3> QED BY <2>1, <3>1
  <2>2. CASE ~ tab
    <3> DEFINE f == [pc |-> "map", byte |-> {}, frame |-> got]
    <3>1. OnlyLoc(t)
          /\ loc'[t] = [pc |-> "map", op |-> l.op, start |-> l.start, cnt |-> l.cnt,
                        page |-> l.page, for |-> l.for, bit |-> l.bit, byte |-> {},
                        frame |-> got]
      <4>1. /\ loc \in [Thread -> Locals] /\ Set(t, f) /\ DOMAIN f = {"pc", "byte", "frame"}
            /\ f.pc = "map" /\ f.byte = {} /\ f.frame = got
        BY <1>1, <2>2 DEF SpaceInv, TypeOK
      <4> HIDE DEF f
      <4> QED BY <4>1, SetFacts DEF OnlyLoc
    <3> QED BY <2>2, <3>1
  <2> QED BY <2>1, <2>2
<1>6. \A u \in Process : u # t => table'[u] = table[u]
  BY <1>1, <1>2 DEF SpaceInv, TypeOK
<1>7. TypeOK'
  <2>1. loc'[t] \in Locals
    BY <1>4, <1>5 DEF Locals, Label, OnlyLoc
  <2>2. table' \in [Process -> [Regions -> Frame \cup {PhysZero, NULL}]]
    <3>1. table \in [Process -> [Regions -> Frame \cup {PhysZero, NULL}]]
      BY DEF SpaceInv, TypeOK
    <3>2. CASE tab
      <4>1. table' = [table EXCEPT ![t][Region(l.page)] = got] /\ t \in Process
        BY <1>1, <1>2, <3>2
      <4> HIDE DEF l
      <4> QED BY <1>4, <3>1, <4>1
    <3>3. CASE ~ tab
      BY <1>1, <3>1, <3>3
    <3> QED BY <3>2, <3>3
  <2>3. l.byte \cup {l.bit} \in SUBSET Int
    BY <1>2 DEF SpaceInv, TypeOK, Locals
  <2>4. pool' \in [Pool -> BitmapType] /\ \A p \in Pool : pool'[p].size = pool[p].size
    BY <1>1, <1>3, <2>3, StoredType DEF SpaceInv
  <2> QED BY <1>1, <1>5, <2>1, <2>2, <2>4 DEF SpaceInv, TypeOK, OnlyLoc
<1>8. ControlOK(t)'
  <2>1. loc'[t].frame \in {PoolOf(t)} \X Nat
    BY <1>1, <1>2, <1>3, <1>5 DEF SpaceInv, ControlOK, got
  <2>2. l.op = "stack" => t \in Process
    BY DEF SpaceInv, ControlOK
  <2> QED BY <1>2, <1>5, <2>1, <2>2 DEF ControlOK
<1>9. Claimed' /\ UnusedUnmapped' /\ RightPool'
  BY <1>1, <1>5, ClaimedKept DEF Working, OnlyLoc
<1>10. LocksHeld'
  BY <1>1, <1>5, LocksKept DEF Inside, OnlyLoc
<1>11. StackKept'
  BY <1>1, <1>5, StackStays DEF Started, OnlyLoc
<1>12. LostKnown'
  BY <1>1, <1>5, LostStays DEF Working, OnlyLoc
<1> QED BY <1>1, <1>5, <1>6, <1>7, <1>8, <1>9, <1>10, <1>11, <1>12, ControlKept
        DEF SpaceInv, NoPanic, OnlyLoc

(* pageTableAdd finds no page table and calls palloc for one. *)
LEMMA PageTableMissing ==
  ASSUME SpaceInv, NEW t \in Thread, PageTableAdd(t),
         SpaceOf(t) # Kernel, table[SpaceOf(t)][Region(loc[t].page)] = NULL
  PROVE  SpaceInv'
<1> DEFINE l == loc[t]
<1>1. /\ Set(t, [pc |-> "palloc", for |-> "table"]) /\ l.pc = "map"
      /\ UNCHANGED <<pool, vaddrs, table, pte, lock, cli, live, lost, panic>>
  BY DEF PageTableAdd, At
<1>2. /\ l.op \in {"malloc", "stack"} /\ l.frame \in {PoolOf(t)} \X Nat
      /\ t \in Process /\ SpaceOf(t) = t
  BY <1>1, SpaceFacts DEF SpaceInv, ControlOK, SpaceOf
<1> DEFINE f == [pc |-> "palloc", for |-> "table"]
<1>3. OnlyLoc(t)
      /\ loc'[t] = [pc |-> "palloc", op |-> l.op, start |-> l.start, cnt |-> l.cnt,
                    page |-> l.page, for |-> "table", bit |-> l.bit,
                    byte |-> l.byte, frame |-> l.frame]
  <2>1. /\ loc \in [Thread -> Locals] /\ Set(t, f) /\ DOMAIN f = {"pc", "for"}
        /\ f.pc = "palloc" /\ f.for = "table"
    BY <1>1 DEF SpaceInv, TypeOK
  <2> HIDE DEF f
  <2> QED BY <2>1, SetFacts DEF OnlyLoc
<1>4. TypeOK'
  <2>1. loc'[t] \in Locals
    BY <1>3 DEF Locals, Label, OnlyLoc
  <2> QED BY <1>1, <1>3, <2>1 DEF SpaceInv, TypeOK, OnlyLoc
<1>5. ControlOK(t)'
  BY <1>1, <1>2, <1>3 DEF SpaceInv, ControlOK, OnlyLoc
<1>6. Claimed' /\ UnusedUnmapped' /\ RightPool'
  BY <1>1, <1>3, ClaimedKept DEF Working, OnlyLoc
<1>7. LocksHeld'
  BY <1>1, <1>3, LocksKept DEF Inside, OnlyLoc
<1>8. StackKept'
  BY <1>1, <1>3, StackStays DEF Started, OnlyLoc
<1>9. LostKnown'
  BY <1>1, <1>3, LostStays DEF Working, OnlyLoc
<1> QED BY <1>1, <1>3, <1>4, <1>5, <1>6, <1>7, <1>8, <1>9, ControlKept
        DEF SpaceInv, NoPanic, OnlyLoc

(* pageTableAdd maps the page, which was not mapped: its ASSERT holds. *)
LEMMA PageTableAddStep ==
  ASSUME SpaceInv, NEW t \in Thread, PageTableAdd(t)
  PROVE  SpaceInv'
<1> DEFINE s == SpaceOf(t)
           l == loc[t]
           page == l.page
           last == page + 1 = l.start + l.cnt
<1>1. CASE s # Kernel /\ table[s][Region(page)] = NULL
  BY <1>1, PageTableMissing
<1>2. CASE ~ (s # Kernel /\ table[s][Region(page)] = NULL)
  <2>1. /\ panic' = IF pte[s][page] # NULL THEN "pageTableAdd" ELSE "none"
        /\ l.pc = "map"
        /\ pte' = [pte EXCEPT ![s][page] = l.frame]
        /\ Set(t, IF last THEN [pc |-> "unlock"]
                  ELSE [pc |-> "palloc", for |-> "page", page |-> page + 1])
        /\ UNCHANGED <<pool, vaddrs, table, lock, cli, live, lost>>
    BY <1>2 DEF PageTableAdd, At
  <2>2. l.op \in {"malloc", "stack"} /\ l.frame \in {PoolOf(t)} \X Nat
    BY <2>1 DEF SpaceInv, ControlOK
  <2>3. Working(t)
    BY <2>1 DEF Working
  <2>4. /\ l.start \in Int /\ l.cnt \in Nat \ {0} /\ page \in l.start .. l.start + l.cnt - 1
        /\ PagesOf(Claim(t)) = l.start .. l.start + l.cnt - 1
        /\ PagesOf(Claim(t)) \subseteq Page(s) /\ s \in Space
        /\ PagesOf(Claim(t)) \subseteq vaddrs[s].used
    BY <2>3, ClaimPages
  <2>5. \A p \in PagesOf(Claim(t)) : Mapped(s, p) <=> p < page
    BY <2>1, <2>2, <2>3 DEF SpaceInv, Claimed, Progress
  <2>6. panic' = "none"
    <3>1. ~ Mapped(s, page)
      BY <2>4, <2>5
    <3> HIDE DEF l, s
    <3> QED BY <2>1, <3>1 DEF Mapped
  <2>7. OnlyLoc(t)
        /\ loc'[t] = [pc |-> IF last THEN "unlock" ELSE "palloc", op |-> l.op,
                      start |-> l.start, cnt |-> l.cnt,
                      page |-> IF last THEN page ELSE page + 1,
                      for |-> IF last THEN l.for ELSE "page", bit |-> l.bit,
                      byte |-> l.byte, frame |-> l.frame]
    <3>1. CASE last
      <4> DEFINE f == [pc |-> "unlock"]
      <4>1. OnlyLoc(t)
            /\ loc'[t] = [pc |-> "unlock", op |-> l.op, start |-> l.start, cnt |-> l.cnt,
                          page |-> l.page, for |-> l.for, bit |-> l.bit, byte |-> l.byte,
                          frame |-> l.frame]
        <5>1. /\ loc \in [Thread -> Locals] /\ Set(t, f) /\ DOMAIN f = {"pc"}
              /\ f.pc = "unlock"
          BY <2>1, <3>1 DEF SpaceInv, TypeOK
        <5> HIDE DEF f
        <5> QED BY <5>1, SetFacts DEF OnlyLoc
      <4> QED BY <3>1, <4>1
    <3>2. CASE ~ last
      <4> DEFINE f == [pc |-> "palloc", for |-> "page", page |-> page + 1]
      <4>1. OnlyLoc(t)
            /\ loc'[t] = [pc |-> "palloc", op |-> l.op, start |-> l.start, cnt |-> l.cnt,
                          page |-> page + 1, for |-> "page", bit |-> l.bit,
                          byte |-> l.byte, frame |-> l.frame]
        <5>1. /\ loc \in [Thread -> Locals] /\ Set(t, f) /\ DOMAIN f = {"pc", "for", "page"}
              /\ f.pc = "palloc" /\ f.for = "page" /\ f.page = page + 1
          BY <2>1, <3>2 DEF SpaceInv, TypeOK
        <5> HIDE DEF f
        <5> QED BY <5>1, SetFacts DEF OnlyLoc
      <4> QED BY <3>2, <4>1
    <3> QED BY <3>1, <3>2
  <2>8. /\ DOMAIN pte' = Space
        /\ pte'[s] = [pte[s] EXCEPT ![page] = l.frame]
        /\ \A r \in Space : r # s => pte'[r] = pte[r]
    BY <2>1, <2>4 DEF SpaceInv, TypeOK
  <2>9. l.frame \in Frame /\ l.frame # NULL /\ page \in Page(s)
    BY <2>2, <2>4, SpaceFacts DEF Frame
  <2>10. pte'[s][page] = l.frame /\ \A p \in Page(s) : p # page => pte'[s][p] = pte[s][p]
    BY <2>4, <2>8, <2>9 DEF SpaceInv, TypeOK
  <2>11. \A r \in Space : \A p \in Page(r) :
           (Mapped(r, p)' <=> Mapped(r, p) \/ (r = s /\ p = page))
    BY <2>8, <2>9, <2>10 DEF Mapped
  <2>12. TypeOK'
    <3>1. loc'[t] \in Locals
      BY <2>4, <2>7 DEF Locals, Label, OnlyLoc
    <3>2. \A r \in Space : pte'[r] \in [Page(r) -> Frame \cup {NULL}]
      <4>1. \A r \in Space : pte[r] \in [Page(r) -> Frame \cup {NULL}]
        BY DEF SpaceInv, TypeOK
      <4>2. pte'[s] \in [Page(s) -> Frame \cup {NULL}]
        BY <2>4, <2>8, <2>9, <4>1
      <4> HIDE DEF s
      <4> QED BY <2>8, <4>1, <4>2
    <3> QED BY <2>1, <2>7, <2>8, <3>1, <3>2 DEF SpaceInv, TypeOK, OnlyLoc
  <2>13. ControlOK(t)'
    BY <2>1, <2>2, <2>7 DEF SpaceInv, ControlOK, OnlyLoc
  <2>14. /\ Working(t)' /\ Claim(t)' = Claim(t)
         /\ \A u \in Thread : u # t => (Working(u)' <=> Working(u)) /\ Claim(u)' = Claim(u)
         /\ \A u \in Thread : Claims(u)' = Claims(u)
    <3>1. Working(t)' /\ Claim(t)' = Claim(t)
      BY <2>2, <2>4, <2>7 DEF Working, Claim
    <3>2. \A u \in Thread : u # t => (Working(u)' <=> Working(u)) /\ Claim(u)' = Claim(u)
      BY <2>7 DEF Working, Claim, OnlyLoc
    <3> QED BY <2>1, <2>3, <3>1, <3>2 DEF Claims
  <2>15. Claimed'
    <3>1. ClaimsUsed' /\ ClaimsApart' /\ ClaimNotLive'
      BY <2>1, <2>3, <2>14 DEF SpaceInv, Claimed, ClaimsUsed, ClaimsApart, ClaimNotLive
    <3>2. LivesMapped'
      <4> SUFFICES ASSUME NEW u \in Thread, NEW a \in live[u], NEW p \in PagesOf(a)
                   PROVE  Mapped(SpaceOf(u), p)'
        BY <2>1 DEF LivesMapped, Mapped
      <4>1. Mapped(SpaceOf(u), p)
        BY DEF SpaceInv, Claimed, LivesMapped
      <4>2. SpaceOf(u) \in Space /\ p \in Page(SpaceOf(u))
        BY SpaceFacts DEF SpaceInv, TypeOK, Claimed, ClaimsUsed, Claims
      <4> QED BY <4>1, <4>2, <2>11
    <3>3. Progress(t)'
      <4>1. \A p \in PagesOf(Claim(t)) : Mapped(s, p)' <=> p < page + 1
        BY <2>4, <2>5, <2>11
      <4>2. loc'[t].page \in PagesOf(Claim(t))
        <5>1. loc'[t].page = IF last THEN page ELSE page + 1
          BY <2>7
        <5>2. ~ last => page + 1 # l.start + l.cnt
          OBVIOUS
        <5>3. page + 1 # l.start + l.cnt => page + 1 \in l.start .. l.start + l.cnt - 1
          <6> HIDE DEF page, l
          <6> QED BY <2>4
        <5> HIDE DEF last, page, l
        <5> QED BY <2>4, <5>1, <5>2, <5>3
      <4>3. \A p \in PagesOf(Claim(t)) :
              p < page + 1 <=> loc'[t].pc = "unlock" \/ p < loc'[t].page
        BY <2>4, <2>7
      <4>4. loc'[t].op = l.op /\ loc'[t].start = l.start /\ loc'[t].cnt = l.cnt
              /\ l.op # "free"
        BY <2>2, <2>7
      <4> HIDE DEF l
      <4> QED BY <4>1, <4>2, <4>3, <4>4, <2>3, <2>14 DEF SpaceInv, Claimed, Progress,
         Mapped, l
    <3>4. ASSUME NEW u \in Thread, u # t PROVE Progress(u)'
      <4> SUFFICES ASSUME Working(u)
                   PROVE  Progress(u)'
        BY <2>14, <3>4 DEF Progress
      <4>1. Claim(u) \in Claims(u) /\ PagesOf(Claim(u)) \subseteq Page(SpaceOf(u))
            /\ SpaceOf(u) \in Space
        BY ClaimPages DEF Claims
      <4>2. \A p \in PagesOf(Claim(u)) : Mapped(SpaceOf(u), p)' <=> Mapped(SpaceOf(u), p)
        <5>1. SpaceOf(u) = s => PagesOf(Claim(u)) \cap PagesOf(Claim(t)) = {}
          BY <2>3, <3>4, <4>1, OtherClaims
        <5> QED BY <2>4, <2>11, <4>1, <5>1
      <4>3. loc'[u] = loc[u] /\ Claim(u)' = Claim(u)
        BY <2>7, <2>14, <3>4 DEF OnlyLoc
      <4> QED BY <4>2, <4>3 DEF SpaceInv, Claimed, Progress, Mapped
    <3> QED BY <3>1, <3>2, <3>3, <3>4 DEF Claimed
  <2>16. UnusedUnmapped'
    BY <2>1, <2>4, <2>11 DEF SpaceInv, UnusedUnmapped
  <2>17. RightPool'
    <3>1. l.frame[1] = IF s = Kernel THEN "kernel" ELSE "user"
      BY <2>2, SpaceFacts
    <3> SUFFICES ASSUME NEW r \in Space, NEW p \in Page(r), Mapped(r, p)'
                 PROVE  pte'[r][p][1] = IF r = Kernel THEN "kernel" ELSE "user"
      BY DEF RightPool
    <3>2. CASE r = s /\ p = page
      BY <2>10, <3>1, <3>2
    <3>3. CASE ~ (r = s /\ p = page)
      <4>1. pte'[r][p] = pte[r][p] /\ Mapped(r, p)
        BY <2>8, <2>10, <2>11, <3>3
      <4> QED BY <4>1 DEF SpaceInv, RightPool
    <3> QED BY <3>2, <3>3
  <2>18. LocksHeld'
    BY <2>1, <2>7, LocksKept DEF Inside, OnlyLoc
  <2>19. StackKept'
    BY <2>1, <2>7, StackStays DEF Started, OnlyLoc
  <2>20. LostKnown'
    <3>1. Claim(t) \in Claims(t) /\ page \in PagesOf(Claim(t))
      BY <2>3, <2>4 DEF Claims
    <3>2. ClaimedPage(s, page)
      BY <3>1 DEF ClaimedPage
    <3>3. \A r \in Space : \A p \in lost[r].marked :
            p \in Page(r) /\ ~ (r = s /\ p = page)
      BY <3>2 DEF SpaceInv, LostKnown, TypeOK
    <3> QED BY <2>1, <2>11, <2>14, <3>3, LostKept
  <2> QED BY <2>1, <2>6, <2>7, <2>12, <2>13, <2>15, <2>16, <2>17, <2>18, <2>19, <2>20,
          ControlKept
          DEF SpaceInv, NoPanic, OnlyLoc
<1> QED BY <1>1, <1>2

(* mfreePage: v2p finds the page mapped, to a frame of the right pool. *)
LEMMA PfreeStep ==
  ASSUME SpaceInv, NEW t \in Thread, Pfree(t)
  PROVE  SpaceInv'
<1> DEFINE l == loc[t]
           s == SpaceOf(t)
           frame == pte[s][l.page]
<1>1. /\ panic' = IF frame = NULL \/ frame[1] # PoolOf(t) THEN "mfreePage" ELSE "none"
      /\ l.pc = "free"
      /\ Set(t, IF panic' # "none" THEN [pc |-> "free"]
                ELSE [pc |-> "load", frame |-> frame, bit |-> frame[2]])
      /\ UNCHANGED <<pool, vaddrs, table, pte, lock, cli, live, lost>>
  BY DEF Pfree, At
<1>2. l.op = "free" /\ l.for = "page" /\ Working(t)
  BY <1>1 DEF SpaceInv, ControlOK, Working
<1>3. l.page \in PagesOf(Claim(t)) /\ l.page \in Page(s) /\ s \in Space /\ l.page \in Int
  BY <1>2, ClaimPages
<1>4. Mapped(s, l.page)
  BY <1>2, <1>3 DEF SpaceInv, Claimed, Progress
<1>5. frame \in Frame /\ frame[1] = PoolOf(t) /\ frame[2] \in Nat
  BY <1>3, <1>4, SpaceFacts DEF SpaceInv, TypeOK, RightPool, Mapped, Frame
<1>6. panic' = "none"
  BY <1>1, <1>4, <1>5 DEF Mapped
<1>7. Set(t, [pc |-> "load", frame |-> frame, bit |-> frame[2]])
  BY <1>1, <1>6
<1> HIDE DEF frame
<1> DEFINE f == [pc |-> "load", frame |-> frame, bit |-> frame[2]]
<1>8. OnlyLoc(t)
      /\ loc'[t] = [pc |-> "load", op |-> l.op, start |-> l.start, cnt |-> l.cnt,
                    page |-> l.page, for |-> l.for, bit |-> frame[2],
                    byte |-> l.byte, frame |-> frame]
  <2>1. /\ loc \in [Thread -> Locals] /\ Set(t, f) /\ DOMAIN f = {"pc", "frame", "bit"}
        /\ f.pc = "load" /\ f.frame = frame /\ f.bit = frame[2]
    BY <1>7 DEF SpaceInv, TypeOK
  <2> HIDE DEF f
  <2> QED BY <2>1, SetFacts DEF OnlyLoc
<1>9. TypeOK'
  <2>1. loc'[t] \in Locals
    BY <1>5, <1>8 DEF Locals, Label, OnlyLoc
  <2> QED BY <1>1, <1>6, <1>8, <2>1 DEF SpaceInv, TypeOK, OnlyLoc
<1>10. ControlOK(t)'
  <2>1. frame \in {PoolOf(t)} \X Nat
    BY <1>5 DEF Frame
  <2>2. l.op = "stack" => t \in Process
    BY DEF SpaceInv, ControlOK
  <2> QED BY <1>1, <1>2, <1>5, <1>8, <2>1, <2>2 DEF ControlOK
<1>11. Claimed' /\ UnusedUnmapped' /\ RightPool'
  BY <1>1, <1>8, ClaimedKept DEF Working, OnlyLoc
<1>12. LocksHeld'
  BY <1>1, <1>8, LocksKept DEF Inside, OnlyLoc
<1>13. StackKept'
  BY <1>1, <1>8, StackStays DEF Started, OnlyLoc
<1>14. LostKnown'
  BY <1>1, <1>8, LostStays DEF Working, OnlyLoc
<1> QED BY <1>1, <1>6, <1>8, <1>9, <1>10, <1>11, <1>12, <1>13, <1>14, ControlKept
        DEF SpaceInv, NoPanic, OnlyLoc

(* pfree and pageTablePteRemove, and vaddrRemove after the last page: the  *)
(* claim ends when none of its pages is mapped.                            *)
LEMMA PfreeStoreStep ==
  ASSUME SpaceInv, NEW t \in Thread, PfreeStore(t)
  PROVE  SpaceInv'
<1> DEFINE s == SpaceOf(t)
           l == loc[t]
           page == l.page
           done == page + 1 = l.start + l.cnt
           pages == PagesOf(Claim(t))
<1>1. /\ Stored(t, l.byte \ {l.bit}) /\ l.pc = "store" /\ l.op = "free"
      /\ pte' = [pte EXCEPT ![s][page] = NULL]
      /\ vaddrs' = IF done THEN [vaddrs EXCEPT ![s] = bitmapSetRun(@, l.start, l.cnt, 0)]
                   ELSE vaddrs
      /\ Set(t, IF done THEN [pc |-> "unlock"] ELSE [pc |-> "free", page |-> page + 1])
      /\ UNCHANGED <<table, lock, cli, live, lost, panic>>
  BY DEF PfreeStore, At
<1>2. Working(t) /\ l.for = "page"
  BY <1>1 DEF Working, SpaceInv, ControlOK
<1>3. /\ l.start \in Int /\ l.cnt \in Nat \ {0} /\ page \in l.start .. l.start + l.cnt - 1
      /\ pages = l.start .. l.start + l.cnt - 1
      /\ pages \subseteq Page(s) /\ s \in Space /\ pages \subseteq vaddrs[s].used
      /\ l.cnt \in Int /\ page \in Int
  <2>1. /\ l.start \in Int /\ l.cnt \in Nat \ {0} /\ page \in Int /\ page \in pages
        /\ pages = l.start .. l.start + l.cnt - 1 /\ pages \subseteq Page(s)
        /\ s \in Space /\ pages \subseteq vaddrs[s].used
    BY <1>2, ClaimPages
  <2> QED BY <2>1
<1>4. /\ \A p \in pages : Mapped(s, p) <=> p >= page
      /\ t \in Process => l.start # StackPage(t)
  BY <1>1, <1>2 DEF SpaceInv, Claimed, Progress
<1>5. OnlyLoc(t)
      /\ loc'[t] = [pc |-> IF done THEN "unlock" ELSE "free", op |-> l.op,
                    start |-> l.start, cnt |-> l.cnt,
                    page |-> IF done THEN page ELSE page + 1,
                    for |-> l.for, bit |-> l.bit, byte |-> l.byte, frame |-> l.frame]
  <2>1. CASE done
    <3> DEFINE f == [pc |-> "unlock"]
    <3>1. OnlyLoc(t)
          /\ loc'[t] = [pc |-> "unlock", op |-> l.op, start |-> l.start, cnt |-> l.cnt,
                        page |-> l.page, for |-> l.for, bit |-> l.bit, byte |-> l.byte,
                        frame |-> l.frame]
      <4>1. /\ loc \in [Thread -> Locals] /\ Set(t, f) /\ DOMAIN f = {"pc"}
            /\ f.pc = "unlock"
        BY <1>1, <2>1 DEF SpaceInv, TypeOK
      <4> HIDE DEF f
      <4> QED BY <4>1, SetFacts DEF OnlyLoc
    <3> QED BY <2>1, <3>1
  <2>2. CASE ~ done
    <3> DEFINE f == [pc |-> "free", page |-> page + 1]
    <3>1. OnlyLoc(t)
          /\ loc'[t] = [pc |-> "free", op |-> l.op, start |-> l.start, cnt |-> l.cnt,
                        page |-> page + 1, for |-> l.for, bit |-> l.bit,
                        byte |-> l.byte, frame |-> l.frame]
      <4>1. /\ loc \in [Thread -> Locals] /\ Set(t, f) /\ DOMAIN f = {"pc", "page"}
            /\ f.pc = "free" /\ f.page = page + 1
        BY <1>1, <2>2 DEF SpaceInv, TypeOK
      <4> HIDE DEF f
      <4> QED BY <4>1, SetFacts DEF OnlyLoc
    <3> QED BY <2>2, <3>1
  <2> QED BY <2>1, <2>2
<1>6. /\ DOMAIN pte' = Space
      /\ pte'[s] = [pte[s] EXCEPT ![page] = NULL]
      /\ \A r \in Space : r # s => pte'[r] = pte[r]
  BY <1>1, <1>3 DEF SpaceInv, TypeOK
<1>7. pte'[s][page] = NULL /\ \A p \in Page(s) : p # page => pte'[s][p] = pte[s][p]
  BY <1>3, <1>6 DEF SpaceInv, TypeOK
<1>8. \A r \in Space : \A p \in Page(r) :
        Mapped(r, p)' <=> Mapped(r, p) /\ ~ (r = s /\ p = page)
  BY <1>6, <1>7 DEF Mapped
<1>9. /\ vaddrs' \in [Space -> BitmapType]
      /\ \A r \in Space : vaddrs'[r].size = VaddrBytes[r]
           /\ vaddrs'[r].used \subseteq Page(r)
      /\ vaddrs'[s].used = IF done THEN vaddrs[s].used \ pages ELSE vaddrs[s].used
      /\ \A r \in Space : r # s => vaddrs'[r] = vaddrs[r]
  <2>1. CASE done
    <3> DEFINE new == [size |-> vaddrs[s].size, used |-> vaddrs[s].used \ pages]
    <3>1. vaddrs[s] \in BitmapType
      BY <1>3 DEF SpaceInv, TypeOK
    <3>2. bitmapSetRun(vaddrs[s], l.start, l.cnt, 0)
            = [size |-> vaddrs[s].size, used |-> vaddrs[s].used \ (l.start .. l.start + l.cnt - 1)]
      <4>1. l.start \in Int /\ l.cnt \in Int
        BY <1>3
      <4> HIDE DEF s, l
      <4> QED BY <3>1, <4>1, SetRunBits, Zenon
    <3>3. vaddrs' = [vaddrs EXCEPT ![s] = new]
      BY <1>1, <1>3, <2>1, <3>2
    <3>4. new \in BitmapType /\ new.size = vaddrs[s].size
            /\ new.used = vaddrs[s].used \ pages
      BY <3>1 DEF BitmapType
    <3> HIDE DEF new, s, pages
    <3> QED BY <1>3, <2>1, <3>3, <3>4 DEF SpaceInv, TypeOK
  <2>2. CASE ~ done
    BY <1>1, <2>2 DEF SpaceInv, TypeOK
  <2> QED BY <2>1, <2>2
<1> HIDE DEF pages
<1>10. TypeOK'
  <2>1. loc'[t] \in Locals
    BY <1>1, <1>3, <1>5 DEF Locals, Label, OnlyLoc
  <2>2. \A r \in Space : pte'[r] \in [Page(r) -> Frame \cup {NULL}]
    BY <1>6 DEF SpaceInv, TypeOK
  <2>3. PoolFor(t) \in Pool /\ l.byte \ {l.bit} \in SUBSET Int
    <3>1. l.byte \in SUBSET Int
      BY DEF SpaceInv, TypeOK, Locals
    <3>2. PoolFor(t) \in Pool
      <4>1. loc[t].frame \in {PoolOf(t)} \X Nat /\ PoolOf(t) \in Pool
        BY <1>1, SpaceFacts DEF SpaceInv, ControlOK
      <4> QED BY <1>1, <1>2, <4>1 DEF PoolFor
    <3> QED BY <3>1, <3>2
  <2>4. pool' \in [Pool -> BitmapType] /\ \A p \in Pool : pool'[p].size = pool[p].size
    BY <1>1, <2>3, StoredType DEF SpaceInv
  <2> QED BY <1>1, <1>5, <1>6, <1>9, <2>1, <2>2, <2>4 DEF SpaceInv, TypeOK, OnlyLoc
<1>11. ControlOK(t)'
  BY <1>1, <1>2, <1>5 DEF SpaceInv, ControlOK, OnlyLoc
<1>12. /\ Working(t)' <=> ~ done
       /\ Claim(t)' = Claim(t)
       /\ \A u \in Thread : u # t => (Working(u)' <=> Working(u)) /\ Claim(u)' = Claim(u)
  <2>1. (Working(t)' <=> ~ done) /\ Claim(t)' = Claim(t)
    BY <1>1, <1>5 DEF Working, Claim
  <2>2. \A u \in Thread : u # t => (Working(u)' <=> Working(u)) /\ Claim(u)' = Claim(u)
    BY <1>5 DEF Working, Claim, OnlyLoc
  <2> QED BY <2>1, <2>2
<1>13. /\ \A u \in Thread : Claims(u)' \subseteq Claims(u)
       /\ done => \A a \in Claims(t)' : a \in live[t]
  BY <1>1, <1>2, <1>12 DEF Claims
<1>14. \A u \in Thread : \A a \in Claims(u)' :
         SpaceOf(u) = s /\ (done \/ u # t \/ a \in live[u]) => PagesOf(a) \cap pages = {}
  BY <1>2, <1>13, OtherClaims DEF pages
<1>15. Claimed'
  <2>1. ClaimsUsed'
    <3> SUFFICES ASSUME NEW u \in Thread, NEW a \in Claims(u)'
                 PROVE  /\ a.cnt \in Nat \ {0}
                        /\ PagesOf(a) \subseteq vaddrs'[SpaceOf(u)].used
                        /\ u \in Process /\ StackPage(u) \in PagesOf(a)
                             => a.start = StackPage(u)
      BY DEF ClaimsUsed
    <3>1. /\ a.cnt \in Nat \ {0} /\ PagesOf(a) \subseteq vaddrs[SpaceOf(u)].used
          /\ u \in Process /\ StackPage(u) \in PagesOf(a) => a.start = StackPage(u)
      BY <1>13 DEF SpaceInv, Claimed, ClaimsUsed
    <3>2. SpaceOf(u) \in Space
      BY SpaceFacts
    <3> QED BY <1>9, <1>14, <3>1, <3>2
  <2>2. ClaimsApart'
    BY <1>13 DEF SpaceInv, Claimed, ClaimsApart
  <2>3. ClaimNotLive'
    BY <1>1, <1>2, <1>12 DEF SpaceInv, Claimed, ClaimNotLive
  <2>4. LivesMapped'
    <3> SUFFICES ASSUME NEW u \in Thread, NEW a \in live[u], NEW p \in PagesOf(a)
                 PROVE  Mapped(SpaceOf(u), p)'
      BY <1>1 DEF LivesMapped, Mapped
    <3>1. Mapped(SpaceOf(u), p)
      BY DEF SpaceInv, Claimed, LivesMapped
    <3>2. SpaceOf(u) \in Space /\ p \in Page(SpaceOf(u))
      BY SpaceFacts DEF SpaceInv, TypeOK, Claimed, ClaimsUsed, Claims
    <3>3. a \in Claims(u)'
      BY <1>1 DEF Claims
    <3> QED BY <1>3, <1>8, <1>14, <3>1, <3>2, <3>3
  <2>5. Progress(t)'
    <3> SUFFICES ASSUME ~ done
                 PROVE  Progress(t)'
      BY <1>12 DEF Progress
    <3>1. \A p \in pages : Mapped(s, p)' <=> p >= page + 1
      BY <1>3, <1>4, <1>8
    <3>2. loc'[t].page = page + 1 /\ page + 1 \in pages
      <4>1. loc'[t].page = page + 1
        BY <1>5
      <4>2. page + 1 # l.start + l.cnt
        OBVIOUS
      <4> HIDE DEF done, page, l, pages
      <4> QED BY <1>3, <4>1, <4>2
    <3>3. loc'[t].op = "free" /\ loc'[t].start = l.start
      BY <1>1, <1>5
    <3> HIDE DEF l
    <3> QED BY <1>4, <1>12, <3>1, <3>2, <3>3 DEF Progress, Mapped, pages
  <2>6. ASSUME NEW u \in Thread, u # t PROVE Progress(u)'
    <3> SUFFICES ASSUME Working(u)
                 PROVE  Progress(u)'
      BY <1>12, <2>6 DEF Progress
    <3>1. Claim(u) \in Claims(u)' /\ PagesOf(Claim(u)) \subseteq Page(SpaceOf(u))
          /\ SpaceOf(u) \in Space
      BY <1>12, <2>6, ClaimPages DEF Claims
    <3>2. \A p \in PagesOf(Claim(u)) : Mapped(SpaceOf(u), p)' <=> Mapped(SpaceOf(u), p)
      <4>1. SpaceOf(u) = s => PagesOf(Claim(u)) \cap pages = {}
        BY <1>14, <2>6, <3>1
      <4> QED BY <1>3, <1>8, <3>1, <4>1
    <3>3. loc'[u] = loc[u] /\ Claim(u)' = Claim(u)
      BY <1>5, <1>12, <2>6 DEF OnlyLoc
    <3> QED BY <3>2, <3>3 DEF SpaceInv, Claimed, Progress, Mapped
  <2> QED BY <2>1, <2>2, <2>3, <2>4, <2>5, <2>6 DEF Claimed
<1>16. UnusedUnmapped'
  <2> SUFFICES ASSUME NEW r \in Space, NEW p \in Page(r), Mapped(r, p)'
               PROVE  p \in vaddrs'[r].used
    BY DEF UnusedUnmapped
  <2>1. Mapped(r, p) /\ ~ (r = s /\ p = page) /\ p \in vaddrs[r].used
    BY <1>8 DEF SpaceInv, UnusedUnmapped
  <2>2. r = s /\ done => p \notin pages
    BY <1>3, <1>4, <2>1
  <2> QED BY <1>9, <2>1, <2>2
<1>17. RightPool'
  <2> SUFFICES ASSUME NEW r \in Space, NEW p \in Page(r), Mapped(r, p)'
               PROVE  pte'[r][p][1] = IF r = Kernel THEN "kernel" ELSE "user"
    BY DEF RightPool
  <2>1. pte'[r][p] = pte[r][p] /\ Mapped(r, p)
    BY <1>6, <1>7, <1>8
  <2> QED BY <2>1 DEF SpaceInv, RightPool
<1>18. LocksHeld'
  BY <1>1, <1>5, LocksKept DEF Inside, OnlyLoc
<1>19. StackKept'
  <2>1. \A u \in Process : Started(u)' <=> Started(u)
    BY <1>1, <1>5 DEF Started, OnlyLoc, Thread
  <2>2. t \in Process => Started(t) /\ s = t /\ StackPage(t) \notin pages
    <3>1. t \in Process => Started(t) /\ s = t
      BY <1>1, SpaceFacts DEF Started
    <3>2. Claim(t) \in Claims(t) /\ Claim(t).start = l.start
      BY <1>2 DEF Claims, Claim
    <3> QED BY <1>4, <3>1, <3>2 DEF SpaceInv, Claimed, ClaimsUsed, pages
  <2>3. \A u \in Process : u \in Space /\ (u # t => u # s)
    BY SpaceFacts
  <2> QED BY <1>9, <2>1, <2>2, <2>3 DEF SpaceInv, StackKept
<1>20. LostKnown'
  <2>1. Claim(t) \in Claims(t)
    BY <1>2 DEF Claims
  <2>2. \A p \in pages : ClaimedPage(s, p)
    BY <2>1 DEF ClaimedPage, pages
  <2>3. \A r \in Space : \A p \in lost[r].marked :
          /\ p \in Page(r) /\ ~ (r = s /\ p \in pages)
          /\ Mapped(r, p)' <=> Mapped(r, p)
    BY <1>3, <1>8, <2>2 DEF SpaceInv, LostKnown, TypeOK
  <2>4. \A u \in Thread : \A a \in Claims(u) :
          a \in Claims(u)' \/ (done /\ u = t /\ a = Claim(t))
    BY <1>1, <1>12 DEF Claims
  <2>5. CASE ~ done
    <3>1. \A u \in Thread : Claims(u)' = Claims(u)
      BY <1>13, <2>4, <2>5
    <3> QED BY <1>1, <2>3, <2>5, <3>1, LostKept
  <2>6. CASE done
    <3>1. \A r \in Space : \A p : ClaimedPage(r, p)' => ClaimedPage(r, p)
      BY <1>13 DEF ClaimedPage
    <3>2. \A r \in Space : \A p : ClaimedPage(r, p) =>
            ClaimedPage(r, p)' \/ (r = s /\ p \in pages)
      BY <2>4 DEF ClaimedPage, pages
    <3>3. ASSUME NEW r \in Space
          PROVE  vaddrs'[r].used = vaddrs[r].used \ (IF r = s THEN pages ELSE {})
      BY <1>9, <2>6
    <3>4. lost' = lost
      BY <1>1
    <3>5. ASSUME NEW r \in Space
          PROVE  /\ lost[r].mapped \subseteq lost[r].marked
                 /\ \A p \in lost[r].marked :
                      /\ p \in vaddrs'[r].used /\ ~ ClaimedPage(r, p)'
                      /\ Mapped(r, p)' <=> p \in lost[r].mapped
                 /\ \A p \in vaddrs'[r].used : ClaimedPage(r, p)' \/ p \in lost[r].marked
      <4>1. /\ lost[r].mapped \subseteq lost[r].marked
            /\ \A p \in lost[r].marked : /\ p \in vaddrs[r].used /\ ~ ClaimedPage(r, p)
                                         /\ Mapped(r, p) <=> p \in lost[r].mapped
            /\ \A p \in vaddrs[r].used : ClaimedPage(r, p) \/ p \in lost[r].marked
        BY DEF SpaceInv, LostKnown
      <4> HIDE DEF s, done
      <4> QED BY <2>3, <3>1, <3>2, <3>3, <4>1
    <3> QED BY <3>4, <3>5 DEF LostKnown
  <2> QED BY <2>5, <2>6
<1> QED BY <1>1, <1>5, <1>10, <1>11, <1>15, <1>16, <1>17, <1>18, <1>19, <1>20, ControlKept
        DEF SpaceInv, NoPanic, OnlyLoc

(* lockRelease: the pages are the thread's, all of them mapped, or the     *)
(* call has failed or has freed them.                                      *)
LEMMA UnlockPoolStep ==
  ASSUME SpaceInv, NEW t \in Thread, UnlockPool(t)
  PROVE  SpaceInv'
<1> DEFINE l == loc[t]
           gives == ~ (l.op = "free" \/ l.cnt = 0)
           got == [start |-> l.start, cnt |-> l.cnt]
<1>1. /\ l.pc = "unlock" /\ loc' = [loc EXCEPT ![t] = Idle]
      /\ lock' = [lock EXCEPT ![PoolOf(t)] = NULL] /\ cli' = NULL
      /\ live' = IF gives THEN [live EXCEPT ![t] = @ \cup {got}] ELSE live
      /\ UNCHANGED <<pool, vaddrs, table, pte, lost, panic>>
  BY DEF UnlockPool, At
<1>2. Idle \in Locals /\ Idle.pc = "idle" /\ Idle.op = "none" /\ Idle.for = "page"
  BY DEF Idle, Locals, Label
<1>3. OnlyLoc(t) /\ loc'[t] = Idle /\ loc' \in [Thread -> Locals]
  BY <1>1, <1>2 DEF SpaceInv, TypeOK, OnlyLoc
<1>4. loc'[t].pc = "idle" /\ loc'[t].op = "none" /\ loc'[t].for = "page"
  BY <1>2, <1>3
<1>5. /\ Working(t) <=> gives
      /\ ~ Working(t)'
      /\ Claim(t) = got
      /\ \A u \in Thread : u # t => (Working(u)' <=> Working(u)) /\ Claim(u)' = Claim(u)
  BY <1>1, <1>3, <1>4 DEF Working, Claim, OnlyLoc
<1>6. /\ live' \in [Thread -> SUBSET [start : Int, cnt : Int]]
      /\ live'[t] = IF gives THEN live[t] \cup {got} ELSE live[t]
      /\ \A u \in Thread : u # t => live'[u] = live[u]
  <2>1. l.start \in Int /\ l.cnt \in Int
    BY DEF SpaceInv, TypeOK, Locals
  <2>2. got \in [start : Int, cnt : Int]
    BY <2>1
  <2> HIDE DEF got, gives
  <2> QED BY <1>1, <2>2 DEF SpaceInv, TypeOK
<1>7. \A u \in Thread : Claims(u)' = Claims(u)
  BY <1>5, <1>6 DEF Claims
<1>8. TypeOK'
  <2>1. lock' \in [Pool -> Thread \cup {NULL}]
    BY <1>1 DEF SpaceInv, TypeOK
  <2> QED BY <1>1, <1>3, <1>6, <2>1 DEF SpaceInv, TypeOK
<1>9. ControlOK(t)'
  BY <1>4 DEF ControlOK
<1>10. Claimed'
  <2>1. ClaimsUsed' /\ ClaimsApart'
    BY <1>1, <1>7 DEF SpaceInv, Claimed, ClaimsUsed, ClaimsApart
  <2>2. ClaimNotLive'
    BY <1>5, <1>6 DEF SpaceInv, Claimed, ClaimNotLive
  <2>3. gives => \A p \in PagesOf(got) : Mapped(SpaceOf(t), p)
    BY <1>1, <1>5 DEF SpaceInv, Claimed, Progress
  <2>4. LivesMapped'
    BY <1>1, <1>6, <2>3 DEF SpaceInv, Claimed, LivesMapped, Mapped
  <2>5. \A u \in Thread : Progress(u)'
    BY <1>1, <1>3, <1>5 DEF SpaceInv, Claimed, Progress, Mapped, OnlyLoc
  <2> QED BY <2>1, <2>2, <2>4, <2>5 DEF Claimed
<1>11. UnusedUnmapped' /\ RightPool'
  BY <1>1 DEF SpaceInv, UnusedUnmapped, RightPool, Mapped
<1>12. LocksHeld'
  <2>1. lock[PoolOf(t)] = t /\ PoolOf(t) \in Pool
    BY <1>1, SpaceFacts DEF SpaceInv, LocksHeld, Inside
  <2>2. \A u \in Thread : Inside(u)' <=> Inside(u) /\ u # t
    BY <1>3, <1>4 DEF Inside, OnlyLoc
  <2>3. /\ lock'[PoolOf(t)] = NULL
        /\ \A q \in Pool : q # PoolOf(t) => lock'[q] = lock[q]
    BY <1>1, <2>1 DEF SpaceInv, TypeOK
  <2>4. NULL \notin Thread /\ \A u \in Thread : PoolOf(u) \in Pool
    BY SpaceFacts
  <2>5. \A u \in Thread : Inside(u)' => lock'[PoolOf(u)] = u
    BY <2>1, <2>2, <2>3, <2>4 DEF SpaceInv, LocksHeld
  <2>6. \A q \in Pool : lock'[q] \in Thread =>
          loc'[lock'[q]].pc \notin {"unborn", "idle", "lock"}
    <3> SUFFICES ASSUME NEW q \in Pool, lock'[q] \in Thread
                 PROVE  loc'[lock'[q]].pc \notin {"unborn", "idle", "lock"}
      OBVIOUS
    <3>1. q # PoolOf(t) /\ lock'[q] = lock[q]
      BY <2>3, <2>4
    <3>2. Inside(lock[q]) /\ lock[q] \in Thread
      BY <3>1 DEF SpaceInv, LocksHeld
    <3>3. lock[q] # t
      BY <3>1, <3>2 DEF SpaceInv, LocksHeld
    <3> QED BY <1>3, <3>1, <3>2, <3>3 DEF Inside, OnlyLoc
  <2>7. \A q \in Pool : lock'[q] \in Thread => PoolOf(lock'[q]) = q
    BY <2>3, <2>4, SpaceFacts DEF SpaceInv, LocksHeld
  <2> QED BY <2>5, <2>6, <2>7 DEF LocksHeld, Inside
<1>13. StackKept'
  BY <1>1, <1>3, <1>4, StackStays DEF Started, OnlyLoc
<1>14. LostKnown'
  BY <1>1, <1>7, LostKept DEF Mapped
<1> QED BY <1>1, <1>3, <1>8, <1>9, <1>10, <1>11, <1>12, <1>13, <1>14, ControlKept
        DEF SpaceInv, NoPanic, OnlyLoc

(* No step of Next, and no stutter, breaks the invariant. *)
LEMMA SpaceStep ==
  ASSUME SpaceInv, [Next]_vars
  PROVE  SpaceInv'
<1>1. CASE UNCHANGED vars
  <2>1. \A t \in Thread : /\ ControlOK(t)' = ControlOK(t) /\ Progress(t)' = Progress(t)
                          /\ Claims(t)' = Claims(t) /\ Claim(t)' = Claim(t)
                          /\ Working(t)' = Working(t)
    BY <1>1 DEF vars, ControlOK, Progress, Claims, Claim, Working, Mapped
  <2>2. LostKnown'
    BY <1>1, <2>1, LostKept DEF vars, Mapped
  <2> QED BY <1>1, <2>1, <2>2 DEF vars, SpaceInv, TypeOK, LocksHeld, Inside, Claimed, ClaimsUsed,
          ClaimsApart, ClaimNotLive, LivesMapped, UnusedUnmapped, RightPool, StackKept,
          Started, NoPanic, Mapped
<1>2. CASE Next
  BY <1>2, MallocStep, FreeStep, LockPoolStep, TooManyPagesStep, VaddrGetStep, GetPageStep,
     PallocStep, SetLoadStep, PallocStoreStep, PageTableAddStep, PfreeStep, PfreeStoreStep,
     UnlockPoolStep DEF Next, Step
<1> QED BY <1>1, <1>2

(* Bitmaps, page tables, requests and locks agree at every step of every   *)
(* run, also of kernel threads and processes together.                     *)
THEOREM SpaceInvariant == Spec => []SpaceInv
  BY InitSpace, SpaceStep, PTL DEF Spec

(* The ASSERTs of pageTableAdd (the page is not mapped), vaddrGet (not     *)
(* the stack page) and mfreePage (the page is mapped, to a frame of the    *)
(* thread's pool) never fail.  That of mallocPage on the number of pages   *)
(* fails only where sysMalloc accepts requests of MaxPgCnt pages or more.  *)
THEOREM NeverPanics == Spec => []NoPanic
<1>1. SpaceInv => NoPanic
  BY DEF SpaceInv
<1> QED BY <1>1, SpaceInvariant, PTL

(* What sysMalloc has given and sysFree has not taken back is mapped,      *)
(* cannot be given again and overlaps nothing else of its address space.   *)
THEOREM LiveStaysMapped == Spec => []LiveMapped
<1>1. SpaceInv => LiveMapped
  <2> SUFFICES ASSUME SpaceInv, NEW t \in Thread, NEW u \in Thread,
                      NEW a \in live[t], NEW b \in live[u]
               PROVE  /\ \A p \in PagesOf(a) : pte[SpaceOf(t)][p] # NULL
                                              /\ bitmapTest(vaddrs[SpaceOf(t)], p)
                      /\ SpaceOf(t) = SpaceOf(u) /\ PagesOf(a) \cap PagesOf(b) # {}
                           => t = u /\ a = b
    BY DEF LiveMapped
  <2>1. a \in Claims(t) /\ b \in Claims(u)
    BY DEF Claims
  <2> QED BY <2>1 DEF SpaceInv, Claimed, ClaimsUsed, ClaimsApart, LivesMapped, Mapped,
     bitmapTest
<1> QED BY <1>1, SpaceInvariant, PTL

(* bitmapScan is first fit whenever vaddrGet and palloc use it, for        *)
(* requests of every length.                                               *)
THEOREM FirstFitAlways == Spec => []FirstFit
<1>1. SpaceInv => FirstFit
  <2> SUFFICES ASSUME SpaceInv, NEW t \in Thread
               PROVE  /\ loc[t].pc = "malloc" => FindsFirst(vaddrs[SpaceOf(t)], loc[t].cnt)
                      /\ loc[t].pc = "palloc" => FindsFirst(pool[PoolFor(t)], 1)
    BY DEF FirstFit
  <2>1. ASSUME loc[t].pc = "malloc"
        PROVE  FindsFirst(vaddrs[SpaceOf(t)], loc[t].cnt)
    <3>1. loc[t].cnt \in Nat \ {0}
      BY <2>1 DEF SpaceInv, ControlOK
    <3>2. vaddrs[SpaceOf(t)].size \in Nat
      BY SpaceFacts DEF SpaceInv, TypeOK, BitmapType
    <3> QED BY <3>1, <3>2, ScanFirstFit DEF FindsFirst
  <2>2. ASSUME loc[t].pc = "palloc"
        PROVE  FindsFirst(pool[PoolFor(t)], 1)
    <3>1. PoolFor(t) \in Pool
      BY <2>2, SpaceFacts DEF SpaceInv, ControlOK, PoolFor, Pool
    <3>2. pool[PoolFor(t)].size \in Nat
      BY <3>1 DEF SpaceInv, TypeOK, BitmapType
    <3> QED BY <3>2, ScanFirstFit DEF FindsFirst
  <2> QED BY <2>1, <2>2
<1> QED BY <1>1, SpaceInvariant, PTL

-----------------------------------------------------------------------------
(***************************************************************************)
(* Frames.  A frame in use is at one place: mapped at a page, used for a   *)
(* page table, or held by a thread that has taken it from its pool and is  *)
(* about to map it.  The pools' bits are those of the frames in use.       *)
(***************************************************************************)
Holds(t) == \/ loc[t].pc = "map"
            \/ loc[t].for = "table" /\ loc[t].pc \in {"palloc", "load", "store"}

Places ==
  {x \in {"pte", "table", "held"} \X (Space \cup Thread) \X Int :
     \/ x[1] = "pte" /\ x[2] \in Space /\ x[3] \in Page(x[2]) /\ pte[x[2]][x[3]] # NULL
     \/ x[1] = "table" /\ x[2] \in Process /\ x[3] \in Regions /\ table[x[2]][x[3]] # NULL
     \/ x[1] = "held" /\ x[2] \in Thread /\ x[3] = 0 /\ Holds(x[2])}

FrameAt(x) == IF x[1] = "pte" THEN pte[x[2]][x[3]]
              ELSE IF x[1] = "table" THEN table[x[2]][x[3]] ELSE loc[x[2]].frame

Bits == UNION {{q} \X pool[q].used : q \in Pool}

Owned == /\ \A x, y \in Places : FrameAt(x) = FrameAt(y) => x = y
         /\ \A f \in Frame \cup Bits : f \in Bits <=> \E x \in Places : FrameAt(x) = f

(* Between bitmapScan and bitmapSet nobody else uses the pool. *)
BitOK(t) ==
  /\ loc[t].pc \in {"load", "store"} /\ loc[t].op # "free" =>
       loc[t].bit \notin pool[PoolFor(t)].used
  /\ loc[t].pc \in {"load", "store"} /\ loc[t].op = "free" =>
       /\ loc[t].frame = <<PoolOf(t), loc[t].bit>>
       /\ pte[SpaceOf(t)][loc[t].page] = loc[t].frame
  /\ loc[t].pc = "store" => loc[t].byte = pool[PoolFor(t)].used \cap ByteOf(loc[t].bit)

(***************************************************************************)
(* The lock of a pool excludes the threads that allocate from it.  A       *)
(* process takes its page tables from kernelPool under the lock of         *)
(* userPool, so that this excludes nobody when kernel threads and          *)
(* processes run together.                                                 *)
(***************************************************************************)
Alone == \A t, u \in Thread :
           loc[t].pc # "unborn" /\ loc[u].pc # "unborn" => PoolOf(t) = PoolOf(u)

OneKindRuns == \A T \in Together : T \subseteq KThread \/ T \subseteq Process

(* The inductive invariant about frames. *)
FrameInv == TableIsFrame => Owned /\ \A t \in Thread : BitOK(t)

(* Only one thread has a call under way that has the lock. *)
LEMMA OneInside ==
  ASSUME SpaceInv, Alone
  PROVE  \A t, u \in Thread : Inside(t) /\ Inside(u) => t = u
  BY DEF SpaceInv, LocksHeld, Inside, Alone

(* A thread that does not take part in a run never does. *)
LEMMA NoneBorn ==
  ASSUME SpaceInv, [Next]_vars
  PROVE  \A t \in Thread : loc'[t].pc # "unborn" => loc[t].pc # "unborn"
<1>1. loc \in [Thread -> Locals]
  BY DEF SpaceInv, TypeOK
<1>2. ASSUME NEW t \in Thread, NEW f, Set(t, f), loc[t].pc # "unborn"
      PROVE  \A u \in Thread : loc'[u].pc # "unborn" => loc[u].pc # "unborn"
  BY <1>1, <1>2, SetFacts
<1>3. CASE UNCHANGED vars
  BY <1>3 DEF vars
<1>4. ASSUME NEW t \in Thread, NEW cnt \in 1 .. MaxPages, Malloc(t, cnt)
      PROVE  \A u \in Thread : loc'[u].pc # "unborn" => loc[u].pc # "unborn"
  BY <1>2, <1>4 DEF Malloc, At
<1>5. ASSUME NEW t \in Thread, NEW a \in live[t], Free(t, a)
      PROVE  \A u \in Thread : loc'[u].pc # "unborn" => loc[u].pc # "unborn"
  BY <1>2, <1>5 DEF Free, At
<1>6. ASSUME NEW t \in Thread, Step(t)
      PROVE  \A u \in Thread : loc'[u].pc # "unborn" => loc[u].pc # "unborn"
  <2>1. CASE LockPool(t)
    BY <1>2, <2>1 DEF LockPool, At
  <2>2. CASE VaddrGet(t) \/ TooManyPages(t)
    BY <1>2, <2>2 DEF VaddrGet, TooManyPages, At
  <2>3. CASE GetPage(t)
    BY <1>2, <2>3 DEF GetPage, At
  <2>4. CASE Palloc(t)
    BY <1>2, <2>4 DEF Palloc, At
  <2>5. CASE SetLoad(t)
    BY <1>2, <2>5 DEF SetLoad, At
  <2>6. CASE PallocStore(t)
    BY <1>2, <2>6 DEF PallocStore, At
  <2>7. CASE PageTableAdd(t)
    BY <1>2, <2>7 DEF PageTableAdd, At
  <2>8. CASE Pfree(t)
    BY <1>2, <2>8 DEF Pfree, At
  <2>9. CASE PfreeStore(t)
    BY <1>2, <2>9 DEF PfreeStore, At
  <2>10. CASE UnlockPool(t)
    <3>1. loc' = [loc EXCEPT ![t] = Idle] /\ loc[t].pc = "unlock"
      BY <2>10 DEF UnlockPool, At
    <3> QED BY <1>1, <3>1
  <2> QED BY <1>6, <2>1, <2>2, <2>3, <2>4, <2>5, <2>6, <2>7, <2>8, <2>9, <2>10 DEF Step
<1> QED BY <1>3, <1>4, <1>5, <1>6 DEF Next

(* Threads that run together keep to one pool. *)
LEMMA AloneInvariant ==
  ASSUME OneKindRuns
  PROVE  Spec => []Alone
<1>1. Init => Alone
  <2> SUFFICES ASSUME Init PROVE Alone
    OBVIOUS
  <2>1. PICK T \in Together :
          loc = [t \in Thread |->
                   IF t \notin T THEN [Idle EXCEPT !.pc = "unborn"]
                   ELSE IF t \in Process
                   THEN [Idle EXCEPT !.pc = "lock", !.op = "stack"] ELSE Idle]
    BY DEF Init
  <2>2. [Idle EXCEPT !.pc = "unborn"].pc = "unborn"
    BY DEF Idle
  <2>3. \A t \in Thread : loc[t].pc # "unborn" => t \in T
    BY <2>1, <2>2
  <2> QED BY <2>3, PagesAssumption DEF OneKindRuns, Alone, PoolOf
<1>2. SpaceInv /\ Alone /\ [Next]_vars => Alone'
  BY NoneBorn DEF Alone, PoolOf
<1> QED BY <1>1, <1>2, SpaceInvariant, PTL DEF Spec

-----------------------------------------------------------------------------
(* Nothing moves. *)
LEMMA OwnedKept ==
  ASSUME Owned, Places' = Places, \A x \in Places : FrameAt(x)' = FrameAt(x), Bits' = Bits
  PROVE  Owned'
  BY DEF Owned

(* One frame that was free comes to be in use, at one new place. *)
LEMMA OwnedGrows ==
  ASSUME Owned, NEW x, NEW f, f \notin Bits, f \in Frame,
         Places' = Places \cup {x}, \A y \in Places : FrameAt(y)' = FrameAt(y),
         FrameAt(x)' = f, Bits' = Bits \cup {f}
  PROVE  Owned'
  BY DEF Owned

(* One frame moves from one place to another. *)
LEMMA OwnedMoves ==
  ASSUME Owned, NEW x, NEW y \in Places, x \notin Places,
         Places' = (Places \ {y}) \cup {x},
         \A z \in Places \ {y} : FrameAt(z)' = FrameAt(z),
         FrameAt(x)' = FrameAt(y), Bits' = Bits
  PROVE  Owned'
  BY DEF Owned

(* One frame in use becomes free. *)
LEMMA OwnedShrinks ==
  ASSUME Owned, NEW x \in Places, Places' = Places \ {x},
         \A y \in Places' : FrameAt(y)' = FrameAt(y), Bits' = Bits \ {FrameAt(x)},
         FrameAt(x) \in Bits
  PROVE  Owned'
  BY DEF Owned
-----------------------------------------------------------------------------

(* What is at a place, and TableIsFrame without reference to Tables. *)
LEMMA PlaceFacts ==
  ASSUME SpaceInv
  PROVE  /\ \A x \in Places : FrameAt(x) \in Frame \cup {PhysZero}
         /\ TableIsFrame <=> \A s \in Process, r \in Regions : table[s][r] # PhysZero
         /\ \A s \in Process : DOMAIN table[s] = Regions
<1>1. \A s \in Process : DOMAIN table[s] = Regions
  BY DEF SpaceInv, TypeOK
<1>2. \A s \in Process, r \in Regions : table[s][r] \in Frame \cup {PhysZero, NULL}
  BY DEF SpaceInv, TypeOK
<1>3. ASSUME NEW x \in Places
      PROVE  FrameAt(x) \in Frame \cup {PhysZero}
  <2>1. CASE x[1] = "pte"
    BY <1>3, <2>1 DEF Places, FrameAt, SpaceInv, TypeOK
  <2>2. CASE x[1] = "table"
    BY <1>2, <1>3, <2>2 DEF Places, FrameAt
  <2>3. CASE x[1] = "held"
    <3>1. x[2] \in Thread /\ Holds(x[2])
      BY <2>3 DEF Places
    <3>2. loc[x[2]].frame \in {PoolOf(x[2])} \X Nat
      BY <3>1 DEF SpaceInv, ControlOK, Holds
    <3> QED BY <2>3, <3>1, <3>2, SpaceFacts DEF FrameAt, Frame
  <2> QED BY <2>1, <2>2, <2>3 DEF Places
<1>4. TableIsFrame => \A s \in Process, r \in Regions : table[s][r] # PhysZero
  <2> SUFFICES ASSUME NEW s \in Process, NEW r \in Regions, table[s][r] = PhysZero
               PROVE  ~ TableIsFrame
    OBVIOUS
  <2>1. <<s, r>> \in Tables
    BY <1>1, SpaceFacts DEF Tables
  <2> QED BY <2>1 DEF TableIsFrame
<1>5. (\A s \in Process, r \in Regions : table[s][r] # PhysZero) => TableIsFrame
  BY <1>1 DEF TableIsFrame, Tables
<1> QED BY <1>1, <1>3, <1>4, <1>5

(* A step that leaves the pools and the mappings alone. *)
LEMMA FrameKept ==
  ASSUME SpaceInv, FrameInv, NEW t \in Thread,
         UNCHANGED <<pool, pte, table>>,
         \A u \in Thread : u # t => loc'[u] = loc[u],
         Holds(t)' <=> Holds(t),
         Holds(t) => loc'[t].frame = loc[t].frame,
         TableIsFrame /\ BitOK(t) => BitOK(t)'
  PROVE  FrameInv'
<1> SUFFICES ASSUME TableIsFrame'
             PROVE  Owned' /\ \A u \in Thread : BitOK(u)'
  BY DEF FrameInv
<1>1. TableIsFrame
  BY DEF TableIsFrame, Tables
<1>2. Owned /\ \A u \in Thread : BitOK(u)
  BY <1>1 DEF FrameInv
<1>3. \A u \in Thread : Holds(u)' <=> Holds(u)
  BY DEF Holds
<1>4. Places' = Places
  BY <1>3 DEF Places
<1>5. \A x \in Places : FrameAt(x)' = FrameAt(x)
  <2> SUFFICES ASSUME NEW x \in Places PROVE FrameAt(x)' = FrameAt(x)
    OBVIOUS
  <2>1. x[1] \notin {"pte", "table"} => x[2] \in Thread /\ Holds(x[2])
    BY DEF Places
  <2>2. loc'[x[2]].frame = loc[x[2]].frame \/ x[1] \in {"pte", "table"}
    BY <2>1
  <2> QED BY <2>2 DEF FrameAt
<1>6. Owned'
  BY <1>2, <1>4, <1>5, OwnedKept DEF Bits
<1>7. ASSUME NEW u \in Thread PROVE BitOK(u)'
  <2>1. CASE u = t
    BY <1>1, <1>2, <2>1
  <2>2. CASE u # t
    BY <1>2, <2>2 DEF BitOK, PoolFor
  <2> QED BY <2>1, <2>2
<1> QED BY <1>6, <1>7

(* A thread that neither has a frame in hand nor is about to. *)
LEMMA FrameIdle ==
  ASSUME SpaceInv, FrameInv, NEW t \in Thread,
         UNCHANGED <<pool, pte, table>>,
         \A u \in Thread : u # t => loc'[u] = loc[u],
         ~ Holds(t), loc'[t].pc \notin {"load", "store", "map"},
         loc'[t].pc = "palloc" => loc'[t].for = "page"
  PROVE  FrameInv'
<1>1. ~ Holds(t)'
  BY DEF Holds
<1>2. BitOK(t)'
  BY DEF BitOK
<1> QED BY <1>1, <1>2, FrameKept

(* Set, field by field, as far as frames are concerned. *)
LEMMA SetFields ==
  ASSUME SpaceInv, NEW t \in Thread, NEW f, Set(t, f)
  PROVE  /\ \A u \in Thread : u # t => loc'[u] = loc[u]
         /\ loc'[t].pc = IF "pc" \in DOMAIN f THEN f.pc ELSE loc[t].pc
         /\ loc'[t].op = IF "op" \in DOMAIN f THEN f.op ELSE loc[t].op
         /\ loc'[t].page = IF "page" \in DOMAIN f THEN f.page ELSE loc[t].page
         /\ loc'[t].for = IF "for" \in DOMAIN f THEN f.for ELSE loc[t].for
         /\ loc'[t].bit = IF "bit" \in DOMAIN f THEN f.bit ELSE loc[t].bit
         /\ loc'[t].byte = IF "byte" \in DOMAIN f THEN f.byte ELSE loc[t].byte
         /\ loc'[t].frame = IF "frame" \in DOMAIN f THEN f.frame ELSE loc[t].frame
<1>1. loc \in [Thread -> Locals]
  BY DEF SpaceInv, TypeOK
<1>2. /\ \A u \in Thread : u # t => loc'[u] = loc[u]
      /\ loc'[t] =
           [pc    |-> IF "pc" \in DOMAIN f THEN f.pc ELSE loc[t].pc,
            op    |-> IF "op" \in DOMAIN f THEN f.op ELSE loc[t].op,
            start |-> IF "start" \in DOMAIN f THEN f.start ELSE loc[t].start,
            cnt   |-> IF "cnt" \in DOMAIN f THEN f.cnt ELSE loc[t].cnt,
            page  |-> IF "page" \in DOMAIN f THEN f.page ELSE loc[t].page,
            for   |-> IF "for" \in DOMAIN f THEN f.for ELSE loc[t].for,
            bit   |-> IF "bit" \in DOMAIN f THEN f.bit ELSE loc[t].bit,
            byte  |-> IF "byte" \in DOMAIN f THEN f.byte ELSE loc[t].byte,
            frame |-> IF "frame" \in DOMAIN f THEN f.frame ELSE loc[t].frame]
  BY <1>1, SetFacts
<1> QED BY <1>2

(* The actions at which no frame is in hand: sysMalloc, sysFree and the    *)
(* lock before them, vaddrGet and getPage before palloc.                   *)
LEMMA FrameBefore ==
  ASSUME SpaceInv, FrameInv, NEW t \in Thread,
         \/ \E cnt \in 1 .. MaxPages : Malloc(t, cnt)
         \/ \E a \in live[t] : Free(t, a)
         \/ LockPool(t) \/ TooManyPages(t) \/ VaddrGet(t) \/ GetPage(t)
  PROVE  FrameInv'
<1>1. ASSUME NEW f, Set(t, f), "for" \notin DOMAIN f, "pc" \in DOMAIN f,
             UNCHANGED <<pool, pte, table>>, f.pc \notin {"load", "store", "map"},
             loc[t].pc \in {"idle", "lock", "malloc", "stack"}
      PROVE  FrameInv'
  <2>1. loc[t].for = "page"
    BY <1>1 DEF SpaceInv, ControlOK
  <2>2. ~ Holds(t)
    BY <1>1, <2>1 DEF Holds
  <2>3. /\ loc'[t].pc = f.pc /\ loc'[t].for = "page"
        /\ \A u \in Thread : u # t => loc'[u] = loc[u]
    BY <1>1, <2>1, SetFields
  <2> QED BY <1>1, <2>2, <2>3, FrameIdle
<1>2. ASSUME NEW cnt \in 1 .. MaxPages, Malloc(t, cnt)
      PROVE  FrameInv'
  <2> DEFINE f == [pc |-> "lock", op |-> "malloc", cnt |-> cnt]
  <2>1. Set(t, f) /\ loc[t].pc = "idle" /\ UNCHANGED <<pool, pte, table>>
    BY <1>2 DEF Malloc, At
  <2>2. DOMAIN f = {"pc", "op", "cnt"} /\ f.pc = "lock"
    OBVIOUS
  <2> HIDE DEF f
  <2> QED BY <1>1, <2>1, <2>2
<1>3. ASSUME NEW a \in live[t], Free(t, a)
      PROVE  FrameInv'
  <2> DEFINE f == [pc |-> "lock", op |-> "free", start |-> a.start, page |-> a.start,
                   cnt |-> a.cnt]
  <2>1. Set(t, f) /\ loc[t].pc = "idle" /\ UNCHANGED <<pool, pte, table>>
    BY <1>3 DEF Free, At
  <2>2. DOMAIN f = {"pc", "op", "start", "page", "cnt"} /\ f.pc = "lock"
    OBVIOUS
  <2> HIDE DEF f
  <2> QED BY <1>1, <2>1, <2>2
<1>4. CASE LockPool(t)
  <2> DEFINE f == [pc |-> loc[t].op]
  <2>1. Set(t, f) /\ loc[t].pc = "lock" /\ UNCHANGED <<pool, pte, table>>
    BY <1>4 DEF LockPool, At
  <2>2. DOMAIN f = {"pc"} /\ f.pc \in {"malloc", "free", "stack"}
    BY <2>1 DEF SpaceInv, ControlOK
  <2> HIDE DEF f
  <2> QED BY <1>1, <2>1, <2>2
<1>5. CASE VaddrGet(t)
  <2> DEFINE start == bitmapScan(vaddrs[SpaceOf(t)], loc[t].cnt)
             g == [pc |-> "unlock", cnt |-> 0]
             h == [pc |-> "palloc", start |-> start, page |-> start]
  <2>1. (Set(t, g) \/ Set(t, h)) /\ loc[t].pc = "malloc" /\ UNCHANGED <<pool, pte, table>>
    BY <1>5 DEF VaddrGet, At
  <2>2. DOMAIN g = {"pc", "cnt"} /\ g.pc = "unlock"
    OBVIOUS
  <2>3. DOMAIN h = {"pc", "start", "page"} /\ h.pc = "palloc"
    OBVIOUS
  <2> HIDE DEF g, h
  <2> QED BY <1>1, <2>1, <2>2, <2>3
<1>6. CASE GetPage(t)
  <2> DEFINE f == [pc |-> "palloc", start |-> StackPage(t), page |-> StackPage(t),
                   cnt |-> 1]
  <2>1. Set(t, f) /\ loc[t].pc = "stack" /\ UNCHANGED <<pool, pte, table>>
    BY <1>6 DEF GetPage, At
  <2>2. DOMAIN f = {"pc", "start", "page", "cnt"} /\ f.pc = "palloc"
    OBVIOUS
  <2> HIDE DEF f
  <2> QED BY <1>1, <2>1, <2>2
<1>7. CASE TooManyPages(t)
  <2>1. loc[t].pc = "malloc" /\ loc' = loc /\ UNCHANGED <<pool, pte, table>>
    BY <1>7 DEF TooManyPages, At
  <2>2. loc[t].for = "page"
    BY <2>1 DEF SpaceInv, ControlOK
  <2> QED BY <2>1, <2>2, FrameIdle DEF Holds
<1> QED BY <1>2, <1>3, <1>4, <1>5, <1>6, <1>7

(* lockRelease. *)
LEMMA FrameAfter ==
  ASSUME SpaceInv, FrameInv, NEW t \in Thread, UnlockPool(t)
  PROVE  FrameInv'
<1>1. /\ loc[t].pc = "unlock" /\ loc' = [loc EXCEPT ![t] = Idle]
      /\ UNCHANGED <<pool, pte, table>>
  BY DEF UnlockPool, At
<1>2. Idle.pc = "idle"
  BY DEF Idle
<1>3. loc'[t].pc = "idle" /\ \A u \in Thread : u # t => loc'[u] = loc[u]
  BY <1>1, <1>2 DEF SpaceInv, TypeOK
<1> QED BY <1>1, <1>3, FrameIdle DEF Holds

(* palloc: the bit it finds is 0; without one it gives up, or leaves a     *)
(* page directory entry that TableIsFrame does not allow.                  *)
LEMMA FramePalloc ==
  ASSUME SpaceInv, FrameInv, NEW t \in Thread, Palloc(t)
  PROVE  FrameInv'
<1> DEFINE l == loc[t]
           bit == bitmapScan(pool[PoolFor(t)], 1)
<1>1. /\ l.pc = "palloc" /\ UNCHANGED <<pool, pte>>
      /\ IF bit # -1
         THEN Set(t, [pc |-> "load", bit |-> bit]) /\ UNCHANGED table
         ELSE IF l.for = "table"
         THEN table' = [table EXCEPT ![t][Region(l.page)] = PhysZero]
         ELSE /\ IF l.op = "stack" THEN Set(t, [Idle EXCEPT !.pc = "noStack"])
                                   ELSE Set(t, [pc |-> "unlock", cnt |-> 0])
              /\ UNCHANGED table
  BY DEF Palloc, At
<1>2. l.op \in {"malloc", "stack"} /\ (l.for = "table" => t \in Process)
  BY <1>1 DEF SpaceInv, ControlOK
<1>3. PoolFor(t) \in Pool
  BY <1>2, SpaceFacts DEF PoolFor, Pool
<1>4. CASE bit # -1
  <2> DEFINE f == [pc |-> "load", bit |-> bit]
  <2>1. bit \notin pool[PoolFor(t)].used
    <3>1. pool[PoolFor(t)].size \in Nat
      BY <1>3 DEF SpaceInv, TypeOK, BitmapType
    <3>2. \A i \in bit .. bit + 1 - 1 : i \notin pool[PoolFor(t)].used
      BY <1>4, <3>1, ScanFree
    <3>3. bit \in Int
      BY <1>4, <3>1, ScanFree DEF Positions
    <3> QED BY <3>2, <3>3
  <2> HIDE DEF bit
  <2>2. Set(t, f) /\ UNCHANGED <<pool, pte, table>>
    BY <1>1, <1>4
  <2>3. DOMAIN f = {"pc", "bit"} /\ f.pc = "load" /\ f.bit = bit
    OBVIOUS
  <2> HIDE DEF f
  <2>4. /\ loc'[t].pc = "load" /\ loc'[t].op = l.op /\ loc'[t].for = l.for
        /\ loc'[t].bit = bit /\ loc'[t].frame = l.frame
        /\ \A u \in Thread : u # t => loc'[u] = loc[u]
    BY <2>2, <2>3, SetFields
  <2>5. Holds(t)' <=> Holds(t)
    BY <1>1, <2>4 DEF Holds
  <2>6. PoolFor(t)' = PoolFor(t)
    BY <2>4 DEF PoolFor
  <2>7. BitOK(t)'
    BY <1>2, <2>1, <2>2, <2>4, <2>6 DEF BitOK
  <2> QED BY <2>2, <2>4, <2>5, <2>7, FrameKept
<1>5. CASE bit = -1 /\ l.for = "table"
  <2>1. t \in Process /\ Region(l.page) \in Regions
    <3>1. Working(t) /\ t \in Process /\ SpaceOf(t) = t
      BY <1>1, <1>2, <1>5, SpaceFacts DEF Working
    <3>2. l.page \in Page(t)
      BY <3>1, ClaimPages
    <3>3. t # Kernel
      BY <3>1, SpaceFacts
    <3>4. Page(t) = 0 .. UserVaddrBytes * ByteBits - 1
      BY <3>1, <3>3, SpaceFacts DEF Page, VaddrBytes
    <3> QED BY <3>1, <3>2, <3>4 DEF Regions
  <2>2. table'[t][Region(l.page)] = PhysZero
    BY <1>1, <1>5, <2>1 DEF SpaceInv, TypeOK
  <2>3. DOMAIN table'[t] = Regions
    BY <1>1, <1>5, <2>1 DEF SpaceInv, TypeOK
  <2>4. <<t, Region(l.page)>> \in Tables'
    BY <2>1, <2>2, <2>3, SpaceFacts DEF Tables
  <2> QED BY <2>2, <2>4 DEF FrameInv, TableIsFrame
<1>6. CASE bit = -1 /\ l.for # "table"
  <2>1. ~ Holds(t) /\ UNCHANGED <<pool, pte, table>>
    BY <1>1, <1>6 DEF Holds
  <2>2. CASE l.op = "stack"
    <3> DEFINE f == [Idle EXCEPT !.pc = "noStack"]
    <3>1. Set(t, f) /\ "pc" \in DOMAIN f /\ f.pc = "noStack"
      BY <1>1, <1>6, <2>2 DEF Idle
    <3> HIDE DEF f
    <3> QED BY <2>1, <3>1, SetFields, FrameIdle
  <2>3. CASE l.op # "stack"
    <3> DEFINE f == [pc |-> "unlock", cnt |-> 0]
    <3>1. Set(t, f) /\ DOMAIN f = {"pc", "cnt"} /\ f.pc = "unlock"
      BY <1>1, <1>6, <2>3
    <3> HIDE DEF f
    <3> QED BY <2>1, <3>1, SetFields, FrameIdle
  <2> QED BY <2>2, <2>3
<1> QED BY <1>4, <1>5, <1>6

(* The load of bitmapSet. *)
LEMMA FrameLoad ==
  ASSUME SpaceInv, FrameInv, NEW t \in Thread, SetLoad(t)
  PROVE  FrameInv'
<1> DEFINE l == loc[t]
           byte == pool[PoolFor(t)].used \cap ByteOf(l.bit)
           f == [pc |-> "store", byte |-> byte]
<1>1. Set(t, f) /\ l.pc = "load" /\ UNCHANGED <<pool, pte, table>>
  BY DEF SetLoad, At
<1> HIDE DEF byte
<1>2. DOMAIN f = {"pc", "byte"} /\ f.pc = "store" /\ f.byte = byte
  OBVIOUS
<1> HIDE DEF f
<1>3. /\ loc'[t].pc = "store" /\ loc'[t].op = l.op /\ loc'[t].for = l.for
      /\ loc'[t].bit = l.bit /\ loc'[t].frame = l.frame /\ loc'[t].byte = byte
      /\ loc'[t].page = l.page
      /\ \A u \in Thread : u # t => loc'[u] = loc[u]
  BY <1>1, <1>2, SetFields
<1>4. Holds(t)' <=> Holds(t)
  BY <1>1, <1>3 DEF Holds
<1>5. PoolFor(t)' = PoolFor(t)
  BY <1>3 DEF PoolFor
<1>6. BitOK(t) => BitOK(t)'
  BY <1>1, <1>3, <1>5 DEF BitOK, byte
<1> QED BY <1>1, <1>3, <1>4, <1>6, FrameKept

(* mfreePage finds the frame of the page. *)
LEMMA FramePfree ==
  ASSUME SpaceInv, FrameInv, NEW t \in Thread, Pfree(t)
  PROVE  FrameInv'
<1> DEFINE l == loc[t]
           s == SpaceOf(t)
           frame == pte[s][l.page]
           f == [pc |-> "load", frame |-> frame, bit |-> frame[2]]
<1>1. l.pc = "free" /\ UNCHANGED <<pool, pte, table>>
  BY DEF Pfree, At
<1>2. l.op = "free" /\ l.for = "page" /\ Working(t)
  BY <1>1 DEF SpaceInv, ControlOK, Working
<1>3. l.page \in PagesOf(Claim(t)) /\ l.page \in Page(s) /\ s \in Space
  BY <1>2, ClaimPages
<1>4. Mapped(s, l.page)
  BY <1>2, <1>3, ClaimPages DEF SpaceInv, Claimed, Progress
<1>5. frame \in Frame /\ frame[1] = PoolOf(t)
  BY <1>3, <1>4, SpaceFacts DEF SpaceInv, TypeOK, RightPool, Mapped, Frame
<1>6. panic' = "none"
  BY <1>4, <1>5 DEF Pfree, Mapped
<1>7. Set(t, f)
  BY <1>6 DEF Pfree
<1> HIDE DEF frame
<1>8. /\ DOMAIN f = {"pc", "frame", "bit"}
      /\ f.pc = "load" /\ f.frame = frame /\ f.bit = frame[2]
  OBVIOUS
<1> HIDE DEF f
<1>9. /\ loc'[t].pc = "load" /\ loc'[t].op = "free" /\ loc'[t].for = "page"
      /\ loc'[t].bit = frame[2] /\ loc'[t].frame = frame /\ loc'[t].page = l.page
      /\ \A u \in Thread : u # t => loc'[u] = loc[u]
  BY <1>2, <1>7, <1>8, SetFields
<1>10. ~ Holds(t) /\ ~ Holds(t)'
  BY <1>1, <1>9 DEF Holds
<1>11. frame = <<PoolOf(t), frame[2]>>
  BY <1>5 DEF Frame
<1>12. pte'[s][loc'[t].page] = loc'[t].frame
  BY <1>1, <1>9 DEF frame
<1>13. BitOK(t)'
  BY <1>9, <1>11, <1>12 DEF BitOK
<1> QED BY <1>1, <1>9, <1>10, <1>13, FrameKept

(* A place, written out. *)
LEMMA PlaceIs ==
  ASSUME NEW x \in {"pte", "table", "held"} \X (Space \cup Thread) \X Int
  PROVE  x \in Places <=>
           \/ x[1] = "pte" /\ x[2] \in Space /\ x[3] \in Page(x[2])
              /\ pte[x[2]][x[3]] # NULL
           \/ x[1] = "table" /\ x[2] \in Process /\ x[3] \in Regions
              /\ table[x[2]][x[3]] # NULL
           \/ x[1] = "held" /\ x[2] \in Thread /\ x[3] = 0 /\ Holds(x[2])
  BY DEF Places

(* Nobody else is between the load and the store of bitmapSet. *)
LEMMA BitsOfOthers ==
  ASSUME SpaceInv, Alone, NEW t \in Thread, Inside(t),
         \A u \in Thread : u # t => loc'[u] = loc[u],
         loc'[t].pc \notin {"load", "store"}
  PROVE  \A u \in Thread : BitOK(u)'
<1> SUFFICES ASSUME NEW u \in Thread, loc'[u].pc \in {"load", "store"}
             PROVE  FALSE
  BY DEF BitOK
<1>1. u # t /\ loc[u].pc \in {"load", "store"}
  OBVIOUS
<1> QED BY <1>1, OneInside DEF Inside

(* The store of bitmapSet of palloc takes one frame from its pool. *)
LEMMA StoreTakes ==
  ASSUME SpaceInv, NEW t \in Thread, PallocStore(t), BitOK(t)
  PROVE  LET got == <<PoolFor(t), loc[t].bit>>
         IN  got \in Frame /\ got \notin Bits /\ Bits' = Bits \cup {got}
<1> DEFINE q == PoolFor(t)
           bit == loc[t].bit
<1>1. Stored(t, loc[t].byte \cup {bit}) /\ loc[t].pc = "store" /\ loc[t].op # "free"
  BY DEF PallocStore, At
<1>2. bit \in Nat /\ q \in Pool
  BY <1>1, SpaceFacts DEF SpaceInv, ControlOK, PoolFor, Pool
<1>3. /\ loc[t].byte = pool[q].used \cap ByteOf(bit)
      /\ bit \notin pool[q].used
  BY <1>1 DEF BitOK
<1>4. loc[t].byte \cup {bit} \in SUBSET Int
  BY <1>2 DEF SpaceInv, TypeOK, Locals
<1>5. /\ \A p \in Pool : p # q => pool'[p] = pool[p]
      /\ pool'[q].used = (pool[q].used \ ByteOf(bit)) \cup (loc[t].byte \cup {bit})
  BY <1>1, <1>2, <1>4, StoredType DEF SpaceInv
<1>6. pool'[q].used = pool[q].used \cup {bit}
  BY <1>3, <1>5
<1> HIDE DEF q, bit
<1>7. Bits' = Bits \cup {<<q, bit>>}
  BY <1>2, <1>5, <1>6 DEF Bits
<1>8. <<q, bit>> \notin Bits
  BY <1>2, <1>3 DEF Bits
<1> QED BY <1>2, <1>7, <1>8 DEF Frame, q, bit

(* palloc has taken a frame: it is at the page table's entry, or in the    *)
(* hands of the thread.                                                    *)
LEMMA FrameStore ==
  ASSUME SpaceInv, Alone, FrameInv, NEW t \in Thread, PallocStore(t)
  PROVE  FrameInv'
<1> DEFINE l == loc[t]
           got == <<PoolFor(t), l.bit>>
<1>1. PICK r : r = Region(l.page)
  OBVIOUS
<1>2. /\ l.pc = "store" /\ UNCHANGED pte
      /\ IF l.for = "table"
         THEN /\ table' = [table EXCEPT ![t][r] = got]
              /\ Set(t, [pc |-> "map", byte |-> {}])
         ELSE /\ Set(t, [pc |-> "map", byte |-> {}, frame |-> got])
              /\ UNCHANGED table
  BY <1>1 DEF PallocStore, At
<1>3. SpaceInv'
  BY PallocStoreStep
<1>4. l.for = "table" => /\ t \in Process /\ table[t][r] = NULL
                         /\ r \in Regions
  <2> SUFFICES ASSUME l.for = "table"
               PROVE  t \in Process /\ table[t][r] = NULL /\ r \in Regions
    OBVIOUS
  <2>1. t \in Process /\ table[t][r] = NULL
    BY <1>1, <1>2 DEF SpaceInv, ControlOK
  <2>2. l.page \in Page(t) /\ t # Kernel /\ t \in Space
    BY <1>2, <2>1, ClaimPages, SpaceFacts DEF Working
  <2>3. Page(t) = 0 .. UserVaddrBytes * ByteBits - 1
    BY <2>2 DEF Page, VaddrBytes
  <2> QED BY <1>1, <2>1, <2>2, <2>3 DEF Regions
<1>5. /\ l.for = "table" =>
           /\ table'[t][r] = got
           /\ \A s \in Process, i \in Regions :
                ~ (s = t /\ i = r) => table'[s][i] = table[s][i]
      /\ l.for # "table" => table' = table
  BY <1>2, <1>4 DEF SpaceInv, TypeOK
<1>6. TableIsFrame' => TableIsFrame
  <2> SUFFICES ASSUME NEW s \in Process, NEW i \in Regions, table[s][i] = PhysZero
               PROVE  ~ TableIsFrame'
    BY PlaceFacts
  <2>1. table'[s][i] = PhysZero
    BY <1>4, <1>5, SpaceFacts
  <2>2. <<s, i>> \in Tables'
    BY <1>3, <2>1, SpaceFacts DEF SpaceInv, TypeOK, Tables
  <2> QED BY <2>1, <2>2 DEF TableIsFrame
<1> SUFFICES ASSUME TableIsFrame'
             PROVE  Owned' /\ \A u \in Thread : BitOK(u)'
  BY DEF FrameInv
<1>7. Owned /\ BitOK(t)
  BY <1>6 DEF FrameInv
<1>8. got \in Frame /\ got \notin Bits /\ Bits' = Bits \cup {got}
  BY <1>7, StoreTakes
<1>9. got # NULL
  BY <1>8, SpaceFacts
<1> HIDE DEF got
<1>10. /\ loc'[t].pc = "map"
       /\ loc'[t].frame = IF l.for = "table" THEN l.frame ELSE got
       /\ \A u \in Thread : u # t => loc'[u] = loc[u]
  <2>1. CASE l.for = "table"
    <3> DEFINE f == [pc |-> "map", byte |-> {}]
    <3>1. Set(t, f) /\ DOMAIN f = {"pc", "byte"} /\ f.pc = "map"
      BY <1>2, <2>1
    <3> HIDE DEF f
    <3> QED BY <2>1, <3>1, SetFields
  <2>2. CASE l.for # "table"
    <3> DEFINE f == [pc |-> "map", byte |-> {}, frame |-> got]
    <3>1. /\ Set(t, f) /\ DOMAIN f = {"pc", "byte", "frame"} /\ f.pc = "map"
          /\ f.frame = got
      BY <1>2, <2>2
    <3> HIDE DEF f
    <3> QED BY <2>2, <3>1, SetFields
  <2> QED BY <2>1, <2>2
<1>11. /\ Holds(t)' /\ (Holds(t) <=> l.for = "table")
       /\ \A u \in Thread : u # t => (Holds(u)' <=> Holds(u))
  BY <1>2, <1>10 DEF Holds
<1>12. \A u \in Thread : BitOK(u)'
  BY <1>2, <1>10, BitsOfOthers DEF Inside
<1>13. CASE l.for = "table"
  <2> DEFINE x == <<"table", t, r>>
  <2>1. x \in {"pte", "table", "held"} \X (Space \cup Thread) \X Int
    BY <1>4, <1>13, SpaceFacts, ByteAssumption, PagesAssumption DEF Regions, Region
  <2>2. ASSUME NEW y \in {"pte", "table", "held"} \X (Space \cup Thread) \X Int
        PROVE  y \in Places' <=> y \in Places \/ y = x
    <3>1. CASE y[1] = "pte"
      BY <1>2, <3>1 DEF Places
    <3>2. CASE y[1] = "table"
      BY <1>4, <1>5, <1>9, <1>13, <3>2 DEF Places
    <3>3. CASE y[1] = "held"
      BY <1>11, <1>13, <3>3 DEF Places
    <3> QED BY <3>1, <3>2, <3>3
  <2>3. Places' = Places \cup {x}
    BY <2>1, <2>2 DEF Places
  <2>4. ASSUME NEW y \in Places PROVE FrameAt(y)' = FrameAt(y)
    <3>1. CASE y[1] = "pte"
      BY <1>2, <3>1 DEF FrameAt
    <3>2. CASE y[1] = "table"
      BY <1>4, <1>5, <1>13, <2>4, <3>2 DEF FrameAt, Places
    <3>3. CASE y[1] = "held"
      BY <1>10, <1>13, <2>4, <3>3 DEF FrameAt, Places
    <3> QED BY <2>4, <3>1, <3>2, <3>3 DEF Places
  <2>5. FrameAt(x)' = got
    BY <1>5, <1>13 DEF FrameAt
  <2> HIDE DEF x
  <2> QED BY <1>7, <1>8, <1>12, <2>3, <2>4, <2>5, OwnedGrows
<1>14. CASE l.for # "table"
  <2> DEFINE x == <<"held", t, 0>>
  <2>1. x \in {"pte", "table", "held"} \X (Space \cup Thread) \X Int
    OBVIOUS
  <2>2. ASSUME NEW y \in {"pte", "table", "held"} \X (Space \cup Thread) \X Int
        PROVE  y \in Places' <=> y \in Places \/ y = x
    BY <1>2, <1>5, <1>11, <1>14 DEF Places
  <2>3. Places' = Places \cup {x}
    BY <2>1, <2>2 DEF Places
  <2>4. ASSUME NEW y \in Places PROVE FrameAt(y)' = FrameAt(y)
    BY <1>2, <1>5, <1>10, <1>11, <1>14, <2>4 DEF FrameAt, Places
  <2>5. FrameAt(x)' = got
    <3>1. loc'[t].frame = got
      BY <1>10, <1>14
    <3> QED BY <3>1 DEF FrameAt
  <2> HIDE DEF x
  <2> QED BY <1>7, <1>8, <1>12, <2>3, <2>4, <2>5, OwnedGrows
<1> QED BY <1>13, <1>14

(* pageTableAdd: the page table is missing, or the frame goes to its page. *)
LEMMA FrameMap ==
  ASSUME SpaceInv, Alone, FrameInv, NEW t \in Thread, PageTableAdd(t)
  PROVE  FrameInv'
<1> DEFINE l == loc[t]
           s == SpaceOf(t)
<1>1. PICK page : page = l.page
  OBVIOUS
<1>2. l.pc = "map" /\ UNCHANGED <<pool, table>>
  BY DEF PageTableAdd, At
<1>3. Working(t) /\ Holds(t) /\ Inside(t)
  BY <1>2 DEF Working, Holds, Inside
<1>4. CASE s # Kernel /\ table[s][Region(page)] = NULL
  <2> DEFINE f == [pc |-> "palloc", for |-> "table"]
  <2>1. Set(t, f) /\ UNCHANGED <<pool, pte, table>>
    BY <1>1, <1>4 DEF PageTableAdd
  <2>2. DOMAIN f = {"pc", "for"} /\ f.pc = "palloc" /\ f.for = "table"
    OBVIOUS
  <2> HIDE DEF f
  <2>3. /\ loc'[t].pc = "palloc" /\ loc'[t].for = "table" /\ loc'[t].frame = l.frame
        /\ \A u \in Thread : u # t => loc'[u] = loc[u]
    BY <2>1, <2>2, SetFields
  <2>4. Holds(t)' /\ BitOK(t)'
    BY <2>3 DEF Holds, BitOK
  <2> QED BY <1>3, <2>1, <2>3, <2>4, FrameKept
<1>5. CASE ~ (s # Kernel /\ table[s][Region(page)] = NULL)
  <2> DEFINE last == page + 1 = l.start + l.cnt
             g == [pc |-> "unlock"]
             h == [pc |-> "palloc", for |-> "page", page |-> page + 1]
             x == <<"pte", s, page>>
             y == <<"held", t, 0>>
  <2>1. /\ pte' = [pte EXCEPT ![s][page] = l.frame]
        /\ Set(t, IF last THEN g ELSE h)
    BY <1>1, <1>5 DEF PageTableAdd
  <2>2. s \in Space /\ page \in Page(s) /\ page \in Int
    BY <1>1, <1>3, ClaimPages
  <2>3. pte[s][page] = NULL
    BY <1>1, <1>2, <1>3, ClaimPages DEF SpaceInv, Claimed, Progress, Mapped, ControlOK
  <2>4. l.frame # NULL
    BY <1>2, SpaceFacts DEF SpaceInv, ControlOK, Frame
  <2>5. /\ loc'[t].pc \notin {"map", "load", "store"}
        /\ loc'[t].pc = "palloc" => loc'[t].for = "page"
        /\ \A u \in Thread : u # t => loc'[u] = loc[u]
    <3>1. DOMAIN g = {"pc"} /\ g.pc = "unlock"
      OBVIOUS
    <3>2. DOMAIN h = {"pc", "for", "page"} /\ h.pc = "palloc" /\ h.for = "page"
      OBVIOUS
    <3>3. CASE last
      <4>1. Set(t, g)
        BY <2>1, <3>3
      <4> HIDE DEF g
      <4> QED BY <3>1, <4>1, SetFields
    <3>4. CASE ~ last
      <4>1. Set(t, h)
        BY <2>1, <3>4
      <4> HIDE DEF h
      <4> QED BY <3>2, <4>1, SetFields
    <3> QED BY <3>3, <3>4
  <2>6. /\ ~ Holds(t)'
        /\ \A u \in Thread : u # t => (Holds(u)' <=> Holds(u))
    BY <2>5 DEF Holds
  <2>7. \A u \in Thread : BitOK(u)'
    BY <1>3, <2>5, BitsOfOthers
  <2> SUFFICES ASSUME TableIsFrame'
               PROVE  Owned'
    BY <2>7 DEF FrameInv
  <2>8. TableIsFrame
    BY <1>2 DEF TableIsFrame, Tables
  <2>9. Owned
    BY <2>8 DEF FrameInv
  <2>10. /\ pte'[s][page] = l.frame
         /\ \A v \in Space : \A p \in Page(v) :
              ~ (v = s /\ p = page) => pte'[v][p] = pte[v][p]
    BY <2>1, <2>2 DEF SpaceInv, TypeOK
  <2>11. /\ x \in {"pte", "table", "held"} \X (Space \cup Thread) \X Int
         /\ y \in {"pte", "table", "held"} \X (Space \cup Thread) \X Int
    BY <2>2
  <2>12. ASSUME NEW z \in {"pte", "table", "held"} \X (Space \cup Thread) \X Int
         PROVE  z \in Places' <=> (z \in Places /\ z # y) \/ z = x
    <3>1. CASE z[1] = "pte"
      BY <2>2, <2>4, <2>10, <3>1 DEF Places
    <3>2. CASE z[1] = "table"
      BY <1>2, <3>2 DEF Places
    <3>3. CASE z[1] = "held"
      BY <2>6, <3>3 DEF Places
    <3> QED BY <3>1, <3>2, <3>3
  <2>13. Places' = (Places \ {y}) \cup {x}
    BY <2>11, <2>12 DEF Places
  <2>14. y \in Places /\ x \notin Places
    BY <1>3, <2>3, <2>11 DEF Places
  <2>15. ASSUME NEW z \in Places \ {y} PROVE FrameAt(z)' = FrameAt(z)
    <3>1. CASE z[1] = "pte"
      BY <2>3, <2>10, <2>15, <3>1 DEF FrameAt, Places
    <3>2. CASE z[1] = "table"
      BY <1>2, <3>2 DEF FrameAt
    <3>3. CASE z[1] = "held"
      BY <2>5, <2>15, <3>3 DEF FrameAt, Places
    <3> QED BY <2>15, <3>1, <3>2, <3>3 DEF Places
  <2>16. FrameAt(x)' = FrameAt(y)
    BY <2>10 DEF FrameAt
  <2>17. Bits' = Bits
    BY <1>2 DEF Bits
  <2> HIDE DEF x, y
  <2> QED BY <2>9, <2>13, <2>14, <2>15, <2>16, <2>17, OwnedMoves
<1> QED BY <1>4, <1>5

(* A bit is in its byte. *)
LEMMA BitInByte ==
  ASSUME NEW bit \in Nat
  PROVE  bit \in ByteOf(bit)
<1> DEFINE first == (bit \div ByteBits) * ByteBits
<1>1. /\ bit \div ByteBits \in Int /\ first \in Int
      /\ first <= bit /\ bit < first + ByteBits
  BY ByteAssumption
<1> HIDE DEF first
<1> QED BY <1>1, ByteAssumption DEF ByteOf, first

(* mfreePage clears the bit and the mapping of one frame. *)
LEMMA FrameFree ==
  ASSUME SpaceInv, Alone, FrameInv, NEW t \in Thread, PfreeStore(t)
  PROVE  FrameInv'
<1> DEFINE l == loc[t]
           s == SpaceOf(t)
           q == PoolFor(t)
           bit == l.bit
<1>1. PICK page : page = l.page
  OBVIOUS
<1> DEFINE last == page + 1 = l.start + l.cnt
           g == [pc |-> "unlock"]
           h == [pc |-> "free", page |-> page + 1]
           x == <<"pte", s, page>>
<1>2. /\ l.pc = "store" /\ l.op = "free"
      /\ Stored(t, l.byte \ {bit})
      /\ pte' = [pte EXCEPT ![s][page] = NULL]
      /\ Set(t, IF last THEN g ELSE h)
      /\ UNCHANGED table
  BY <1>1 DEF PfreeStore, At
<1>3. /\ Working(t) /\ Inside(t) /\ ~ Holds(t) /\ l.for = "page" /\ bit \in Nat
      /\ l.frame \in {PoolOf(t)} \X Nat
  BY <1>2 DEF SpaceInv, ControlOK, Working, Inside, Holds
<1>4. s \in Space /\ page \in Page(s) /\ page \in Int
  BY <1>1, <1>3, ClaimPages
<1>5. /\ loc'[t].pc \notin {"map", "load", "store", "palloc"}
      /\ \A u \in Thread : u # t => loc'[u] = loc[u]
  <2>1. DOMAIN g = {"pc"} /\ g.pc = "unlock"
    OBVIOUS
  <2>2. DOMAIN h = {"pc", "page"} /\ h.pc = "free"
    OBVIOUS
  <2>3. CASE last
    <3>1. Set(t, g)
      BY <1>2, <2>3
    <3> HIDE DEF g
    <3> QED BY <2>1, <3>1, SetFields
  <2>4. CASE ~ last
    <3>1. Set(t, h)
      BY <1>2, <2>4
    <3> HIDE DEF h
    <3> QED BY <2>2, <3>1, SetFields
  <2> QED BY <2>3, <2>4
<1>6. \A u \in Thread : Holds(u)' <=> Holds(u)
  BY <1>3, <1>5 DEF Holds
<1>7. \A u \in Thread : BitOK(u)'
  BY <1>3, <1>5, BitsOfOthers
<1> SUFFICES ASSUME TableIsFrame'
             PROVE  Owned'
  BY <1>7 DEF FrameInv
<1>8. TableIsFrame
  BY <1>2 DEF TableIsFrame, Tables
<1>9. Owned /\ BitOK(t)
  BY <1>8 DEF FrameInv
<1>10. /\ l.frame = <<PoolOf(t), bit>> /\ pte[s][page] = l.frame
       /\ l.byte = pool[q].used \cap ByteOf(bit)
  BY <1>1, <1>2, <1>9 DEF BitOK
<1>11. q = PoolOf(t) /\ q \in Pool
  BY <1>2, <1>3, <1>10, SpaceFacts DEF PoolFor
<1>12. Bits' = Bits \ {l.frame}
  <2>1. l.byte \ {bit} \in SUBSET Int
    BY DEF SpaceInv, TypeOK, Locals
  <2>2. /\ \A p \in Pool : p # q => pool'[p] = pool[p]
        /\ pool'[q].used = (pool[q].used \ ByteOf(bit)) \cup (l.byte \ {bit})
    BY <1>2, <1>11, <2>1, StoredType DEF SpaceInv
  <2>3. bit \in ByteOf(bit)
    BY <1>3, BitInByte
  <2>4. pool'[q].used = pool[q].used \ {bit}
    BY <1>10, <2>2, <2>3
  <2>5. l.frame = <<q, bit>>
    BY <1>10, <1>11
  <2> HIDE DEF q, l, bit
  <2> QED BY <1>11, <2>2, <2>4, <2>5 DEF Bits
<1>13. l.frame # NULL
  BY <1>3, SpaceFacts DEF Frame
<1>14. /\ pte'[s][page] = NULL
       /\ \A v \in Space : \A p \in Page(v) :
            ~ (v = s /\ p = page) => pte'[v][p] = pte[v][p]
  BY <1>2, <1>4 DEF SpaceInv, TypeOK
<1>15. x \in {"pte", "table", "held"} \X (Space \cup Thread) \X Int
  BY <1>4
<1>16. ASSUME NEW z \in {"pte", "table", "held"} \X (Space \cup Thread) \X Int
       PROVE  z \in Places' <=> z \in Places /\ z # x
  <2>1. CASE z[1] = "pte"
    BY <1>4, <1>14, <2>1 DEF Places
  <2>2. CASE z[1] = "table"
    BY <1>2, <2>2 DEF Places
  <2>3. CASE z[1] = "held"
    BY <1>6, <2>3 DEF Places
  <2> QED BY <2>1, <2>2, <2>3
<1>17. Places' = Places \ {x}
  BY <1>15, <1>16 DEF Places
<1>18. x \in Places /\ FrameAt(x) = l.frame
  BY <1>4, <1>10, <1>13, <1>15 DEF Places, FrameAt
<1>19. ASSUME NEW z \in Places' PROVE FrameAt(z)' = FrameAt(z)
  <2>1. z \in Places /\ z # x
    BY <1>17, <1>19
  <2>2. CASE z[1] = "pte"
    BY <1>14, <2>1, <2>2 DEF FrameAt, Places
  <2>3. CASE z[1] = "table"
    BY <1>2, <2>3 DEF FrameAt
  <2>4. CASE z[1] = "held"
    <3>1. z[2] \in Thread /\ Holds(z[2]) /\ z[2] # t
      BY <1>3, <2>1, <2>4 DEF Places
    <3> QED BY <1>5, <2>4, <3>1 DEF FrameAt
  <2> QED BY <2>1, <2>2, <2>3, <2>4 DEF Places
<1>20. l.frame \in Bits
  <2>1. l.frame \in Frame
    BY <1>3, SpaceFacts DEF Frame
  <2> QED BY <1>9, <1>18, <2>1 DEF Owned
<1> HIDE DEF x, l
<1> QED BY <1>9, <1>12, <1>17, <1>18, <1>19, <1>20, OwnedShrinks

(* At the start no frame is in use and no bit is set. *)
LEMMA InitFrames == Init => FrameInv
<1> SUFFICES ASSUME Init PROVE Owned /\ \A t \in Thread : BitOK(t)
  BY DEF FrameInv
<1>1. \A t \in Thread : loc[t].pc \in {"unborn", "idle", "lock"}
  BY DEF Init, Idle
<1>2. \A t \in Thread : ~ Holds(t) /\ BitOK(t)
  BY <1>1 DEF Holds, BitOK
<1>3. \A q \in Pool : pool[q].used = {}
  BY DEF Init, bitmapInit
<1>4. Bits = {}
  BY <1>3 DEF Bits
<1>5. \A s \in Space : \A p \in Page(s) : pte[s][p] = NULL
  BY DEF Init
<1>6. \A s \in Process : \A r \in Regions : table[s][r] = NULL
  <2> SUFFICES ASSUME NEW s \in Process, NEW r \in Regions
               PROVE  table[s][r] = NULL
    OBVIOUS
  <2>1. table[s] = [i \in {Region(p) : p \in Page(s)} |-> NULL]
    BY DEF Init
  <2>2. Page(s) = 0 .. UserVaddrBytes * ByteBits - 1
    BY SpaceFacts DEF Page, VaddrBytes
  <2> QED BY <2>1, <2>2 DEF Regions
<1>7. Places = {}
  BY <1>2, <1>5, <1>6 DEF Places
<1> QED BY <1>2, <1>4, <1>7 DEF Owned

(* Every step keeps each frame at one place. *)
LEMMA FrameStep ==
  ASSUME SpaceInv, Alone, FrameInv, [Next]_vars
  PROVE  FrameInv'
<1>1. CASE UNCHANGED vars
  <2>1. \A t \in Thread : BitOK(t)' = BitOK(t) /\ Holds(t)' = Holds(t)
    BY <1>1 DEF vars, BitOK, PoolFor, Holds
  <2>2. Places' = Places /\ Bits' = Bits /\ TableIsFrame' = TableIsFrame
    BY <1>1, <2>1 DEF vars, Places, Bits, TableIsFrame, Tables
  <2>3. \A x \in Places : FrameAt(x)' = FrameAt(x)
    BY <1>1 DEF vars, FrameAt
  <2> QED BY <2>1, <2>2, <2>3, OwnedKept DEF FrameInv
<1>2. CASE Next
  BY <1>2, FrameBefore, FrameAfter, FramePalloc, FrameLoad, FramePfree, FrameStore,
     FrameMap, FrameFree DEF Next, Step
<1> QED BY <1>1, <1>2

(* Frames are at one place each and the pools' bits are those of the       *)
(* frames in use, as long as page directories hold frames.                 *)
LEMMA FrameInvariant ==
  ASSUME OneKindRuns
  PROVE  Spec => []FrameInv
<1>1. Spec => []Alone
  BY AloneInvariant
<1> QED BY <1>1, InitFrames, FrameStep, SpaceInvariant, PTL DEF Spec

(* A frame is one page's or one page table's. *)
LEMMA OwnedOnce ==
  ASSUME SpaceInv, Owned, TableIsFrame
  PROVE  FrameOnce
<1>1. \A m \in Mapping : <<"pte", m[1], m[2]>> \in Places
  <2> SUFFICES ASSUME NEW s \in Space, NEW p \in Page(s), pte[s][p] # NULL
               PROVE  <<"pte", s, p>> \in Places
    BY DEF Mapping
  <2>1. p \in Int
    BY SpaceFacts
  <2> QED BY <2>1 DEF Places
<1>2. \A u \in Tables : <<"table", u[1], u[2]>> \in Places
  <2> SUFFICES ASSUME NEW s \in Process, NEW r \in Regions, table[s][r] # NULL
               PROVE  <<"table", s, r>> \in Places
    BY PlaceFacts DEF Tables
  <2>1. r \in Int
    BY ByteAssumption, PagesAssumption DEF Regions, Region
  <2> QED BY <2>1, SpaceFacts DEF Places
<1>3. \A m \in Mapping : m = <<m[1], m[2]>>
        /\ FrameAt(<<"pte", m[1], m[2]>>) = pte[m[1]][m[2]]
  BY DEF Mapping, FrameAt
<1>4. \A u \in Tables :
        u = <<u[1], u[2]>> /\ FrameAt(<<"table", u[1], u[2]>>) = table[u[1]][u[2]]
  BY DEF Tables, FrameAt
<1>5. ASSUME NEW m \in Mapping, NEW n \in Mapping, pte[m[1]][m[2]] = pte[n[1]][n[2]]
      PROVE  m = n
  <2> DEFINE x == <<"pte", m[1], m[2]>>
             y == <<"pte", n[1], n[2]>>
  <2>1. x \in Places /\ y \in Places /\ FrameAt(x) = FrameAt(y)
    BY <1>1, <1>3, <1>5
  <2> HIDE DEF x, y
  <2>2. x = y
    BY <2>1 DEF Owned
  <2> QED BY <1>3, <2>2 DEF x, y
<1>6. ASSUME NEW u \in Tables, NEW v \in Tables, table[u[1]][u[2]] = table[v[1]][v[2]]
      PROVE  u = v
  <2> DEFINE x == <<"table", u[1], u[2]>>
             y == <<"table", v[1], v[2]>>
  <2>1. x \in Places /\ y \in Places /\ FrameAt(x) = FrameAt(y)
    BY <1>2, <1>4, <1>6
  <2> HIDE DEF x, y
  <2>2. x = y
    BY <2>1 DEF Owned
  <2> QED BY <1>4, <2>2 DEF x, y
<1>7. ASSUME NEW m \in Mapping, NEW u \in Tables
      PROVE  pte[m[1]][m[2]] # table[u[1]][u[2]]
  <2> DEFINE x == <<"pte", m[1], m[2]>>
             y == <<"table", u[1], u[2]>>
  <2>1. /\ x \in Places /\ y \in Places /\ x # y
        /\ FrameAt(x) = pte[m[1]][m[2]] /\ FrameAt(y) = table[u[1]][u[2]]
    BY <1>1, <1>2, <1>3, <1>4
  <2> HIDE DEF x, y
  <2> QED BY <2>1 DEF Owned
<1> QED BY <1>5, <1>6, <1>7 DEF FrameOnce

(* Between calls the pages of an address space are a thread's or lost. *)
LEMMA PagesAccounted ==
  ASSUME SpaceInv, \A t \in Thread : loc[t].pc \in {"unborn", "idle", "lock", "noStack"},
         NEW s \in Space, NEW p \in Page(s)
  PROVE  /\ bitmapTest(vaddrs[s], p) <=> Belongs(s, p) \/ p \in lost[s].marked
         /\ pte[s][p] # NULL <=> Belongs(s, p) \/ p \in lost[s].mapped
<1>1. ASSUME NEW t \in Thread
      PROVE  /\ Claims(t) = Has(t)
             /\ Working(t) => \A q \in PagesOf(Claim(t)) : Mapped(SpaceOf(t), q)
  <2>1. /\ loc[t].pc \in {"unborn", "idle", "lock", "noStack"}
        /\ ControlOK(t)
    BY DEF SpaceInv
  <2>2. Working(t) <=> loc[t].op = "free"
    BY <2>1 DEF ControlOK, Working
  <2>3. Claims(t) = Has(t)
    BY <2>2 DEF Claims, Has, Claim
  <2>4. ASSUME Working(t), NEW q \in PagesOf(Claim(t)) PROVE Mapped(SpaceOf(t), q)
    <3>1. loc[t].pc = "lock" /\ loc[t].op = "free" /\ loc[t].page = loc[t].start
      BY <2>1, <2>2, <2>4 DEF ControlOK
    <3>2. q >= loc[t].page
      BY <2>4, <3>1, ClaimPages
    <3> QED BY <2>4, <3>1, <3>2 DEF SpaceInv, Claimed, Progress
  <2> QED BY <2>3, <2>4
<1>2. ClaimedPage(s, p) <=> Belongs(s, p)
  BY <1>1 DEF ClaimedPage, Belongs
<1>3. ClaimedPage(s, p) => p \in vaddrs[s].used /\ Mapped(s, p)
  <2> SUFFICES ASSUME NEW t \in Thread, SpaceOf(t) = s, NEW a \in Claims(t), p \in PagesOf(a)
               PROVE  p \in vaddrs[s].used /\ Mapped(s, p)
    BY DEF ClaimedPage
  <2>1. p \in vaddrs[s].used
    BY DEF SpaceInv, Claimed, ClaimsUsed
  <2>2. CASE a \in live[t]
    BY <2>1, <2>2 DEF SpaceInv, Claimed, LivesMapped
  <2>3. CASE a \notin live[t]
    <3>1. Working(t) /\ a = Claim(t)
      BY <2>3 DEF Claims
    <3> QED BY <1>1, <2>1, <3>1
  <2> QED BY <2>2, <2>3
<1>4. p \in vaddrs[s].used <=> ClaimedPage(s, p) \/ p \in lost[s].marked
  BY <1>3 DEF SpaceInv, LostKnown
<1>5. Mapped(s, p) <=> ClaimedPage(s, p) \/ p \in lost[s].mapped
  BY <1>3, <1>4 DEF SpaceInv, LostKnown, UnusedUnmapped
<1> QED BY <1>2, <1>4, <1>5 DEF bitmapTest, Mapped

(* Between calls no thread has a frame in hand, and only a process that    *)
(* has no stack has a lock.                                                *)
LEMMA OwnedAccounts ==
  ASSUME SpaceInv, Owned, TableIsFrame
  PROVE  FramesAccounted
<1> SUFFICES ASSUME \A t \in Thread : loc[t].pc \in {"unborn", "idle", "lock", "noStack"}
             PROVE  /\ Bits = InUse
                    /\ \A q \in Pool : lock[q] # NULL => loc[lock[q]].pc = "noStack"
  BY PagesAccounted DEF FramesAccounted, Bits
<1>1. \A q \in Pool : lock[q] # NULL => loc[lock[q]].pc = "noStack"
  <2> SUFFICES ASSUME NEW q \in Pool, lock[q] # NULL
               PROVE  loc[lock[q]].pc = "noStack"
    OBVIOUS
  <2>1. lock[q] \in Thread
    BY DEF SpaceInv, TypeOK
  <2>2. Inside(lock[q])
    BY <2>1 DEF SpaceInv, LocksHeld
  <2> QED BY <2>1, <2>2 DEF Inside
<1>2. ASSUME NEW f \in Bits PROVE f \in InUse
  <2>1. PICK x \in Places : FrameAt(x) = f
    BY <1>2 DEF Owned
  <2>2. x[1] # "held"
    BY DEF Places, Holds
  <2>3. CASE x[1] = "pte"
    <3>1. x[2] \in Space /\ x[3] \in Page(x[2]) /\ pte[x[2]][x[3]] # NULL
      BY <2>3 DEF Places
    <3>2. <<x[2], x[3]>> \in Mapping
      BY <3>1 DEF Mapping
    <3>3. f = pte[x[2]][x[3]]
      BY <2>1, <2>3 DEF FrameAt
    <3> QED BY <3>2, <3>3 DEF InUse
  <2>4. CASE x[1] = "table"
    <3>1. x[2] \in Process /\ x[3] \in Regions /\ table[x[2]][x[3]] # NULL
      BY <2>4 DEF Places
    <3>2. <<x[2], x[3]>> \in Tables
      BY <3>1, PlaceFacts DEF Tables
    <3>3. f = table[x[2]][x[3]]
      BY <2>1, <2>4 DEF FrameAt
    <3> QED BY <3>2, <3>3 DEF InUse
  <2> QED BY <2>2, <2>3, <2>4 DEF Places
<1>3. ASSUME NEW f \in InUse PROVE f \in Bits
  <2>1. CASE \E m \in Mapping : f = pte[m[1]][m[2]]
    <3>1. PICK s \in Space : \E p \in Page(s) : pte[s][p] # NULL /\ f = pte[s][p]
      BY <2>1 DEF Mapping
    <3>2. PICK p \in Page(s) : pte[s][p] # NULL /\ f = pte[s][p]
      BY <3>1
    <3>3. p \in Int /\ f \in Frame
      BY <3>2, SpaceFacts DEF SpaceInv, TypeOK
    <3>4. <<"pte", s, p>> \in Places /\ FrameAt(<<"pte", s, p>>) = f
      BY <3>2, <3>3 DEF Places, FrameAt
    <3> QED BY <3>3, <3>4 DEF Owned
  <2>2. CASE \E u \in Tables : f = table[u[1]][u[2]]
    <3>1. PICK s \in Process, r \in Regions : table[s][r] # NULL /\ f = table[s][r]
      BY <2>2, PlaceFacts DEF Tables
    <3>2. r \in Int
      BY ByteAssumption, PagesAssumption DEF Regions, Region
    <3>3. f \in Frame
      BY <3>1, PlaceFacts DEF SpaceInv, TypeOK
    <3>4. <<"table", s, r>> \in Places /\ FrameAt(<<"table", s, r>>) = f
      BY <3>1, <3>2, SpaceFacts DEF Places, FrameAt
    <3> QED BY <3>3, <3>4 DEF Owned
  <2> QED BY <1>3, <2>1, <2>2 DEF InUse
<1> QED BY <1>1, <1>2, <1>3

(* palloc gives no frame to two users, whatever the kernel threads among   *)
(* themselves, or the processes among themselves, do. It is of use as      *)
(* long as pageTableAdd has had a frame for each page table: a NULL of     *)
(* palloc that it does not notice is what TableIsFrame rules out.          *)
THEOREM FramesOnce ==
  ASSUME OneKindRuns
  PROVE  Spec => [](TableIsFrame => FrameOnce)
<1>1. SpaceInv /\ FrameInv => (TableIsFrame => FrameOnce)
  BY OwnedOnce DEF FrameInv
<1>2. Spec => []FrameInv
  BY FrameInvariant
<1> QED BY <1>1, <1>2, SpaceInvariant, PTL

(* When no call is under way, the pools' bits are those of the frames that *)
(* are mapped or a page table.  What is marked or mapped in an address     *)
(* space is what its threads have, and what requests have left behind that *)
(* ran out of frames half-way; no other path through mallocPage and        *)
(* mfreePage loses a page or a frame.  A lock is held only by a process    *)
(* whose getPage has failed.                                               *)
THEOREM FramesAreAccounted ==
  ASSUME OneKindRuns
  PROVE  Spec => [](TableIsFrame => FramesAccounted)
<1>1. SpaceInv /\ FrameInv => (TableIsFrame => FramesAccounted)
  BY OwnedAccounts DEF FrameInv
<1>2. Spec => []FrameInv
  BY FrameInvariant
<1> QED BY <1>1, <1>2, SpaceInvariant, PTL

-----------------------------------------------------------------------------
(* Kernel threads by themselves have no page table to allocate. *)
KernelRuns == \A T \in Together : T \subseteq KThread

NoTables == /\ \A t \in Thread : loc[t].pc # "unborn" => t \notin Process
            /\ \A s \in Process, r \in Regions : table[s][r] = NULL

(* The page directories of processes stay as they are when no process      *)
(* runs.                                                                   *)
LEMMA NoTablesInvariant ==
  ASSUME KernelRuns
  PROVE  Spec => []NoTables
<1>1. Init => NoTables
  <2> SUFFICES ASSUME Init PROVE NoTables
    OBVIOUS
  <2>1. PICK T \in Together :
          loc = [t \in Thread |->
                   IF t \notin T THEN [Idle EXCEPT !.pc = "unborn"]
                   ELSE IF t \in Process
                   THEN [Idle EXCEPT !.pc = "lock", !.op = "stack"] ELSE Idle]
    BY DEF Init
  <2>2. [Idle EXCEPT !.pc = "unborn"].pc = "unborn"
    BY DEF Idle
  <2>3. \A t \in Thread : loc[t].pc # "unborn" => t \in T
    BY <2>1, <2>2
  <2>4. \A t \in Thread : loc[t].pc # "unborn" => t \notin Process
    BY <2>3, PagesAssumption DEF KernelRuns
  <2>5. ASSUME NEW s \in Process, NEW r \in Regions PROVE table[s][r] = NULL
    <3>1. table[s] = [i \in {Region(p) : p \in Page(s)} |-> NULL]
      BY DEF Init
    <3>2. Page(s) = 0 .. UserVaddrBytes * ByteBits - 1
      BY SpaceFacts DEF Page, VaddrBytes
    <3> QED BY <3>1, <3>2 DEF Regions
  <2> QED BY <2>4, <2>5 DEF NoTables
<1>2. SpaceInv /\ NoTables /\ [Next]_vars => NoTables'
  <2> SUFFICES ASSUME SpaceInv, NoTables, [Next]_vars
               PROVE  table' = table
    BY NoneBorn DEF NoTables
  <2>1. ASSUME NEW t \in Thread, Palloc(t) \/ PallocStore(t)
        PROVE  table' = table
    <3>1. loc[t].pc \in {"palloc", "store"}
      BY <2>1 DEF Palloc, PallocStore, At
    <3>2. loc[t].for # "table"
      BY <3>1 DEF SpaceInv, ControlOK, NoTables
    <3> QED BY <2>1, <3>2 DEF Palloc, PallocStore
  <2>2. ASSUME NEW t \in Thread, Step(t)
        PROVE  table' = table
    BY <2>1, <2>2 DEF Step, LockPool, TooManyPages, VaddrGet, GetPage, SetLoad, PageTableAdd, Pfree,
       PfreeStore, UnlockPool
  <2> QED BY <2>2 DEF Next, Malloc, Free, vars
<1> QED BY <1>1, <1>2, SpaceInvariant, PTL DEF Spec

(* So no page directory entry is wrong. *)
LEMMA NoTablesFrame ==
  ASSUME SpaceInv, NoTables
  PROVE  TableIsFrame
  BY PlaceFacts, SpaceFacts DEF NoTables

(* For kernel threads the two results about frames need no proviso:        *)
(* mallocPage and mfreePage of the kernel pool share no frame, and lose    *)
(* none but those of a mallocPage that fails half-way.                     *)
THEOREM KernelFrames ==
  ASSUME KernelRuns
  PROVE  Spec => [](FrameOnce /\ FramesAccounted)
<1>1. OneKindRuns
  BY DEF KernelRuns, OneKindRuns
<1>2. Spec => []FrameInv
  BY <1>1, FrameInvariant
<1>3. Spec => []NoTables
  BY NoTablesInvariant
<1>4. SpaceInv /\ FrameInv /\ NoTables => FrameOnce /\ FramesAccounted
  BY NoTablesFrame, OwnedOnce, OwnedAccounts DEF FrameInv
<1> QED BY <1>2, <1>3, <1>4, SpaceInvariant, PTL
=============================================================================
