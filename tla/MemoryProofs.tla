---------------------------- MODULE MemoryProofs ----------------------------
(***************************************************************************)
(* Proofs about the memory of the kernel, in two parts.  Startup: for      *)
(* every size of memory from 2 MB to 4 GB, and for page tables and         *)
(* requests of every size.  Heap: for arenas and pools of every size and   *)
(* every number of block sizes, as long as nobody frees what is not lent.  *)
(***************************************************************************)
EXTENDS Startup, Heap, BitmapProofs, FiniteSetTheorems

(* The widths of the C types in decimals. *)
LEMMA Widths == 2^16 = 65536 /\ 2^22 = 4194304
  OBVIOUS

(* The layout is made once, from the size that the loader has found. *)
LayoutInv == /\ memCapacity \in Capacity
             /\ layout # None => layout = Layout(allFreePages(memCapacity))

(* memPoolInit runs once. *)
LEMMA LayoutInvariant == Spec => []LayoutInv
<1>1. Init => LayoutInv
  BY DEF Init, LayoutInv
<1>2. LayoutInv /\ [Next]_vars => LayoutInv'
  <2> SUFFICES ASSUME LayoutInv, [Next]_vars
               PROVE  LayoutInv'
    OBVIOUS
  <2>1. CASE memInit
    BY <2>1 DEF memInit, memPoolInit, LayoutInv
  <2>2. CASE UNCHANGED <<memCapacity, layout>>
    BY <2>2 DEF LayoutInv
  <2>3. CASE processExecute \/ threadStart
    BY <2>2, <2>3 DEF processExecute, threadStart, Queue, Fail
  <2>4. CASE Running
    BY <2>2, <2>4 DEF Running
  <2>5. CASE UNCHANGED vars
    BY <2>2, <2>5 DEF vars
  <2> QED BY <2>1, <2>3, <2>4, <2>5 DEF Next
<1> QED BY <1>1, <1>2, PTL DEF Spec

(* The arithmetic of memPoolInit. *)
LEMMA LayoutNumbers ==
  ASSUME NEW capacity \in Capacity
  PROVE  LET rest == capacity - 2048
             n    == (rest \div 4) % 65536
             k    == n \div 2
             l    == Layout(allFreePages(capacity))
         IN  /\ rest \in Nat
             /\ n \in Nat /\ n <= 65535 /\ 4 * n <= rest
             /\ rest \div 4 < 65536 => n = rest \div 4
             /\ l.kStart = 512
             /\ l.kBits = 8 * (k \div 8)
             /\ l.uStart = 512 + k
             /\ l.uBits = 8 * ((n - k) \div 8)
             /\ l.vaddrBits = l.kBits
             /\ l.bitmaps = k \div 8 + (n - k) \div 8 + k \div 8
<1> DEFINE rest == capacity - 2048
           n == (rest \div 4) % 65536
           k == n \div 2
<1>1. rest \in Nat /\ rest < 4194304
  BY SMT, CapacityAssumption
<1>2. uint32KB(capacity - usedMemory) = rest
  BY SMT, <1>1, Widths DEF uint32KB, usedMemory
<1>3. allFreePages(capacity) = n
  BY SMT, <1>2, Widths DEF allFreePages, uint16
<1> HIDE DEF rest
<1>4. /\ n \in Nat /\ n <= 65535 /\ 4 * n <= rest
      /\ rest \div 4 < 65536 => n = rest \div 4
  BY SMT, <1>1
<1> HIDE DEF n
<1>5. k \in Nat /\ n - k \in Nat /\ n - k <= 65535
  BY SMT, <1>4
<1> HIDE DEF k
<1>6. uint16(n - k) = n - k
  BY SMT, <1>5, Widths DEF uint16
<1>7. usedMemory \div 4 = 512
  BY SMT DEF usedMemory
<1>8. LET l == Layout(n)
      IN  /\ l.kStart = 512 /\ l.kBits = 8 * (k \div 8)
          /\ l.uStart = 512 + k /\ l.uBits = 8 * ((n - k) \div 8)
          /\ l.vaddrBits = l.kBits
          /\ l.bitmaps = k \div 8 + (n - k) \div 8 + k \div 8
  BY SMT, <1>6, <1>7 DEF Layout, k
<1> QED BY SMT, <1>1, <1>3, <1>4, <1>8 DEF n, k, rest

(* A pool hands out only frames that exist and are its own, *)
THEOREM PoolsAreInMemory == Spec => []PoolsInMemory
<1>1. LayoutInv => PoolsInMemory
  <2> SUFFICES ASSUME LayoutInv, layout # None
               PROVE  /\ layout.kStart * 4 >= usedMemory
                      /\ layout.kStart + layout.kBits <= layout.uStart
                      /\ 4 * (layout.uStart + layout.uBits) <= memCapacity
                      /\ layout.vaddrBits = layout.kBits
                      /\ layout.bitmaps <= BitmapRoom
    BY DEF PoolsInMemory, Done
  <2>1. memCapacity \in Capacity /\ layout = Layout(allFreePages(memCapacity))
    BY DEF LayoutInv
  <2>2. memCapacity \in Nat
    BY SMT, <2>1, CapacityAssumption
  <2> DEFINE rest == memCapacity - 2048
             n == (rest \div 4) % 65536
             k == n \div 2
  <2>3. /\ rest \in Nat /\ n \in Nat /\ n <= 65535 /\ 4 * n <= rest
        /\ layout.kStart = 512 /\ layout.kBits = 8 * (k \div 8)
        /\ layout.uStart = 512 + k /\ layout.uBits = 8 * ((n - k) \div 8)
        /\ layout.vaddrBits = layout.kBits
        /\ layout.bitmaps = k \div 8 + (n - k) \div 8 + k \div 8
    BY SMT, <2>1, LayoutNumbers
  <2>4. memCapacity = rest + 2048
    BY SMT, <2>2
  <2> HIDE DEF rest, n
  <2>5. k \in Nat /\ 2 * k <= n /\ n - k \in Nat /\ n - k <= k + 1
    BY SMT, <2>3
  <2> HIDE DEF k
  <2>6. /\ 8 * (k \div 8) <= k /\ k \div 8 \in Nat
        /\ 8 * ((n - k) \div 8) <= n - k /\ (n - k) \div 8 \in Nat
    BY SMT, <2>5
  <2> QED BY SMT, <2>3, <2>4, <2>5, <2>6 DEF usedMemory, BitmapRoom
<1> QED BY <1>1, LayoutInvariant, PTL

(* and up to 257 MB the two pools lose fewer than 16 pages to rounding. *)
THEOREM SmallMemoryIsManaged == Spec => []SmallMemoryManaged
<1>1. LayoutInv => SmallMemoryManaged
  <2> SUFFICES ASSUME LayoutInv, layout # None, Free < 2^16
               PROVE  Unmanaged \in 0 .. 15
    BY DEF SmallMemoryManaged, Done
  <2>1. memCapacity \in Capacity /\ layout = Layout(allFreePages(memCapacity))
    BY DEF LayoutInv
  <2> DEFINE rest == memCapacity - 2048
             n == (rest \div 4) % 65536
             k == n \div 2
  <2>2. Free = rest \div 4 /\ rest \div 4 < 65536
    BY SMT, Widths DEF Free, usedMemory
  <2>3. /\ n \in Nat /\ n = rest \div 4
        /\ layout.kBits = 8 * (k \div 8) /\ layout.uBits = 8 * ((n - k) \div 8)
    BY SMT, <2>1, <2>2, LayoutNumbers
  <2>4. Free = n
    BY SMT, <2>2, <2>3
  <2> HIDE DEF rest, n
  <2>5. k \in Nat /\ n - k \in Nat
    BY SMT, <2>3
  <2> HIDE DEF k
  <2>6. /\ k - 8 * (k \div 8) \in 0 .. 7 /\ k \div 8 \in Nat
        /\ n - k - 8 * ((n - k) \div 8) \in 0 .. 7 /\ (n - k) \div 8 \in Nat
    BY SMT, <2>5
  <2> QED BY SMT, <2>3, <2>4, <2>5, <2>6 DEF Unmanaged
<1> QED BY <1>1, LayoutInvariant, PTL

-----------------------------------------------------------------------------
(* The recursion of pallocs has a solution. *)
LEMMA PallocsDef ==
  ASSUME NEW m, NEW cnt \in Nat
  PROVE  \E a : /\ pallocs(m, cnt) = a[cnt]
                /\ a[0] = [given |-> <<>>, frames |-> m.frames]
                /\ \A i \in 0 .. cnt - 1 : a[i + 1] = palloc(a[i])
<1> DEFINE base == [given |-> <<>>, frames |-> m.frames]
           Eq(n, f) == f = [i \in 0 .. n |-> IF i = 0 THEN base ELSE palloc(f[i - 1])]
           P == {n \in Nat : \E f : Eq(n, f)}
           after == CHOOSE f : Eq(cnt, f)
<1> HIDE DEF base
<1>1. 0 \in P
  <2> DEFINE f == [i \in 0 .. 0 |-> base]
  <2>1. Eq(0, f)
    OBVIOUS
  <2> QED BY <2>1
<1>2. \A n \in P : n + 1 \in P
  <2> SUFFICES ASSUME NEW n \in P
               PROVE  \E f : Eq(n + 1, f)
    OBVIOUS
  <2>1. PICK f : Eq(n, f)
    OBVIOUS
  <2> DEFINE g == [i \in 0 .. n + 1 |-> IF i <= n THEN f[i] ELSE palloc(f[n])]
  <2>2. ASSUME NEW i \in 0 .. n + 1
        PROVE  g[i] = IF i = 0 THEN base ELSE palloc(g[i - 1])
    <3> n \in Nat
      OBVIOUS
    <3>1. CASE i = 0
      BY <2>1, <3>1
    <3>2. CASE i # 0 /\ i <= n
      <4>1. f[i] = palloc(f[i - 1])
        BY <2>1, <3>2
      <4>2. g[i] = f[i] /\ g[i - 1] = f[i - 1]
        BY <3>2
      <4> HIDE DEF g
      <4> QED BY <3>2, <4>1, <4>2
    <3>3. CASE i = n + 1
      <4>1. g[i] = palloc(f[n]) /\ g[i - 1] = f[n] /\ i # 0
        BY <3>3
      <4> HIDE DEF g
      <4> QED BY <4>1
    <3> QED BY <3>1, <3>2, <3>3
  <2>3. Eq(n + 1, g)
    <3>1. g = [i \in 0 .. n + 1 |-> g[i]]
      OBVIOUS
    <3> HIDE DEF g
    <3> QED BY <2>2, <3>1
  <2> HIDE DEF g
  <2> QED BY <2>3
<1>3. cnt \in P
  <2> HIDE DEF P
  <2>1. \A n \in P : n \in Int /\ n >= 0 => n + 1 \in P
    BY <1>2
  <2>2. \A n \in Int : n >= 0 => n \in P
    BY <1>1, <2>1, Induction
  <2> QED BY <2>2
<1>4. Eq(cnt, after)
  <2>1. \E f : Eq(cnt, f)
    BY <1>3
  <2> HIDE DEF Eq
  <2> QED BY <2>1
<1>5. pallocs(m, cnt) = after[cnt]
  BY DEF pallocs, base
<1> HIDE DEF after
<1>6. after[0] = base
  BY <1>4
<1>7. ASSUME NEW i \in 0 .. cnt - 1
      PROVE  after[i + 1] = palloc(after[i])
  <2>1. i + 1 \in 0 .. cnt /\ i + 1 # 0 /\ (i + 1) - 1 = i
    OBVIOUS
  <2> QED BY <1>4, <2>1
<1> QED BY <1>5, <1>6, <1>7 DEF base

(* A bitmap that is not full has a bit for palloc. *)
LEMMA RoomForOne ==
  ASSUME NEW b \in BitmapType, b.used \subseteq Positions(b),
         Cardinality(b.used) < b.size * ByteBits
  PROVE  /\ bitmapScan(b, 1) \in Positions(b) /\ bitmapScan(b, 1) \notin b.used
         /\ IsFiniteSet(b.used) /\ Cardinality(b.used) \in Nat
<1> DEFINE N == b.size * ByteBits
<1>1. b.size \in Nat /\ N \in Nat
  BY ByteAssumption DEF BitmapType
<1>2. Positions(b) = 0 .. N - 1
  BY DEF Positions
<1> HIDE DEF N
<1>3. IsFiniteSet(0 .. N - 1) /\ Cardinality(0 .. N - 1) = N
  BY <1>1, FS_Interval
<1>4. IsFiniteSet(b.used) /\ Cardinality(b.used) \in Nat
  BY <1>2, <1>3, FS_Subset, FS_CardinalityType
<1>5. b.used # Positions(b)
  BY <1>2, <1>3, <1>4 DEF N
<1>6. PICK i \in Positions(b) : i \notin b.used
  BY <1>5
<1>7. i \in Int /\ i .. i + 1 - 1 = {i}
  BY <1>2, <1>6
<1>8. i \in Runs(b, 1)
  BY <1>6, <1>7 DEF Runs
<1>9. bitmapScan(b, 1) = Min(Runs(b, 1))
  BY <1>1, <1>8, ScanFirstFit
<1>10. Runs(b, 1) \subseteq Nat
  BY <1>1, <1>2 DEF Runs
<1>11. Min(Runs(b, 1)) \in Runs(b, 1)
  BY <1>8, <1>10, MinFacts
<1>12. bitmapScan(b, 1) # -1
  BY <1>9, <1>10, <1>11
<1>13. /\ bitmapScan(b, 1) \in Positions(b)
       /\ \A j \in bitmapScan(b, 1) .. bitmapScan(b, 1) + 1 - 1 : j \notin b.used
  BY <1>1, <1>12, ScanFree
<1>14. bitmapScan(b, 1) \in Int
  BY <1>2, <1>13
<1>15. bitmapScan(b, 1) \in bitmapScan(b, 1) .. bitmapScan(b, 1) + 1 - 1
  BY <1>14
<1> QED BY <1>4, <1>13, <1>15

(* The frames given after n steps of the loop of mallocPage, from f0. *)
FramesGiven(f0, given, f, n) ==
  /\ given \in Seq(Nat) /\ Len(given) = n
  /\ f \in BitmapType /\ f.size = f0.size
  /\ f.used = f0.used \cup {given[i] : i \in 1 .. n}
  /\ \A i \in 1 .. n : given[i] \in Positions(f0) /\ given[i] \notin f0.used
  /\ \A i, j \in 1 .. n : given[i] = given[j] => i = j
  /\ IsFiniteSet(f.used) /\ Cardinality(f.used) = Cardinality(f0.used) + n

(* One step of the loop of mallocPage. *)
LEMMA PallocStep ==
  ASSUME NEW f0 \in BitmapType, f0.used \subseteq Positions(f0), IsFiniteSet(f0.used),
         NEW n \in Nat, NEW given, NEW f, FramesGiven(f0, given, f, n),
         Cardinality(f0.used) + n < f0.size * ByteBits
  PROVE  LET bit == bitmapScan(f, 1)
         IN  FramesGiven(f0, Append(given, bit), bitmapSet(f, bit, 1), n + 1)
<1>1. /\ given \in Seq(Nat) /\ Len(given) = n
      /\ f \in BitmapType /\ f.size = f0.size
      /\ f.used = f0.used \cup {given[i] : i \in 1 .. n}
      /\ \A i \in 1 .. n : given[i] \in Positions(f0) /\ given[i] \notin f0.used
      /\ \A i, j \in 1 .. n : given[i] = given[j] => i = j
      /\ IsFiniteSet(f.used) /\ Cardinality(f.used) = Cardinality(f0.used) + n
  BY DEF FramesGiven
<1>2. Positions(f) = Positions(f0) /\ Positions(f0) \subseteq Nat
  BY <1>1, ByteAssumption DEF Positions, BitmapType
<1>3. f.used \subseteq Positions(f)
  BY <1>1, <1>2
<1>4. Cardinality(f.used) < f.size * ByteBits
  BY <1>1
<1> DEFINE bit == bitmapScan(f, 1)
           given1 == Append(given, bit)
           f1 == bitmapSet(f, bit, 1)
<1>5. bit \in Positions(f0) /\ bit \notin f.used
  BY <1>1, <1>2, <1>3, <1>4, RoomForOne
<1>6. bit \in Nat /\ bit \in Int
  BY <1>2, <1>5
<1>7. f1 = [size |-> f.size, used |-> f.used \cup {bit}]
  <2> HIDE DEF bit
  <2> QED BY <1>1, <1>6, SetBits, Zenon
<1> HIDE DEF bit
<1>8. /\ given1 \in Seq(Nat) /\ Len(given1) = n + 1
      /\ \A i \in 1 .. n : given1[i] = given[i]
      /\ given1[n + 1] = bit
  BY <1>1, <1>6
<1> HIDE DEF given1, f1
<1>9. f1 \in BitmapType /\ f1.size = f0.size /\ f1.used = f.used \cup {bit}
  <2>1. f.used \cup {bit} \in SUBSET Int /\ f.size \in Nat
    BY <1>1, <1>6 DEF BitmapType
  <2> QED BY <1>1, <1>7, <2>1 DEF BitmapType
<1>10. \A i \in 1 .. n + 1 : i \in 1 .. n \/ i = n + 1
  OBVIOUS
<1>11. f1.used = f0.used \cup {given1[i] : i \in 1 .. n + 1}
  <2>1. {given1[i] : i \in 1 .. n + 1} = {given[i] : i \in 1 .. n} \cup {bit}
    <3>1. (1 .. n) \subseteq 1 .. n + 1 /\ n + 1 \in 1 .. n + 1
      OBVIOUS
    <3> QED BY <1>8, <1>10, <3>1
  <2> QED BY <1>1, <1>9, <2>1
<1>12. bit \notin f0.used /\ \A i \in 1 .. n : given[i] # bit
  BY <1>1, <1>5
<1>13. \A i \in 1 .. n + 1 : given1[i] \in Positions(f0) /\ given1[i] \notin f0.used
  BY <1>1, <1>5, <1>8, <1>10, <1>12
<1>14. \A i, j \in 1 .. n + 1 : given1[i] = given1[j] => i = j
  BY <1>1, <1>8, <1>10, <1>12
<1>15. IsFiniteSet(f1.used) /\ Cardinality(f1.used) = Cardinality(f0.used) + (n + 1)
  <2>1. /\ IsFiniteSet(f.used \cup {bit})
        /\ Cardinality(f.used \cup {bit}) = Cardinality(f.used) + 1
    BY <1>1, <1>5, FS_AddElement
  <2>2. Cardinality(f0.used) \in Nat
    BY FS_CardinalityType
  <2> QED BY <1>1, <1>9, <2>1, <2>2
<1> QED BY <1>8, <1>9, <1>11, <1>13, <1>14, <1>15 DEF FramesGiven, given1, f1, bit

(* The frames that the loop of mallocPage gets are free and distinct. *)
LEMMA PallocsFacts ==
  ASSUME NEW m, m.frames \in BitmapType, m.frames.used \subseteq Positions(m.frames),
         NEW cnt \in Nat,
         Cardinality(m.frames.used) + cnt <= m.frames.size * ByteBits
  PROVE  FramesGiven(m.frames, pallocs(m, cnt).given, pallocs(m, cnt).frames, cnt)
<1> DEFINE f0 == m.frames
<1>1. PICK a : /\ pallocs(m, cnt) = a[cnt]
               /\ a[0] = [given |-> <<>>, frames |-> f0]
               /\ \A i \in 0 .. cnt - 1 : a[i + 1] = palloc(a[i])
  BY PallocsDef
<1>2. IsFiniteSet(f0.used) /\ Cardinality(f0.used) \in Nat /\ f0.size * ByteBits \in Nat
  <2> DEFINE N == f0.size * ByteBits
  <2>1. N \in Nat /\ Positions(f0) = 0 .. N - 1
    BY ByteAssumption DEF BitmapType, Positions
  <2>2. IsFiniteSet(0 .. N - 1)
    <3>1. 0 \in Int /\ N - 1 \in Int
      <4> HIDE DEF N
      <4> QED BY <2>1
    <3> HIDE DEF N
    <3> QED BY <3>1, FS_Interval
  <2> QED BY <2>1, <2>2, FS_Subset, FS_CardinalityType
<1> DEFINE P == {n \in Nat : n <= cnt => FramesGiven(f0, a[n].given, a[n].frames, n)}
<1>3. 0 \in P
  <2>1. a[0].given = <<>> /\ a[0].frames = f0
    BY <1>1
  <2> HIDE DEF f0
  <2>2. FramesGiven(f0, <<>>, f0, 0)
    BY <1>2 DEF FramesGiven, f0
  <2> QED BY <2>1, <2>2
<1>4. \A n \in P : n + 1 \in P
  <2> SUFFICES ASSUME NEW n \in P, n + 1 <= cnt
               PROVE  FramesGiven(f0, a[n + 1].given, a[n + 1].frames, n + 1)
    OBVIOUS
  <2> DEFINE s == a[n]
             bit == bitmapScan(s.frames, 1)
  <2>1. n \in Nat /\ n \in 0 .. cnt - 1 /\ FramesGiven(f0, s.given, s.frames, n)
    OBVIOUS
  <2>2. Cardinality(f0.used) + n < f0.size * ByteBits
    BY <1>2, <2>1
  <2>3. FramesGiven(f0, Append(s.given, bit), bitmapSet(s.frames, bit, 1), n + 1)
    <3> HIDE DEF s
    <3> QED BY <1>2, <2>1, <2>2, PallocStep
  <2>4. a[n + 1] = [given |-> Append(s.given, bit), frames |-> bitmapSet(s.frames, bit, 1)]
    BY <1>1, <2>1 DEF palloc
  <2> HIDE DEF s, bit
  <2>5. a[n + 1].given = Append(s.given, bit)
          /\ a[n + 1].frames = bitmapSet(s.frames, bit, 1)
    BY <2>4
  <2> QED BY <2>3, <2>5
<1>5. cnt \in P
  <2> HIDE DEF P
  <2>1. \A n \in P : n \in Int /\ n >= 0 => n + 1 \in P
    BY <1>4
  <2>2. \A n \in Int : n >= 0 => n \in P
    BY <1>3, <2>1, Induction
  <2> QED BY <2>2
<1> QED BY <1>1, <1>5

(***************************************************************************)
(* What mallocPage keeps: the pages that are mapped are those whose bit is *)
(* set, and each has a frame of its own, whose bit is set.                 *)
(***************************************************************************)
Fits(m) ==
  /\ m = [got |-> m.got, vaddrs |-> m.vaddrs, frames |-> m.frames, pte |-> m.pte]
  /\ m.vaddrs \in BitmapType /\ m.frames \in BitmapType
  /\ m.frames.size = m.vaddrs.size
  /\ m.vaddrs.used \subseteq Positions(m.vaddrs)
  /\ m.pte = [p \in m.vaddrs.used |-> m.pte[p]]
  /\ m.frames.used = {m.pte[p] : p \in m.vaddrs.used}
  /\ m.frames.used \subseteq Positions(m.frames)
  /\ \A p, q \in m.vaddrs.used : m.pte[p] = m.pte[q] => p = q

(* The result of the last call of mallocPage does not matter. *)
LEMMA FitsSame ==
  ASSUME NEW m, Fits(m), NEW g,
         NEW n, n = [got |-> g, vaddrs |-> m.vaddrs, frames |-> m.frames, pte |-> m.pte]
  PROVE  Fits(n)
<1>1. n.got = g /\ n.vaddrs = m.vaddrs /\ n.frames = m.frames /\ n.pte = m.pte
  OBVIOUS
<1>2. n = [got |-> n.got, vaddrs |-> n.vaddrs, frames |-> n.frames, pte |-> n.pte]
  OBVIOUS
<1>3. /\ n.vaddrs \in BitmapType /\ n.frames \in BitmapType
      /\ n.frames.size = n.vaddrs.size
      /\ n.vaddrs.used \subseteq Positions(n.vaddrs)
      /\ n.frames.used \subseteq Positions(n.frames)
  BY <1>1 DEF Fits
<1>4. n.pte = [p \in n.vaddrs.used |-> n.pte[p]]
  BY <1>1 DEF Fits
<1>5. n.frames.used = {n.pte[p] : p \in n.vaddrs.used}
  BY <1>1 DEF Fits
<1>6. \A p, q \in n.vaddrs.used : n.pte[p] = n.pte[q] => p = q
  BY <1>1 DEF Fits
<1> QED BY <1>2, <1>3, <1>4, <1>5, <1>6, Zenon DEF Fits

(* As long as there is a page there is a frame. *)
LEMMA FramesSuffice ==
  ASSUME NEW m, Fits(m), NEW s, NEW cnt \in Nat \ {0}, s \in Runs(m.vaddrs, cnt)
  PROVE  /\ Cardinality(m.frames.used) + cnt <= m.frames.size * ByteBits
         /\ s \in Nat /\ s .. s + cnt - 1 \subseteq Positions(m.vaddrs) \ m.vaddrs.used
<1> DEFINE v == m.vaddrs
           f == m.frames
           N == v.size * ByteBits
           run == s .. s + cnt - 1
<1>1. /\ v \in BitmapType /\ f \in BitmapType /\ f.size = v.size
      /\ v.used \subseteq Positions(v)
      /\ m.pte = [p \in v.used |-> m.pte[p]]
      /\ f.used = {m.pte[p] : p \in v.used}
  BY DEF Fits
<1>2. N \in Nat /\ Positions(v) = 0 .. N - 1
  BY <1>1, ByteAssumption DEF BitmapType, Positions
<1>3. s \in Nat /\ run \subseteq Positions(v) \ v.used
  BY <1>2 DEF Runs
<1> HIDE DEF N
<1>4. IsFiniteSet(Positions(v)) /\ Cardinality(Positions(v)) = N
  BY <1>2, FS_Interval
<1>5. IsFiniteSet(run) /\ Cardinality(run) = cnt
  BY <1>3, FS_Interval
<1>6. IsFiniteSet(v.used) /\ Cardinality(v.used) \in Nat
  BY <1>1, <1>4, FS_Subset, FS_CardinalityType
<1> HIDE DEF run
<1>7. Cardinality(v.used \cup run) = Cardinality(v.used) + cnt
  <2>1. v.used \cap run = {}
    BY <1>3
  <2> QED BY <1>5, <1>6, <2>1, FS_Union, FS_EmptySet
<1>8. Cardinality(v.used \cup run) <= N
  BY <1>1, <1>3, <1>4, FS_Subset
<1>9. IsFiniteSet(f.used) /\ Cardinality(f.used) <= Cardinality(v.used)
  <2>1. m.pte \in Surjection(v.used, f.used)
    BY <1>1 DEF Surjection
  <2> QED BY <1>6, <2>1, FS_Surjection
<1>10. Cardinality(f.used) \in Nat
  BY <1>9, FS_CardinalityType
<1>11. Cardinality(f.used) + cnt <= N
  BY <1>2, <1>6, <1>7, <1>8, <1>9, <1>10
<1>12. N = f.size * ByteBits
  BY <1>1 DEF N
<1> QED BY <1>3, <1>11, <1>12 DEF run

(* The page table with the pages start, start + 1, ... in the frames given. *)
Mapped(pt, start, cnt, given) == Over(pt, [p \in Run(start, cnt) |-> given[p - start + 1]])

IsMapped(new, old, pt, start, cnt, given) ==
  /\ new = [p \in old \cup Run(start, cnt) |-> new[p]]
  /\ \A p \in old : new[p] = pt[p]
  /\ \A p \in Run(start, cnt) : /\ p - start + 1 \in 1 .. cnt
                                /\ new[p] = given[p - start + 1]
  /\ \A i \in 1 .. cnt : /\ i + start - 1 \in Run(start, cnt)
                         /\ new[i + start - 1] = given[i]

(* What the page table is after mallocPage has filled it in. *)
LEMMA MappedFacts ==
  ASSUME NEW old, NEW pt, pt = [p \in old |-> pt[p]],
         NEW start \in Nat, NEW cnt \in Nat \ {0}, NEW given,
         old \subseteq Nat, old \cap Run(start, cnt) = {},
         NEW new, new = Mapped(pt, start, cnt, given)
  PROVE  IsMapped(new, old, pt, start, cnt, given)
<1> DEFINE run == Run(start, cnt)
<1>1. DOMAIN pt = old
  OBVIOUS
<1>2. new = [p \in old \cup run |-> IF p \in run THEN given[p - start + 1] ELSE pt[p]]
  BY <1>1 DEF Mapped, Over
<1>3. \A p \in run : p - start + 1 \in 1 .. cnt
  BY DEF Run
<1>4. \A i \in 1 .. cnt : i + start - 1 \in run /\ (i + start - 1) - start + 1 = i
  BY DEF Run
<1> HIDE DEF run
<1>5. new = [p \in old \cup run |-> new[p]]
  BY <1>2
<1>6. \A p \in old : new[p] = pt[p]
  BY <1>2 DEF run
<1>7. \A p \in run : new[p] = given[p - start + 1]
  BY <1>2
<1>8. \A i \in 1 .. cnt : new[i + start - 1] = given[i]
  BY <1>4, <1>7
<1> QED BY <1>3, <1>4, <1>5, <1>6, <1>7, <1>8 DEF IsMapped, run

(* mallocPage finds the first run of free pages and maps it, or does nothing. *)
LEMMA MallocFacts ==
  ASSUME NEW m, Fits(m), NEW cnt \in Nat \ {0}
  PROVE  LET r == Malloc(m, cnt)
             s == Min(Runs(m.vaddrs, cnt))
         IN  /\ Runs(m.vaddrs, cnt) = {} =>
                  r = [got |-> NoPage, vaddrs |-> m.vaddrs, frames |-> m.frames, pte |-> m.pte]
             /\ Runs(m.vaddrs, cnt) # {} =>
                  /\ r.got = s /\ s \in Nat /\ s # NoPage /\ s \in Runs(m.vaddrs, cnt)
                  /\ Fits(r)
                  /\ r.vaddrs.size = m.vaddrs.size
                  /\ r.vaddrs.used = m.vaddrs.used \cup Run(s, cnt)
                  /\ Run(s, cnt) \cap m.vaddrs.used = {}
                  /\ \A p \in m.vaddrs.used : r.pte[p] = m.pte[p]
<1> DEFINE r == Malloc(m, cnt)
           s == Min(Runs(m.vaddrs, cnt))
           new == pallocs(m, cnt)
           run == Run(s, cnt)
<1>1. /\ m = [got |-> m.got, vaddrs |-> m.vaddrs, frames |-> m.frames, pte |-> m.pte]
      /\ m.vaddrs \in BitmapType /\ m.frames \in BitmapType
      /\ m.frames.size = m.vaddrs.size
      /\ m.vaddrs.used \subseteq Positions(m.vaddrs)
      /\ m.pte = [p \in m.vaddrs.used |-> m.pte[p]]
      /\ m.frames.used = {m.pte[p] : p \in m.vaddrs.used}
      /\ m.frames.used \subseteq Positions(m.frames)
      /\ \A p, q \in m.vaddrs.used : m.pte[p] = m.pte[q] => p = q
  BY DEF Fits
<1>2. m.vaddrs.size \in Nat
  BY <1>1 DEF BitmapType
<1>3. bitmapScan(m.vaddrs, cnt) = IF Runs(m.vaddrs, cnt) = {} THEN -1 ELSE s
  BY <1>2, ScanFirstFit
<1>4. ASSUME Runs(m.vaddrs, cnt) = {}
      PROVE  r = [got |-> NoPage, vaddrs |-> m.vaddrs, frames |-> m.frames, pte |-> m.pte]
  <2>1. r = [m EXCEPT !.got = NoPage]
    BY <1>3, <1>4 DEF Malloc
  <2> QED BY <1>1, <2>1
<1>5. ASSUME Runs(m.vaddrs, cnt) # {}
      PROVE  /\ r.got = s /\ s \in Nat /\ s # NoPage /\ s \in Runs(m.vaddrs, cnt)
             /\ Fits(r)
             /\ r.vaddrs.size = m.vaddrs.size
             /\ r.vaddrs.used = m.vaddrs.used \cup run
             /\ run \cap m.vaddrs.used = {}
             /\ \A p \in m.vaddrs.used : r.pte[p] = m.pte[p]
  <2>1. Runs(m.vaddrs, cnt) \subseteq Nat /\ Positions(m.vaddrs) \subseteq Nat
    BY <1>2, ByteAssumption DEF Runs, Positions
  <2>2. s \in Runs(m.vaddrs, cnt)
    BY <1>5, <2>1, MinFacts
  <2>3. s \in Nat /\ s # -1 /\ s # NoPage
    BY <2>1, <2>2, TlbAssumption
  <2>4. r = [got |-> s, vaddrs |-> bitmapSetRun(m.vaddrs, s, cnt, 1),
             frames |-> new.frames, pte |-> Mapped(m.pte, s, cnt, new.given)]
    BY <1>3, <1>5, <2>3 DEF Malloc, Mapped
  <2>5. run \subseteq Positions(m.vaddrs) \ m.vaddrs.used
    BY <2>2 DEF Runs, Run
  <2>6. FramesGiven(m.frames, new.given, new.frames, cnt)
    <3>1. Cardinality(m.frames.used) + cnt <= m.frames.size * ByteBits
      BY <2>2, FramesSuffice
    <3> HIDE DEF s
    <3> QED BY <1>1, <3>1, PallocsFacts
  <2> HIDE DEF s, new
  <2>7. bitmapSetRun(m.vaddrs, s, cnt, 1)
           = [size |-> m.vaddrs.size, used |-> m.vaddrs.used \cup run]
    <3>1. s \in Int /\ cnt \in Int /\ m.vaddrs \in BitmapType
      BY <1>1, <2>3
    <3>2. bitmapSetRun(m.vaddrs, s, cnt, 1)
             = [size |-> m.vaddrs.size,
                used |-> m.vaddrs.used \cup (s .. s + cnt - 1)]
      BY <3>1, SetRunBits, Zenon
    <3>3. run = s .. s + cnt - 1
      BY DEF Run
    <3> HIDE DEF run
    <3> QED BY <3>2, <3>3
  <2> DEFINE pt == Mapped(m.pte, s, cnt, new.given)
             used1 == m.vaddrs.used \cup run
  <2>8. r = [got |-> s, vaddrs |-> [size |-> m.vaddrs.size, used |-> used1],
             frames |-> new.frames, pte |-> pt]
    BY <2>4, <2>7
  <2>9. /\ r.got = s /\ r.vaddrs = [size |-> m.vaddrs.size, used |-> used1]
        /\ r.frames = new.frames /\ r.pte = pt
        /\ r.vaddrs.size = m.vaddrs.size /\ r.vaddrs.used = used1
    <3> HIDE DEF pt, used1, r
    <3> QED BY <2>8
  <2>10. /\ pt = [p \in used1 |-> pt[p]]
         /\ \A p \in m.vaddrs.used : pt[p] = m.pte[p]
         /\ \A p \in run : p - s + 1 \in 1 .. cnt /\ pt[p] = new.given[p - s + 1]
         /\ \A i \in 1 .. cnt : i + s - 1 \in run /\ pt[i + s - 1] = new.given[i]
    <3> DEFINE old == m.vaddrs.used
               pt0 == m.pte
               given == new.given
    <3>1. old \subseteq Nat /\ old \cap Run(s, cnt) = {}
      BY <1>1, <2>1, <2>5
    <3>2. pt0 = [p \in old |-> pt0[p]]
      BY <1>1
    <3>3. pt = Mapped(pt0, s, cnt, given) /\ s \in Nat
      BY <2>3
    <3> HIDE DEF r, pt, old, pt0, given
    <3>4. IsMapped(pt, old, pt0, s, cnt, given)
      BY <3>1, <3>2, <3>3, MappedFacts
    <3> QED BY <3>4 DEF IsMapped, old, pt0, given
  <2> HIDE DEF pt
  <2>11. /\ new.frames \in BitmapType /\ new.frames.size = m.frames.size
         /\ new.frames.used = m.frames.used \cup {new.given[i] : i \in 1 .. cnt}
         /\ \A i \in 1 .. cnt : /\ new.given[i] \in Positions(m.frames)
                                /\ new.given[i] \notin m.frames.used
         /\ \A i, j \in 1 .. cnt : new.given[i] = new.given[j] => i = j
    BY <2>6 DEF FramesGiven
  <2>12. new.frames.used = {pt[p] : p \in used1}
    <3>1. {pt[p] : p \in m.vaddrs.used} = m.frames.used
      <4>1. m.frames.used = {m.pte[p] : p \in m.vaddrs.used}
        BY <1>1
      <4>2. \A p \in m.vaddrs.used : pt[p] = m.pte[p]
        BY <2>10
      <4> QED BY <4>1, <4>2
    <3>2. {pt[p] : p \in run} = {new.given[i] : i \in 1 .. cnt}
      <4>1. /\ \A p \in run : p - s + 1 \in 1 .. cnt /\ pt[p] = new.given[p - s + 1]
            /\ \A i \in 1 .. cnt : i + s - 1 \in run /\ pt[i + s - 1] = new.given[i]
        BY <2>10
      <4> HIDE DEF run
      <4> QED BY <4>1
    <3>3. {pt[p] : p \in used1} = {pt[p] : p \in m.vaddrs.used} \cup {pt[p] : p \in run}
      <4> HIDE DEF run
      <4> QED OBVIOUS
    <3> QED BY <2>11, <3>1, <3>2, <3>3
  <2>13. new.frames.used \subseteq Positions(new.frames)
    <3>1. Positions(new.frames) = Positions(m.frames)
      BY <2>11 DEF Positions
    <3>2. m.frames.used \subseteq Positions(m.frames)
      BY <1>1
    <3>3. {new.given[i] : i \in 1 .. cnt} \subseteq Positions(m.frames)
      BY <2>11
    <3> QED BY <2>11, <3>1, <3>2, <3>3
  <2>14. \A p, q \in used1 : pt[p] = pt[q] => p = q
    <3>1. \A p \in m.vaddrs.used : pt[p] \in m.frames.used
      BY <1>1, <2>10
    <3>2. \A p \in run : pt[p] \notin m.frames.used
      BY <2>10, <2>11
    <3>3. \A p, q \in m.vaddrs.used : pt[p] = pt[q] => p = q
      BY <1>1, <2>10
    <3>4. ASSUME NEW p \in run, NEW q \in run, pt[p] = pt[q]
          PROVE  p = q
      <4>1. p \in Int /\ q \in Int
        BY <2>1, <2>5
      <4>2. p - s + 1 = q - s + 1
        BY <2>10, <2>11, <3>4
      <4> QED BY <2>3, <4>1, <4>2
    <3> QED BY <3>1, <3>2, <3>3, <3>4
  <2>15. used1 \subseteq Positions(r.vaddrs)
    BY <1>1, <2>5, <2>9 DEF Positions
  <2>16. r.vaddrs \in BitmapType
    <3>1. used1 \in SUBSET Int
      BY <1>1, <2>1, <2>5
    <3> QED BY <1>2, <2>9, <3>1 DEF BitmapType
  <2>17. r = [got |-> r.got, vaddrs |-> r.vaddrs, frames |-> r.frames, pte |-> r.pte]
    BY <2>8, <2>9
  <2> HIDE DEF r, run, used1
  <2>18. Fits(r)
    <3>1. r.frames \in BitmapType /\ r.frames.size = r.vaddrs.size
      BY <1>1, <2>9, <2>11
    <3>2. r.pte = [p \in r.vaddrs.used |-> r.pte[p]]
      BY <2>9, <2>10
    <3>3. r.frames.used = {r.pte[p] : p \in r.vaddrs.used}
      BY <2>9, <2>12
    <3>4. r.frames.used \subseteq Positions(r.frames)
      BY <2>9, <2>13
    <3>5. \A p, q \in r.vaddrs.used : r.pte[p] = r.pte[q] => p = q
      BY <2>9, <2>14
    <3>6. r.vaddrs.used \subseteq Positions(r.vaddrs)
      BY <2>9, <2>15
    <3> QED BY <2>16, <2>17, <3>1, <3>2, <3>3, <3>4, <3>5, <3>6, Zenon DEF Fits
  <2>19. run \cap m.vaddrs.used = {}
    BY <2>5
  <2> QED BY <2>2, <2>3, <2>9, <2>10, <2>18, <2>19 DEF used1
<1> QED BY <1>4, <1>5

-----------------------------------------------------------------------------
(***************************************************************************)
(* The pages that tasks and threads have are mapped and nobody else's.     *)
(***************************************************************************)
Task == [pcb : Nat, bitmap : Nat \cup {NoPage}, pageDir : Nat \cup {NoPage}]

Apart ==
  /\ task \in Seq(Task)
  /\ \A i \in DOMAIN task : TaskPages(task[i]) \subseteq vaddrs.used
  /\ \A i, j \in DOMAIN task :
       i # j => TaskPages(task[i]) \cap TaskPages(task[j]) = {}
  /\ live \subseteq Nat \X (Nat \ {0})
  /\ \A a \in live : Run(a[1], a[2]) \subseteq vaddrs.used
  /\ \A a, b \in live : a # b => Run(a[1], a[2]) \cap Run(b[1], b[2]) = {}
  /\ \A i \in DOMAIN task : \A a \in live : TaskPages(task[i]) \cap Run(a[1], a[2]) = {}

Unused == task = <<>> /\ live = {} /\ vaddrs.used = {} /\ failed = "nothing"

MemoryInv == /\ Fits(Memory)
             /\ Apart
             /\ StaleIsRecent
             /\ layout = None => Unused

-----------------------------------------------------------------------------
(* The state m has the pages of m0, where they were, and the new pages. *)
Grows(m0, m, taken) ==
  /\ Fits(m)
  /\ m.vaddrs.size = m0.vaddrs.size
  /\ m.vaddrs.used = m0.vaddrs.used \cup taken
  /\ taken \cap m0.vaddrs.used = {}
  /\ \A p \in m0.vaddrs.used : m.pte[p] = m0.pte[p]

(* One mallocPage after another. *)
LEMMA GrowsOn ==
  ASSUME NEW m0, NEW m1, NEW m2, NEW A, NEW B, Grows(m0, m1, A), Grows(m1, m2, B)
  PROVE  Grows(m0, m2, A \cup B)
BY DEF Grows

(* A call of mallocPage that finds no pages changes nothing. *)
LEMMA MallocGrows ==
  ASSUME NEW m, Fits(m), NEW cnt \in Nat \ {0}
  PROVE  /\ Malloc(m, cnt).got = NoPage =>
              Runs(m.vaddrs, cnt) = {} /\ Grows(m, Malloc(m, cnt), {})
         /\ Malloc(m, cnt).got # NoPage =>
              /\ Malloc(m, cnt).got \in Nat
              /\ Malloc(m, cnt).got = Min(Runs(m.vaddrs, cnt))
              /\ Runs(m.vaddrs, cnt) # {}
              /\ Grows(m, Malloc(m, cnt), Run(Malloc(m, cnt).got, cnt))
<1> DEFINE r == Malloc(m, cnt)
           s == Min(Runs(m.vaddrs, cnt))
<1>1. CASE Runs(m.vaddrs, cnt) = {}
  <2>1. r = [got |-> NoPage, vaddrs |-> m.vaddrs, frames |-> m.frames, pte |-> m.pte]
    BY <1>1, MallocFacts
  <2> HIDE DEF r
  <2>2. r.got = NoPage /\ r.vaddrs = m.vaddrs /\ r.frames = m.frames /\ r.pte = m.pte
    BY <2>1
  <2>3. Fits(r)
    BY <2>1, FitsSame
  <2>4. Grows(m, r, {})
    BY <2>2, <2>3 DEF Grows
  <2> QED BY <1>1, <2>2, <2>4 DEF r
<1>2. CASE Runs(m.vaddrs, cnt) # {}
  <2>1. /\ r.got = s /\ s \in Nat /\ s # NoPage
        /\ Fits(r)
        /\ r.vaddrs.size = m.vaddrs.size
        /\ r.vaddrs.used = m.vaddrs.used \cup Run(s, cnt)
        /\ Run(s, cnt) \cap m.vaddrs.used = {}
        /\ \A p \in m.vaddrs.used : r.pte[p] = m.pte[p]
    BY <1>2, MallocFacts
  <2> HIDE DEF r, s
  <2>2. Grows(m, r, Run(s, cnt))
    BY <2>1 DEF Grows
  <2> QED BY <1>2, <2>1, <2>2 DEF r, s
<1> QED BY <1>1, <1>2

(* The bitmap of a process takes 23 pages. *)
LEMMA BitmapPages == /\ vaddrBytes = 94199 /\ bitmapPgCnt = 23
                     /\ vaddrBytes <= bitmapPgCnt * PG_SIZE
                     /\ USER_STACK3_VADDR - USER_VADDR_START = 8 * vaddrBytes - 1
<1>1. vaddrBytes = 94199
  BY SMT DEF vaddrBytes, KERNEL_START, USER_VADDR_START
<1> QED BY SMT, <1>1 DEF bitmapPgCnt, PG_SIZE, USER_STACK3_VADDR, USER_VADDR_START

(* What processExecute takes, when it succeeds. *)
LEMMA ProcessGrows ==
  ASSUME Fits(Memory),
         NEW pcb, pcb = Malloc(Memory, 1), pcb.got # NoPage,
         NEW bitmap, bitmap = Malloc(pcb, bitmapPgCnt), bitmap.got # NoPage,
         NEW dir, dir = Malloc(bitmap, 1),
         NEW t, t = [pcb |-> pcb.got, bitmap |-> bitmap.got, pageDir |-> dir.got]
  PROVE  t \in Task /\ Grows(Memory, dir, TaskPages(t))
<1> DEFINE A == Run(pcb.got, 1)
           B == Run(bitmap.got, bitmapPgCnt)
           C == IF dir.got = NoPage THEN {} ELSE Run(dir.got, 1)
<1>1. pcb.got \in Nat /\ Grows(Memory, pcb, A)
  BY MallocGrows
<1>2. bitmapPgCnt \in Nat \ {0}
  BY SMT, BitmapPages
<1>3. bitmap.got \in Nat /\ Grows(pcb, bitmap, B)
  BY <1>1, <1>2, MallocGrows DEF Grows
<1>4. dir.got \in Nat \cup {NoPage} /\ Grows(bitmap, dir, C)
  BY <1>3, MallocGrows DEF Grows
<1>5. Grows(Memory, dir, (A \cup B) \cup C)
  <2> HIDE DEF A, B, C
  <2> QED BY <1>1, <1>3, <1>4, GrowsOn
<1>6. t \in Task
  BY <1>1, <1>3, <1>4 DEF Task
<1>7. TaskPages(t) = (A \cup B) \cup C
  <2>1. t.pcb = pcb.got /\ t.bitmap = bitmap.got /\ t.pageDir = dir.got
    OBVIOUS
  <2>2. \A s \in Nat : Run(s, 1) = {s}
    BY DEF Run
  <2> QED BY <1>1, <1>4, <2>1, <2>2 DEF TaskPages
<1> QED BY <1>5, <1>6, <1>7

(* What threadStart takes. *)
LEMMA ThreadGrows ==
  ASSUME Fits(Memory),
         NEW pcb, pcb = Malloc(Memory, 1), pcb.got # NoPage,
         NEW t, t = [pcb |-> pcb.got, bitmap |-> NoPage, pageDir |-> NoPage]
  PROVE  t \in Task /\ Grows(Memory, pcb, TaskPages(t))
<1>1. pcb.got \in Nat /\ Grows(Memory, pcb, Run(pcb.got, 1))
  BY MallocGrows
<1>2. Run(pcb.got, 1) = {pcb.got}
  BY <1>1 DEF Run
<1>3. t.pcb = pcb.got /\ t.bitmap = NoPage /\ t.pageDir = NoPage
  OBVIOUS
<1>4. TaskPages(t) = {pcb.got}
  BY <1>3 DEF TaskPages
<1> QED BY <1>1, <1>2, <1>4 DEF Task

(* New pages leave what the CPU has cached as right or wrong as it was. *)
LEMMA GrowthFits ==
  ASSUME StaleIsRecent, NEW m, NEW taken, Grows(Memory, m, taken), Fits(Memory),
         Becomes(m), NEW X, tlb' = Cached(X, m.pte), removed' = removed
  PROVE  Fits(Memory)' /\ StaleIsRecent'
<1>1. /\ m.vaddrs \in BitmapType /\ m.frames \in BitmapType
      /\ m.frames.size = m.vaddrs.size
      /\ m.vaddrs.used \subseteq Positions(m.vaddrs)
      /\ m.pte = [p \in m.vaddrs.used |-> m.pte[p]]
      /\ m.frames.used = {m.pte[p] : p \in m.vaddrs.used}
      /\ m.frames.used \subseteq Positions(m.frames)
      /\ \A p, q \in m.vaddrs.used : m.pte[p] = m.pte[q] => p = q
  BY DEF Fits, Grows
<1>2. Memory' = [got |-> NoPage, vaddrs |-> m.vaddrs, frames |-> m.frames, pte |-> m.pte]
  BY DEF Memory, Becomes
<1>3. Fits(Memory)'
  <2> DEFINE n == Memory'
  <2>1. n = [got |-> NoPage, vaddrs |-> m.vaddrs, frames |-> m.frames, pte |-> m.pte]
    BY <1>2
  <2> HIDE DEF n
  <2>2. Fits(n)
    BY <2>1, FitsSame DEF Grows
  <2> QED BY <2>2 DEF n, Fits
<1>4. /\ DOMAIN pte = vaddrs.used /\ vaddrs.used \subseteq m.vaddrs.used
      /\ \A p \in vaddrs.used : m.pte[p] = pte[p]
  BY DEF Fits, Grows, Memory
<1>5. StaleIsRecent'
  <2> SUFFICES ASSUME NEW p \in DOMAIN tlb', Stale(p)'
               PROVE  p \in removed
    BY DEF StaleIsRecent
  <2>1. DOMAIN m.pte = m.vaddrs.used
    BY <1>1
  <2>2. DOMAIN tlb' = (X \cap DOMAIN m.pte) \cup DOMAIN tlb
    BY DEF Cached, Over, Restrict
  <2>3. CASE p \in DOMAIN tlb
    <3>1. tlb'[p] = tlb[p]
      BY <2>2, <2>3 DEF Cached, Over
    <3>2. Stale(p)
      BY <1>4, <2>1, <3>1 DEF Stale, Becomes
    <3> QED BY <2>3, <3>2 DEF StaleIsRecent
  <2>4. CASE p \notin DOMAIN tlb
    <3>1. p \in X \cap DOMAIN m.pte
      BY <2>2, <2>4
    <3>2. tlb'[p] = m.pte[p]
      BY <2>4, <3>1 DEF Cached, Over, Restrict
    <3> QED BY <3>1, <3>2 DEF Stale, Becomes
  <2> QED BY <2>3, <2>4
<1> QED BY <1>3, <1>5

(* Before memPoolInit there are no pages. *)
LEMMA MemoryInit == Init => MemoryInv
<1> SUFFICES ASSUME Init
             PROVE  MemoryInv
  OBVIOUS
<1>1. /\ frames = [size |-> 0, used |-> {}] /\ vaddrs = [size |-> 0, used |-> {}]
      /\ pte = [p \in {} |-> NoPage] /\ tlb = [p \in {} |-> NoPage]
      /\ live = {} /\ task = <<>> /\ failed = "nothing"
  BY DEF Init, bitmapInit, Empty
<1>2. Fits(Memory)
  <2> DEFINE n == Memory
  <2>1. n = [got |-> NoPage, vaddrs |-> vaddrs, frames |-> frames, pte |-> pte]
    BY DEF Memory
  <2> HIDE DEF n
  <2>2. /\ n.got = NoPage /\ n.vaddrs = [size |-> 0, used |-> {}]
        /\ n.frames = [size |-> 0, used |-> {}] /\ n.pte = [p \in {} |-> NoPage]
    BY <1>1, <2>1
  <2>3. n = [got |-> n.got, vaddrs |-> n.vaddrs, frames |-> n.frames, pte |-> n.pte]
    BY <1>1, <2>1, <2>2
  <2>4. n.vaddrs \in BitmapType /\ n.frames \in BitmapType
    BY <2>2 DEF BitmapType
  <2>5. n.pte = [p \in n.vaddrs.used |-> n.pte[p]]
    BY <2>2
  <2>6. Fits(n)
    BY <2>2, <2>3, <2>4, <2>5 DEF Fits
  <2> QED BY <2>6 DEF n
<1>3. Apart
  BY <1>1 DEF Apart
<1>4. StaleIsRecent
  BY <1>1 DEF StaleIsRecent
<1>5. Unused
  BY <1>1 DEF Unused
<1> QED BY <1>2, <1>3, <1>4, <1>5 DEF MemoryInv

(* memPoolInit makes two empty pools, of the same size for the frames and  *)
(* the addresses.                                                          *)
LEMMA MemoryMemInit ==
  ASSUME LayoutInv, MemoryInv, memInit
  PROVE  MemoryInv'
<1>1. /\ task = <<>> /\ live = {} /\ vaddrs.used = {} /\ failed = "nothing"
  BY DEF MemoryInv, Unused, memInit, memPoolInit
<1> DEFINE l == layout'
           n == l.kBits \div ByteBits
<1>2. l = Layout(allFreePages(memCapacity)) /\ memCapacity \in Capacity
  BY DEF memInit, memPoolInit, LayoutInv
<1>3. l.kStart = 512 /\ l.kBits \in Nat /\ l.vaddrBits = l.kBits
  <2> HIDE DEF l
  <2> DEFINE k == ((((memCapacity - 2048) \div 4) % 65536) \div 2)
  <2>1. /\ l.kStart = 512 /\ l.vaddrBits = l.kBits /\ l.kBits = 8 * (k \div 8)
    BY <1>2, LayoutNumbers
  <2>2. 8 * (k \div 8) \in Nat
    BY SMT, <1>2, CapacityAssumption
  <2> QED BY <2>1, <2>2
<1>4. n \in Nat
  BY <1>3, ByteAssumption
<1>5. /\ vaddrs' = [size |-> n, used |-> {}] /\ frames' = [size |-> n, used |-> {}]
      /\ pte' = pte /\ tlb' = tlb /\ live' = {} /\ removed' = removed /\ task' = <<>>
  BY <1>1, <1>3 DEF memInit, bitmapInit
<1> HIDE DEF n
<1>6. pte = [p \in {} |-> pte[p]]
  BY <1>1 DEF MemoryInv, Fits, Memory
<1>7. Fits(Memory)'
  <2> DEFINE m == Memory'
  <2>1. m = [got |-> NoPage, vaddrs |-> vaddrs', frames |-> frames', pte |-> pte]
    BY <1>5 DEF Memory
  <2> HIDE DEF m
  <2>2. /\ m.got = NoPage /\ m.vaddrs = [size |-> n, used |-> {}]
        /\ m.frames = [size |-> n, used |-> {}] /\ m.pte = pte
    BY <1>5, <2>1
  <2>3. m = [got |-> m.got, vaddrs |-> m.vaddrs, frames |-> m.frames, pte |-> m.pte]
    BY <2>1
  <2>4. m.vaddrs \in BitmapType /\ m.frames \in BitmapType
    BY <1>4, <2>2 DEF BitmapType
  <2>5. m.pte = [p \in m.vaddrs.used |-> m.pte[p]]
    BY <1>6, <2>2
  <2>6. Fits(m)
    BY <2>2, <2>3, <2>4, <2>5 DEF Fits
  <2> QED BY <2>6 DEF m, Fits
<1>8. Apart'
  BY <1>5 DEF Apart
<1>9. StaleIsRecent'
  BY <1>5 DEF MemoryInv, StaleIsRecent, Stale
<1>10. layout' # None
  BY <1>3 DEF None
<1> QED BY <1>7, <1>8, <1>9, <1>10 DEF MemoryInv

(* A task that is made of pages that were free. *)
LEMMA MemoryQueue ==
  ASSUME MemoryInv, layout # None, NEW m, NEW t \in Task,
         Grows(Memory, m, TaskPages(t)), Queue(t, m)
  PROVE  MemoryInv'
<1>1. Fits(Memory)' /\ StaleIsRecent'
  BY GrowthFits DEF MemoryInv, Queue
<1>2. /\ vaddrs'.used = vaddrs.used \cup TaskPages(t)
      /\ TaskPages(t) \cap vaddrs.used = {}
  BY DEF Grows, Memory, Queue, Becomes
<1>3. live' = live /\ task' = Append(task, t) /\ layout' = layout
  BY DEF Queue
<1>4. task \in Seq(Task)
  BY DEF MemoryInv, Apart
<1>5. /\ task' \in Seq(Task)
      /\ \A i \in DOMAIN task' : \/ i \in DOMAIN task /\ task'[i] = task[i]
                                 \/ i = Len(task) + 1 /\ task'[i] = t
      /\ Len(task) + 1 \notin DOMAIN task
  <2> DEFINE n == Len(task)
             longer == Append(task, t)
  <2>1. n \in Nat /\ DOMAIN task = 1 .. n
    BY <1>4
  <2>2. /\ longer \in Seq(Task) /\ DOMAIN longer = 1 .. n + 1
        /\ \A i \in 1 .. n : longer[i] = task[i]
        /\ longer[n + 1] = t
    BY <1>4
  <2> HIDE DEF longer, n
  <2>3. task' = longer
    BY <1>3 DEF longer
  <2>4. \A i \in 1 .. n + 1 : i \in 1 .. n \/ i = n + 1
    BY <2>1
  <2>5. n + 1 \notin 1 .. n
    BY <2>1
  <2> QED BY <2>1, <2>2, <2>3, <2>4, <2>5 DEF n
<1>6. Apart'
  <2>1. \A i \in DOMAIN task : /\ TaskPages(task[i]) \subseteq vaddrs.used
                               /\ TaskPages(task[i]) \cap TaskPages(t) = {}
    BY <1>2 DEF MemoryInv, Apart
  <2>2. \A a \in live : /\ Run(a[1], a[2]) \subseteq vaddrs.used
                        /\ Run(a[1], a[2]) \cap TaskPages(t) = {}
    BY <1>2 DEF MemoryInv, Apart
  <2>3. \A i \in DOMAIN task' : TaskPages(task'[i]) \subseteq vaddrs'.used
    BY <1>2, <1>5, <2>1
  <2>4. \A i, j \in DOMAIN task' :
          i # j => TaskPages(task'[i]) \cap TaskPages(task'[j]) = {}
    BY <1>5, <2>1 DEF MemoryInv, Apart
  <2>5. \A a \in live' : Run(a[1], a[2]) \subseteq vaddrs'.used
    BY <1>2, <1>3, <2>2
  <2>6. \A i \in DOMAIN task' : \A a \in live' :
          TaskPages(task'[i]) \cap Run(a[1], a[2]) = {}
    BY <1>3, <1>5, <2>2 DEF MemoryInv, Apart
  <2>7. /\ live' \subseteq Nat \X (Nat \ {0})
        /\ \A a, b \in live' : a # b => Run(a[1], a[2]) \cap Run(b[1], b[2]) = {}
    BY <1>3 DEF MemoryInv, Apart
  <2>8. \A s : TaskPages(s)' = TaskPages(s)
    BY DEF TaskPages
  <2> QED BY <1>5, <2>3, <2>4, <2>5, <2>6, <2>7, <2>8 DEF Apart
<1> QED BY <1>1, <1>3, <1>6 DEF MemoryInv

(* getKernelPages takes pages that were free. *)
LEMMA MemoryGet ==
  ASSUME MemoryInv, NEW cnt \in 1 .. MaxPages, getKernelPages(cnt), Running
  PROVE  MemoryInv'
<1> DEFINE m == Malloc(Memory, cnt)
           taken == Run(m.got, cnt)
<1>1. cnt \in Nat \ {0} /\ Fits(Memory)
  BY TlbAssumption DEF MemoryInv
<1>2. /\ m.got # NoPage /\ Becomes(m) /\ tlb' = Cached(taken, m.pte)
      /\ live' = live \cup {<<m.got, cnt>>} /\ removed' = removed
      /\ layout' = layout /\ task' = task
  BY DEF getKernelPages, Running
<1>3. m.got \in Nat /\ Grows(Memory, m, taken)
  BY <1>1, <1>2, MallocGrows
<1> HIDE DEF m
<1>4. Fits(Memory)' /\ StaleIsRecent'
  <2> HIDE DEF taken
  <2> QED BY <1>1, <1>2, <1>3, GrowthFits DEF MemoryInv
<1>5. vaddrs'.used = vaddrs.used \cup taken /\ taken \cap vaddrs.used = {}
  BY <1>2, <1>3 DEF Grows, Memory, Becomes
<1> DEFINE new == <<m.got, cnt>>
<1>6. new \in Nat \X (Nat \ {0}) /\ Run(new[1], new[2]) = taken
  BY <1>1, <1>3
<1> HIDE DEF new, taken
<1>7. Apart'
  <2>1. \A i \in DOMAIN task : /\ TaskPages(task[i]) \subseteq vaddrs.used
                               /\ TaskPages(task[i]) \cap taken = {}
    BY <1>5 DEF MemoryInv, Apart
  <2>2. \A a \in live : /\ Run(a[1], a[2]) \subseteq vaddrs.used
                        /\ Run(a[1], a[2]) \cap taken = {}
    BY <1>5 DEF MemoryInv, Apart
  <2>3. live' = live \cup {new}
    BY <1>2 DEF new
  <2>4. live' \subseteq Nat \X (Nat \ {0})
    BY <1>6, <2>3 DEF MemoryInv, Apart
  <2>5. \A a \in live' : Run(a[1], a[2]) \subseteq vaddrs'.used
    BY <1>5, <1>6, <2>2, <2>3
  <2>6. \A a, b \in live' : a # b => Run(a[1], a[2]) \cap Run(b[1], b[2]) = {}
    BY <1>6, <2>2, <2>3 DEF MemoryInv, Apart
  <2>7. \A i \in DOMAIN task : \A a \in live' :
          TaskPages(task[i]) \cap Run(a[1], a[2]) = {}
    BY <1>6, <2>1, <2>3 DEF MemoryInv, Apart
  <2>8. \A i \in DOMAIN task : TaskPages(task[i]) \subseteq vaddrs'.used
    BY <1>5, <2>1
  <2>9. /\ task' = task /\ task \in Seq(Task)
        /\ \A i, j \in DOMAIN task :
             i # j => TaskPages(task[i]) \cap TaskPages(task[j]) = {}
    BY <1>2 DEF MemoryInv, Apart
  <2>10. \A s : TaskPages(s)' = TaskPages(s)
    BY DEF TaskPages
  <2> QED BY <2>4, <2>5, <2>6, <2>7, <2>8, <2>9, <2>10 DEF Apart
<1>8. layout # None
  BY DEF MemoryInv, Unused, Running
<1> QED BY <1>2, <1>4, <1>7, <1>8 DEF MemoryInv

(* What is freed is unmapped, and no other page is. *)
LEMMA MemoryFree ==
  ASSUME MemoryInv, NEW a \in live, mfreePage(a), Running
  PROVE  MemoryInv'
<1> DEFINE taken == Run(a[1], a[2])
<1>1. a[1] \in Nat /\ a[2] \in Nat
  BY DEF MemoryInv, Apart
<1>2. /\ vaddrs \in BitmapType /\ frames \in BitmapType
      /\ frames.size = vaddrs.size
      /\ vaddrs.used \subseteq Positions(vaddrs)
      /\ pte = [p \in vaddrs.used |-> pte[p]]
      /\ frames.used = {pte[p] : p \in vaddrs.used}
      /\ frames.used \subseteq Positions(frames)
      /\ \A p, q \in vaddrs.used : pte[p] = pte[q] => p = q
  BY DEF MemoryInv, Fits, Memory
<1>3. taken \subseteq vaddrs.used
  BY DEF MemoryInv, Apart
<1>4. vaddrs' = [size |-> vaddrs.size, used |-> vaddrs.used \ taken]
  <2>1. a[1] \in Int /\ a[2] \in Int /\ vaddrs \in BitmapType
    BY <1>1, <1>2
  <2>2. bitmapSetRun(vaddrs, a[1], a[2], 0)
          = [size |-> vaddrs.size, used |-> vaddrs.used \ (a[1] .. a[1] + a[2] - 1)]
    BY <2>1, SetRunBits, Zenon
  <2> QED BY <2>2 DEF mfreePage, Run
<1> HIDE DEF taken
<1>5. frames' = [size |-> frames.size, used |-> frames.used \ {pte[p] : p \in taken}]
  <2>1. frames' = [frames EXCEPT !.used = @ \ {pte[p] : p \in taken}]
    BY DEF mfreePage, taken
  <2> QED BY <1>2, <2>1 DEF BitmapType
<1>6. /\ pte' = [p \in vaddrs.used \ taken |-> pte[p]] /\ tlb' = tlb
      /\ live' = live \ {a} /\ removed' = removed \cup taken
      /\ task' = task /\ layout' = layout
  <2>1. pte' = Restrict(pte, DOMAIN pte \ taken)
    BY DEF mfreePage, pageTablePteRemove, Without, taken
  <2>2. DOMAIN pte = vaddrs.used
    BY <1>2
  <2>3. pte' = [p \in vaddrs.used \ taken |-> pte[p]]
    BY <2>1, <2>2 DEF Restrict
  <2> QED BY <2>3 DEF mfreePage, pageTablePteRemove, taken, Running
<1>7. frames'.used = {pte'[p] : p \in vaddrs'.used}
  <2>1. \A x \in frames.used : x \notin {pte[p] : p \in taken} =>
                               \E p \in vaddrs.used \ taken : x = pte[p]
    BY <1>2
  <2>2. \A p \in vaddrs.used \ taken : /\ pte[p] \in frames.used
                                       /\ \A q \in taken : pte[p] # pte[q]
    BY <1>2, <1>3
  <2>3. frames'.used = {pte[p] : p \in vaddrs.used \ taken}
    BY <1>5, <2>1, <2>2
  <2>4. vaddrs'.used = vaddrs.used \ taken
    BY <1>4
  <2> QED BY <1>6, <2>3, <2>4
<1>8. Fits(Memory)'
  <2> DEFINE m == Memory'
  <2>1. m = [got |-> NoPage, vaddrs |-> vaddrs', frames |-> frames', pte |-> pte']
    BY DEF Memory
  <2> HIDE DEF m
  <2>2. /\ m.got = NoPage /\ m.vaddrs = vaddrs' /\ m.frames = frames' /\ m.pte = pte'
        /\ m = [got |-> m.got, vaddrs |-> m.vaddrs, frames |-> m.frames, pte |-> m.pte]
    BY <2>1
  <2>3. /\ vaddrs'.size = vaddrs.size /\ vaddrs'.used = vaddrs.used \ taken
        /\ frames'.size = frames.size /\ frames'.used \subseteq frames.used
    BY <1>4, <1>5
  <2>4. m.vaddrs \in BitmapType /\ m.frames \in BitmapType
    <3>1. /\ vaddrs.size \in Nat /\ vaddrs.used \in SUBSET Int
          /\ frames.size \in Nat /\ frames.used \in SUBSET Int
      BY <1>2 DEF BitmapType
    <3>2. /\ vaddrs.used \ taken \in SUBSET Int
          /\ frames.used \ {pte[p] : p \in taken} \in SUBSET Int
      BY <3>1
    <3>3. /\ m.vaddrs = [size |-> vaddrs.size, used |-> vaddrs.used \ taken]
          /\ m.frames = [size |-> frames.size,
                         used |-> frames.used \ {pte[p] : p \in taken}]
      BY <1>4, <1>5, <2>2
    <3> QED BY <3>1, <3>2, <3>3 DEF BitmapType
  <2>5. /\ m.frames.size = m.vaddrs.size
        /\ m.vaddrs.used \subseteq Positions(m.vaddrs)
        /\ m.frames.used \subseteq Positions(m.frames)
    BY <1>2, <2>2, <2>3 DEF Positions
  <2>6. m.pte = [p \in m.vaddrs.used |-> m.pte[p]]
    BY <1>6, <2>2, <2>3
  <2>7. m.frames.used = {m.pte[p] : p \in m.vaddrs.used}
    BY <1>7, <2>2
  <2>8. \A p, q \in m.vaddrs.used : m.pte[p] = m.pte[q] => p = q
    BY <1>2, <1>6, <2>2, <2>3
  <2>9. Fits(m)
    BY <2>2, <2>4, <2>5, <2>6, <2>7, <2>8, Zenon DEF Fits
  <2> QED BY <2>9 DEF m, Fits
<1>9. Apart'
  <2>1. \A i \in DOMAIN task : /\ TaskPages(task[i]) \subseteq vaddrs.used
                               /\ TaskPages(task[i]) \cap taken = {}
    BY DEF MemoryInv, Apart, taken
  <2>2. \A b \in live \ {a} : /\ Run(b[1], b[2]) \subseteq vaddrs.used
                              /\ Run(b[1], b[2]) \cap taken = {}
    BY DEF MemoryInv, Apart, taken
  <2>3. vaddrs'.used = vaddrs.used \ taken
    BY <1>4
  <2>4. \A i \in DOMAIN task : TaskPages(task[i]) \subseteq vaddrs'.used
    BY <2>1, <2>3
  <2>5. \A b \in live \ {a} : Run(b[1], b[2]) \subseteq vaddrs'.used
    BY <2>2, <2>3
  <2>6. /\ task \in Seq(Task)
        /\ \A i, j \in DOMAIN task :
             i # j => TaskPages(task[i]) \cap TaskPages(task[j]) = {}
        /\ live \ {a} \subseteq Nat \X (Nat \ {0})
        /\ \A b, c \in live \ {a} : b # c => Run(b[1], b[2]) \cap Run(c[1], c[2]) = {}
        /\ \A i \in DOMAIN task : \A b \in live \ {a} :
             TaskPages(task[i]) \cap Run(b[1], b[2]) = {}
    BY DEF MemoryInv, Apart
  <2>7. \A s : TaskPages(s)' = TaskPages(s)
    BY DEF TaskPages
  <2> QED BY <1>6, <2>4, <2>5, <2>6, <2>7 DEF Apart
<1>10. StaleIsRecent'
  <2> SUFFICES ASSUME NEW p \in DOMAIN tlb', Stale(p)', p \notin taken
               PROVE  p \in removed
    BY <1>6 DEF StaleIsRecent
  <2>1. DOMAIN pte' = vaddrs.used \ taken /\ DOMAIN pte = vaddrs.used
    BY <1>2, <1>6
  <2>2. p \in DOMAIN pte => pte'[p] = pte[p]
    BY <1>6, <2>1
  <2>3. Stale(p)
    BY <1>6, <2>1, <2>2 DEF Stale
  <2> QED BY <1>6, <2>3 DEF MemoryInv, StaleIsRecent
<1>11. layout # None
  BY DEF MemoryInv, Unused, Running
<1> QED BY <1>6, <1>8, <1>9, <1>10, <1>11 DEF MemoryInv

(* What the CPU does by itself. *)
LEMMA MemoryAccess ==
  ASSUME MemoryInv, NEW p, Access(p) \/ pageDirActivate, Running
  PROVE  MemoryInv'
<1>1. UNCHANGED <<frames, vaddrs, pte, live, task, layout>>
  BY DEF Access, pageDirActivate, Running
<1>2. Fits(Memory)'
  BY <1>1 DEF MemoryInv, Memory, Fits
<1>3. Apart'
  <2>1. \A s : TaskPages(s)' = TaskPages(s)
    BY DEF TaskPages
  <2>2. vaddrs' = vaddrs /\ live' = live /\ task' = task
    BY <1>1
  <2>3. Apart
    BY DEF MemoryInv
  <2> QED BY <2>1, <2>2, <2>3 DEF Apart
<1>4. StaleIsRecent'
  <2>1. CASE pageDirActivate
    BY <2>1 DEF pageDirActivate, Empty, StaleIsRecent
  <2>2. CASE Access(p)
    <3> SUFFICES ASSUME NEW q \in DOMAIN tlb', Stale(q)'
                 PROVE  q \in removed'
      BY DEF StaleIsRecent
    <3>1. /\ DOMAIN tlb' = ({p} \cap DOMAIN pte) \cup DOMAIN tlb /\ removed' = removed
          /\ \A x \in DOMAIN tlb : tlb'[x] = tlb[x]
          /\ p \in DOMAIN pte => tlb'[p] = pte[p]
      BY <2>2 DEF Access, Cached, Over, Restrict
    <3>2. q \in DOMAIN tlb /\ Stale(q)
      BY <1>1, <3>1 DEF Stale
    <3> QED BY <3>1, <3>2 DEF MemoryInv, StaleIsRecent
  <2> QED BY <2>1, <2>2
<1>5. layout # None
  BY DEF MemoryInv, Unused, Running
<1> QED BY <1>1, <1>2, <1>3, <1>4, <1>5 DEF MemoryInv

(* Steps that leave the memory alone. *)
LEMMA MemorySame ==
  ASSUME MemoryInv, UNCHANGED <<frames, vaddrs, pte, tlb, live, removed, task>>,
         layout = None => UNCHANGED <<layout, failed>>, layout # None => layout' # None
  PROVE  MemoryInv'
<1>1. Fits(Memory)'
  BY DEF MemoryInv, Memory, Fits
<1>2. Apart'
  <2>1. \A s : TaskPages(s)' = TaskPages(s)
    BY DEF TaskPages
  <2> QED BY <2>1 DEF MemoryInv, Apart
<1>3. StaleIsRecent'
  BY DEF MemoryInv, StaleIsRecent, Stale
<1>4. layout' = None => Unused'
  BY DEF MemoryInv, Unused
<1> QED BY <1>1, <1>2, <1>3, <1>4 DEF MemoryInv

(* threadStart keeps the invariant whether it gets its page or not. *)
LEMMA MemoryThread ==
  ASSUME MemoryInv, threadStart
  PROVE  MemoryInv'
<1> DEFINE pcb == Malloc(Memory, 1)
           t == [pcb |-> pcb.got, bitmap |-> NoPage, pageDir |-> NoPage]
<1>1. layout # None /\ Fits(Memory)
  BY DEF MemoryInv, threadStart, Booting
<1>2. CASE pcb.got = NoPage
  <2>1. Fail("page 0 taken for a PCB")
    BY <1>2 DEF threadStart
  <2> QED BY <1>1, <2>1, MemorySame DEF Fail, pageVars
<1>3. CASE pcb.got # NoPage
  <2>1. Queue(t, pcb)
    BY <1>3 DEF threadStart
  <2>2. t \in Task /\ Grows(Memory, pcb, TaskPages(t))
    <3> HIDE DEF pcb
    <3> QED BY <1>1, <1>3, ThreadGrows DEF pcb
  <2> HIDE DEF pcb, t
  <2> QED BY <1>1, <2>1, <2>2, MemoryQueue
<1> QED BY <1>2, <1>3

(* processExecute keeps the invariant, with each of its three requests     *)
(* granted or not.                                                         *)
LEMMA MemoryProcess ==
  ASSUME MemoryInv, processExecute
  PROVE  MemoryInv'
<1> DEFINE pcb == Malloc(Memory, 1)
           bitmap == Malloc(pcb, bitmapPgCnt)
           dir == Malloc(bitmap, 1)
           t == [pcb |-> pcb.got, bitmap |-> bitmap.got, pageDir |-> dir.got]
<1>1. layout # None /\ Fits(Memory)
  BY DEF MemoryInv, processExecute, Booting
<1>2. CASE pcb.got = NoPage \/ bitmap.got = NoPage
  <2>1. Fail("page 0 taken for a PCB") \/ Fail("ASSERT(dst != NULL)")
    BY <1>2 DEF processExecute
  <2> QED BY <1>1, <2>1, MemorySame DEF Fail, pageVars
<1>3. CASE pcb.got # NoPage /\ bitmap.got # NoPage
  <2>1. Queue(t, dir)
    BY <1>3 DEF processExecute
  <2>2. t \in Task /\ Grows(Memory, dir, TaskPages(t))
    <3>1. pcb = Malloc(Memory, 1) /\ bitmap = Malloc(pcb, bitmapPgCnt)
          /\ dir = Malloc(bitmap, 1)
          /\ t = [pcb |-> pcb.got, bitmap |-> bitmap.got, pageDir |-> dir.got]
      OBVIOUS
    <3> HIDE DEF t, dir, bitmap, pcb
    <3> QED BY <1>1, <1>3, <3>1, ProcessGrows
  <2> HIDE DEF t, dir, bitmap, pcb
  <2> QED BY <1>1, <2>1, <2>2, MemoryQueue
<1> QED BY <1>2, <1>3

(* The invariant of the memory, for every step of Startup. *)
LEMMA MemoryInvariant == Spec => []MemoryInv
<1>1. Init => MemoryInv
  BY MemoryInit
<1>2. MemoryInv /\ LayoutInv /\ [Next]_vars => MemoryInv'
  <2> SUFFICES ASSUME MemoryInv, LayoutInv, [Next]_vars
               PROVE  MemoryInv'
    OBVIOUS
  <2>1. CASE memInit
    BY <2>1, MemoryMemInit
  <2>2. CASE processExecute
    BY <2>2, MemoryProcess
  <2>3. CASE threadStart
    BY <2>3, MemoryThread
  <2>4. CASE Running /\ \E cnt \in 1 .. MaxPages : getKernelPages(cnt)
    BY <2>4, MemoryGet
  <2>5. CASE Running /\ \E a \in live : mfreePage(a)
    BY <2>5, MemoryFree
  <2>6. CASE Running /\ \E p \in LivePages : Access(p)
    BY <2>6, MemoryAccess
  <2>7. CASE Running /\ pageDirActivate
    BY <2>7, MemoryAccess
  <2>8. CASE UNCHANGED vars
    BY <2>8, MemorySame DEF vars, pageVars
  <2> QED BY <2>1, <2>2, <2>3, <2>4, <2>5, <2>6, <2>7, <2>8 DEF Next
<1> QED BY <1>1, <1>2, LayoutInvariant, PTL DEF Spec

(***************************************************************************)
(* What the CPU has cached of a page is wrong only if the page was         *)
(* unmapped after the last load of cr3: mfreePage, whose invlpg misses,    *)
(* and getKernelPages, which does none, do no other damage.                *)
(***************************************************************************)
THEOREM WrongForOneTurn == Spec => []StaleIsRecent
<1>1. MemoryInv => StaleIsRecent
  BY DEF MemoryInv
<1> QED BY <1>1, MemoryInvariant, PTL

(***************************************************************************)
(* Whatever memory there is, for whatever requests: the tasks of main()    *)
(* share no page with each other or with what threads are given, every     *)
(* page they have stays mapped, and no two pages have the same frame.      *)
(***************************************************************************)
THEOREM TasksStayApart == Spec => []TasksApart
<1>1. MemoryInv => TasksApart
  <2> SUFFICES ASSUME MemoryInv
               PROVE  TasksApart
    OBVIOUS
  <2>1. DOMAIN pte = vaddrs.used /\ \A p, q \in vaddrs.used : pte[p] = pte[q] => p = q
    BY DEF MemoryInv, Fits, Memory
  <2>2. \A i \in DOMAIN task : /\ TaskPages(task[i]) \cap LivePages = {}
                               /\ TaskPages(task[i]) \subseteq DOMAIN pte
    BY <2>1 DEF MemoryInv, Apart, LivePages
  <2>3. \A i, j \in DOMAIN task :
          i # j => TaskPages(task[i]) \cap TaskPages(task[j]) = {}
    BY DEF MemoryInv, Apart
  <2>4. /\ vaddrBytes <= bitmapPgCnt * PG_SIZE
        /\ USER_STACK3_VADDR - USER_VADDR_START = 8 * vaddrBytes - 1
    BY SMT, BitmapPages
  <2> QED BY <2>1, <2>2, <2>3, <2>4, Zenon DEF TasksApart
<1> QED BY <1>1, MemoryInvariant, PTL

-----------------------------------------------------------------------------
(***************************************************************************)
(* While tasks are made, the pages in use are the first ones: how many     *)
(* there are after n tasks, in a pool of k pages.                          *)
(***************************************************************************)
FirstPages(n, used, k) ==
  /\ n = 0 => used = {}
  /\ n = 1 => used = 0 .. 24 \/ (used = 0 .. 23 /\ k = 24)
  /\ n = 2 => used = 0 .. 49
  /\ n = 3 => used = 0 .. 50
  /\ n >= 2 => k >= 56

BootInv ==
  /\ task \in Seq(Task) /\ Len(task) <= 4
  /\ live # {} => Len(task) = 4
  /\ layout = None => task = <<>>
  /\ layout # None => /\ layout.kBits \in Nat /\ layout.kBits % 8 = 0
                      /\ vaddrs.size * ByteBits = layout.kBits
                      /\ layout.kBits >= 52 => failed = "nothing"
  /\ layout # None /\ failed = "nothing" =>
       FirstPages(Len(task), vaddrs.used, layout.kBits)
  /\ \A i \in {1, 2} \cap DOMAIN task : task[i].pageDir = NoPage => layout.kBits = 24

(* mallocPage when the first u pages are in use and the others are not. *)
LEMMA MallocFirst ==
  ASSUME NEW m, Fits(m), NEW k \in Nat, m.vaddrs.size * ByteBits = k,
         NEW u \in Nat, m.vaddrs.used = 0 .. u - 1, NEW cnt \in Nat \ {0}
  PROVE  /\ Fits(Malloc(m, cnt))
         /\ Malloc(m, cnt).vaddrs.size = m.vaddrs.size
         /\ u + cnt <= k => /\ Malloc(m, cnt).got # NoPage
                            /\ Malloc(m, cnt).vaddrs.used = 0 .. (u + cnt) - 1
         /\ u + cnt > k => /\ Malloc(m, cnt).got = NoPage
                           /\ Malloc(m, cnt).vaddrs.used = 0 .. u - 1
<1> DEFINE r == Malloc(m, cnt)
           R == Runs(m.vaddrs, cnt)
<1>1. Positions(m.vaddrs) = 0 .. k - 1
  BY DEF Positions
<1>2. \A i \in R : i \in Int /\ i >= u /\ i + cnt <= k
  <2> SUFFICES ASSUME NEW i \in R
               PROVE  i \in Int /\ i >= u /\ i + cnt <= k
    OBVIOUS
  <2>1. i \in Nat /\ i .. i + cnt - 1 \subseteq (0 .. k - 1) \ (0 .. u - 1)
    BY <1>1 DEF Runs
  <2>2. i \in i .. i + cnt - 1 /\ i + cnt - 1 \in i .. i + cnt - 1
    BY <2>1
  <2>3. i \in (0 .. k - 1) \ (0 .. u - 1) /\ i + cnt - 1 \in 0 .. k - 1
    BY <2>1, <2>2
  <2> QED BY <2>1, <2>3
<1>3. ASSUME u + cnt <= k
      PROVE  R # {} /\ Min(R) = u
  <2>1. u \in R
    <3>1. u \in 0 .. k - 1 /\ u .. u + cnt - 1 \subseteq (0 .. k - 1) \ (0 .. u - 1)
      BY <1>3
    <3> QED BY <1>1, <3>1 DEF Runs
  <2>2. R \in SUBSET Int /\ \A i \in R : u <= i
    BY <1>2
  <2> HIDE DEF R
  <2> QED BY <2>1, <2>2, MinUnique
<1>4. (r.got = NoPage /\ R = {} /\ Grows(m, r, {}))
      \/ (r.got # NoPage /\ r.got = Min(R) /\ R # {} /\ Grows(m, r, Run(r.got, cnt)))
  BY MallocGrows
<1> HIDE DEF r, R
<1>5. Fits(r) /\ r.vaddrs.size = m.vaddrs.size
  BY <1>4 DEF Grows
<1>6. ASSUME u + cnt <= k
      PROVE  r.got # NoPage /\ r.vaddrs.used = 0 .. (u + cnt) - 1
  <2>1. r.got # NoPage /\ Grows(m, r, u .. u + cnt - 1)
    BY <1>3, <1>4, <1>6 DEF Run
  <2>2. r.vaddrs.used = (0 .. u - 1) \cup (u .. u + cnt - 1)
    BY <2>1 DEF Grows
  <2> QED BY <2>1, <2>2
<1>7. ASSUME u + cnt > k
      PROVE  r.got = NoPage /\ r.vaddrs.used = 0 .. u - 1
  <2>1. R = {}
    BY <1>2, <1>7
  <2> QED BY <1>4, <2>1 DEF Grows
<1> QED BY <1>5, <1>6, <1>7 DEF r

(* The same in two words: m has given the first u of its k pages. *)
FirstGiven(m, k, u) ==
  Fits(m) /\ m.vaddrs.size * ByteBits = k /\ m.vaddrs.used = 0 .. u - 1
NextGiven(m, n, k, u, cnt) ==
  /\ Fits(n) /\ n.vaddrs.size = m.vaddrs.size
  /\ u + cnt <= k => n.got # NoPage /\ n.vaddrs.used = 0 .. (u + cnt) - 1
  /\ u + cnt > k => n.got = NoPage

LEMMA MallocNext ==
  ASSUME NEW m, NEW k \in Nat, NEW u \in Nat, NEW cnt \in Nat \ {0}, FirstGiven(m, k, u)
  PROVE  NextGiven(m, Malloc(m, cnt), k, u, cnt)
<1>1. Fits(m) /\ m.vaddrs.size * ByteBits = k /\ m.vaddrs.used = 0 .. u - 1
  BY DEF FirstGiven
<1> QED BY <1>1, MallocFirst DEF NextGiven

(* A task is put on the ready list; k and n are its pool and its place. *)
LEMMA BootQueue ==
  ASSUME BootInv, layout # None, failed = "nothing", live = {},
         NEW t \in Task, NEW m, Queue(t, m), m.vaddrs.size = vaddrs.size,
         NEW n, n = Len(task), n <= 3,
         FirstPages(n + 1, m.vaddrs.used, layout.kBits),
         n < 2 /\ t.pageDir = NoPage => layout.kBits = 24
  PROVE  BootInv'
<1>1. /\ vaddrs' = m.vaddrs /\ live' = {} /\ task' = Append(task, t)
      /\ layout' = layout /\ failed' = failed
  BY DEF Queue, Becomes
<1>2. task \in Seq(Task) /\ n \in Nat /\ DOMAIN task = 1 .. n
  BY DEF BootInv
<1> DEFINE longer == Append(task, t)
<1>3. /\ longer \in Seq(Task) /\ DOMAIN longer = 1 .. n + 1 /\ Len(longer) = n + 1
      /\ \A i \in 1 .. n : longer[i] = task[i]
      /\ longer[n + 1] = t
  BY <1>2
<1> HIDE DEF longer
<1>4. task' = longer
  BY <1>1 DEF longer
<1>5. \A i \in {1, 2} \cap DOMAIN task' :
        task'[i].pageDir = NoPage => layout'.kBits = 24
  <2> SUFFICES ASSUME NEW i \in {1, 2} \cap DOMAIN task', task'[i].pageDir = NoPage
               PROVE  layout.kBits = 24
    BY <1>1
  <2>1. CASE i \in 1 .. n
    BY <1>2, <1>3, <1>4, <2>1 DEF BootInv
  <2>2. CASE i = n + 1
    BY <1>2, <1>3, <1>4, <2>2
  <2> QED BY <1>2, <1>3, <1>4, <2>1, <2>2
<1>6. task' \in Seq(Task) /\ Len(task') <= 4 /\ Len(task') = n + 1
  BY <1>2, <1>3, <1>4
<1>7. FirstPages(Len(task'), vaddrs'.used, layout'.kBits)
  BY <1>1, <1>6
<1>8. layout' # None => /\ layout'.kBits \in Nat /\ layout'.kBits % 8 = 0
                        /\ vaddrs'.size * ByteBits = layout'.kBits
                        /\ layout'.kBits >= 52 => failed' = "nothing"
  BY <1>1 DEF BootInv
<1> QED BY <1>1, <1>5, <1>6, <1>7, <1>8 DEF BootInv

(* A page is missing, in a small pool. *)
LEMMA BootFail ==
  ASSUME BootInv, layout # None, ~ (layout.kBits >= 52), NEW how, how # "nothing", Fail(how)
  PROVE  BootInv'
<1>1. UNCHANGED <<memCapacity, layout, vaddrs, live, task>> /\ failed' = how
  BY DEF Fail, pageVars
<1> QED BY <1>1 DEF BootInv

(* Steps that make no task, and those that are taken when all are made. *)
LEMMA BootSame ==
  ASSUME BootInv, UNCHANGED <<layout, task, failed>>, vaddrs'.size = vaddrs.size,
         \/ Len(task) = 4
         \/ vaddrs' = vaddrs /\ live' = live
  PROVE  BootInv'
<1>1. CASE Len(task) = 4
  BY <1>1 DEF BootInv, FirstPages
<1>2. CASE vaddrs' = vaddrs /\ live' = live
  BY <1>2 DEF BootInv
<1> QED BY <1>1, <1>2

(* The first pages of a new pool are free, and it has a multiple of 8      *)
(* pages.                                                                  *)
LEMMA BootMemInit ==
  ASSUME ByteBits = 8, LayoutInv, MemoryInv, BootInv, memInit
  PROVE  BootInv'
<1>1. task = <<>> /\ live = {} /\ failed = "nothing"
  BY DEF MemoryInv, Unused, memInit, memPoolInit
<1> DEFINE l == layout'
           k == ((((memCapacity - 2048) \div 4) % 65536) \div 2) \div 8
<1>2. l = Layout(allFreePages(memCapacity)) /\ memCapacity \in Capacity
  BY DEF memInit, memPoolInit, LayoutInv
<1>3. k \in Nat
  BY SMT, <1>2, CapacityAssumption
<1>4. l.kBits = 8 * k /\ l.vaddrBits = l.kBits
  <2> HIDE DEF l
  <2> QED BY <1>2, LayoutNumbers
<1> HIDE DEF k
<1>5. l.kBits \in Nat /\ l.kBits % 8 = 0 /\ l.vaddrBits \div ByteBits = k
  BY <1>3, <1>4
<1>6. vaddrs' = [size |-> k, used |-> {}] /\ task' = <<>> /\ live' = {}
        /\ failed' = "nothing"
  BY <1>1, <1>5 DEF memInit, bitmapInit
<1>7. vaddrs'.size * ByteBits = l.kBits
  BY <1>3, <1>4, <1>6
<1>8. FirstPages(Len(task'), vaddrs'.used, l.kBits)
  BY <1>6 DEF FirstPages
<1> HIDE DEF l
<1> QED BY <1>5, <1>6, <1>7, <1>8 DEF BootInv, l

(* Both kernel threads get their page: the two processes, which took 50,   *)
(* left at least 6.                                                        *)
LEMMA BootThread ==
  ASSUME MemoryInv, BootInv, threadStart
  PROVE  BootInv'
<1>1. PICK n : n = Len(task)
  OBVIOUS
<1> DEFINE k == layout.kBits
           u == IF n = 2 THEN 50 ELSE 51
           pcb == Malloc(Memory, 1)
           t == [pcb |-> pcb.got, bitmap |-> NoPage, pageDir |-> NoPage]
<1>2. layout # None /\ failed = "nothing" /\ (n = 2 \/ n = 3) /\ Fits(Memory)
  BY <1>1 DEF threadStart, Booting, MemoryInv
<1>3. live = {} /\ k \in Nat /\ k >= 56 /\ vaddrs.used = 0 .. u - 1
      /\ vaddrs.size * ByteBits = k
  <2>1. /\ live = {} /\ k \in Nat /\ k >= 56 /\ vaddrs.size * ByteBits = k
        /\ n = 2 => vaddrs.used = 0 .. 49
        /\ n = 3 => vaddrs.used = 0 .. 50
    <3>1. FirstPages(n, vaddrs.used, k) /\ k \in Nat /\ vaddrs.size * ByteBits = k
      BY <1>1, <1>2 DEF BootInv
    <3>2. live = {}
      <4>1. live # {} => n = 4
        BY <1>1 DEF BootInv
      <4> QED BY <1>2, <4>1
    <3>3. n >= 2
      BY <1>2
    <3> HIDE DEF k
    <3> QED BY <1>2, <3>1, <3>2, <3>3 DEF FirstPages
  <2>2. CASE n = 2
    <3>1. u = 50 /\ u - 1 = 49
      BY <2>2
    <3> HIDE DEF u
    <3> QED BY <2>1, <2>2, <3>1
  <2>3. CASE n = 3
    <3>1. u = 51 /\ u - 1 = 50
      BY <2>3
    <3> HIDE DEF u
    <3> QED BY <2>1, <2>3, <3>1
  <2> QED BY <1>2, <2>2, <2>3
<1>4. Memory.vaddrs = vaddrs
  BY DEF Memory
<1>5. /\ pcb.vaddrs.size = vaddrs.size
      /\ pcb.got # NoPage
      /\ pcb.vaddrs.used = 0 .. u
  <2>1. u \in Nat /\ u + 1 <= k /\ (u + 1) - 1 = u
    BY <1>2, <1>3
  <2> DEFINE m == Memory
  <2>2. /\ Fits(m) /\ m.vaddrs.size * ByteBits = k /\ m.vaddrs.used = 0 .. u - 1
        /\ 1 \in Nat \ {0} /\ m.vaddrs = vaddrs /\ u \in Nat /\ k \in Nat
    BY <1>2, <1>3, <1>4, <2>1
  <2> HIDE DEF u, k, m
  <2>3. /\ Malloc(m, 1).vaddrs.size = m.vaddrs.size
        /\ u + 1 <= k => /\ Malloc(m, 1).got # NoPage
                         /\ Malloc(m, 1).vaddrs.used = 0 .. (u + 1) - 1
    BY <2>2, MallocFirst
  <2> QED BY <2>1, <2>2, <2>3 DEF m
<1>6. Queue(t, pcb)
  BY <1>5 DEF threadStart
<1>7. t \in Task
  <2> HIDE DEF pcb
  <2> QED BY <1>2, <1>5, ThreadGrows DEF pcb
<1> HIDE DEF t, pcb
<1>8. FirstPages(n + 1, pcb.vaddrs.used, k)
  <2>1. n + 1 = 3 \/ n + 1 = 4
    BY <1>2
  <2>2. n + 1 = 3 => u = 50
    BY <1>2
  <2> HIDE DEF u
  <2>3. pcb.vaddrs.used = 0 .. 50 \/ n + 1 = 4
    BY <1>5, <2>1, <2>2
  <2>4. n + 1 = 3 => pcb.vaddrs.used = 0 .. 50
    BY <1>5, <2>2
  <2> HIDE DEF k
  <2>5. \A used : FirstPages(4, used, k)
    BY <1>3 DEF FirstPages
  <2>6. FirstPages(3, 0 .. 50, k)
    BY <1>3 DEF FirstPages
  <2>7. n + 1 = 3 => FirstPages(n + 1, pcb.vaddrs.used, k)
    BY <2>4, <2>6
  <2>8. n + 1 = 4 => FirstPages(n + 1, pcb.vaddrs.used, k)
    BY <2>5
  <2> QED BY <2>1, <2>7, <2>8
<1>9. n <= 3 /\ ~ (n < 2) /\ n = Len(task)
  BY <1>1, <1>2
<1> QED BY <1>2, <1>3, <1>5, <1>6, <1>7, <1>8, <1>9, BootQueue

(* A process takes 25 pages. In a pool of 24 its page directory is         *)
(* missing; in other pools that are too small it is the PCB or the user    *)
(* bitmap, and that is noticed.                                            *)
LEMMA BootProcess ==
  ASSUME MemoryInv, BootInv, processExecute
  PROVE  BootInv'
<1>1. PICK n : n = Len(task)
  OBVIOUS
<1> DEFINE k == layout.kBits
           u == IF n = 0 THEN 0 ELSE IF k = 24 THEN 24 ELSE 25
           pcb == Malloc(Memory, 1)
           bitmap == Malloc(pcb, bitmapPgCnt)
           dir == Malloc(bitmap, 1)
           t == [pcb |-> pcb.got, bitmap |-> bitmap.got, pageDir |-> dir.got]
<1>2. layout # None /\ failed = "nothing" /\ (n = 0 \/ n = 1) /\ Fits(Memory)
  BY <1>1 DEF processExecute, Booting, MemoryInv
<1>3. live = {} /\ k \in Nat /\ k % 8 = 0 /\ vaddrs.size * ByteBits = k
  <2>1. live # {} => n = 4
    BY <1>1 DEF BootInv
  <2>2. live = {}
    BY <1>2, <2>1
  <2> QED BY <1>2, <2>2 DEF BootInv
<1>4. u \in Nat /\ vaddrs.used = 0 .. u - 1
  <2>1. CASE n = 0
    BY <1>1, <1>2, <2>1 DEF BootInv, FirstPages
  <2>2. CASE n = 1
    <3>1. vaddrs.used = 0 .. 24 \/ (vaddrs.used = 0 .. 23 /\ k = 24)
      BY <1>1, <1>2, <2>2 DEF BootInv, FirstPages
    <3>2. vaddrs.used \subseteq 0 .. k - 1
      BY <1>3 DEF MemoryInv, Fits, Memory, Positions
    <3>3. vaddrs.used = 0 .. 24 => k # 24
      BY <1>3, <3>2, 24 \in 0 .. 24
    <3>4. CASE vaddrs.used = 0 .. 24
      <4>1. u = 25 /\ u - 1 = 24
        BY <2>2, <3>3, <3>4
      <4> HIDE DEF u
      <4> QED BY <3>4, <4>1
    <3>5. CASE vaddrs.used = 0 .. 23 /\ k = 24
      <4>1. u = 24 /\ u - 1 = 23
        BY <2>2, <3>5
      <4> HIDE DEF u
      <4> QED BY <3>5, <4>1
    <3> QED BY <3>1, <3>4, <3>5
  <2> QED BY <1>2, <2>1, <2>2
<1>5. Memory.vaddrs = vaddrs /\ bitmapPgCnt = 23
  BY BitmapPages DEF Memory
<1>6. /\ Fits(pcb) /\ pcb.vaddrs.size = vaddrs.size
      /\ u + 1 <= k => pcb.got # NoPage /\ pcb.vaddrs.used = 0 .. u
      /\ u + 1 > k => pcb.got = NoPage
  <2>1. (u + 1) - 1 = u
    BY <1>4
  <2> DEFINE m == Memory
  <2>2. /\ Fits(m) /\ m.vaddrs.size * ByteBits = k /\ m.vaddrs.used = 0 .. u - 1
        /\ 1 \in Nat \ {0} /\ m.vaddrs = vaddrs /\ u \in Nat /\ k \in Nat
    BY <1>2, <1>3, <1>4, <1>5
  <2> HIDE DEF u, k, m
  <2>3. /\ Fits(Malloc(m, 1)) /\ Malloc(m, 1).vaddrs.size = m.vaddrs.size
        /\ u + 1 <= k => /\ Malloc(m, 1).got # NoPage
                         /\ Malloc(m, 1).vaddrs.used = 0 .. (u + 1) - 1
        /\ u + 1 > k => Malloc(m, 1).got = NoPage
    BY <2>2, MallocFirst
  <2> QED BY <2>1, <2>2, <2>3 DEF m
<1>7. ASSUME u + 1 <= k
      PROVE  /\ Fits(bitmap) /\ bitmap.vaddrs.size = vaddrs.size
             /\ u + 24 <= k => bitmap.got # NoPage /\ bitmap.vaddrs.used = 0 .. u + 23
             /\ u + 24 > k => bitmap.got = NoPage
  <2> DEFINE v == u + 1
  <2>1. v \in Nat /\ v + 23 = u + 24 /\ (v + 23) - 1 = u + 23
        /\ pcb.vaddrs.used = 0 .. v - 1
    BY <1>4, <1>6, <1>7
  <2> DEFINE c == bitmapPgCnt
  <2>2. /\ Fits(pcb) /\ pcb.vaddrs.size * ByteBits = k /\ k \in Nat
        /\ pcb.vaddrs.used = 0 .. v - 1 /\ v \in Nat /\ c \in Nat \ {0}
    BY <1>3, <1>5, <1>6, <1>7, <2>1
  <2> HIDE DEF u, k, pcb, v, c
  <2>3. /\ Fits(Malloc(pcb, c)) /\ Malloc(pcb, c).vaddrs.size = pcb.vaddrs.size
        /\ v + c <= k => /\ Malloc(pcb, c).got # NoPage
                         /\ Malloc(pcb, c).vaddrs.used = 0 .. (v + c) - 1
        /\ v + c > k => Malloc(pcb, c).got = NoPage
    <3>1. FirstGiven(pcb, k, v)
      BY <2>2 DEF FirstGiven
    <3>2. NextGiven(pcb, Malloc(pcb, c), k, v, c)
      BY <2>2, <3>1, MallocNext
    <3> QED BY <3>2 DEF NextGiven
  <2>4. bitmap = Malloc(pcb, c) /\ c = 23
    BY <1>5 DEF c
  <2> HIDE DEF bitmap
  <2> QED BY <1>6, <2>1, <2>3, <2>4
<1>8. ASSUME u + 24 <= k
      PROVE  /\ dir.vaddrs.size = vaddrs.size
             /\ u + 25 <= k => dir.got # NoPage /\ dir.vaddrs.used = 0 .. u + 24
             /\ u + 25 > k => dir.vaddrs.used = 0 .. u + 23
  <2> DEFINE v == u + 24
  <2>1. v \in Nat /\ v + 1 = u + 25 /\ (v + 1) - 1 = u + 24 /\ v - 1 = u + 23
        /\ u + 1 <= k
    BY <1>3, <1>4, <1>8
  <2>2. /\ Fits(bitmap) /\ bitmap.vaddrs.size = vaddrs.size
        /\ bitmap.vaddrs.used = 0 .. v - 1
    BY <1>7, <1>8, <2>1
  <2> DEFINE m == bitmap
  <2>3. /\ Fits(m) /\ m.vaddrs.size * ByteBits = k /\ k \in Nat
        /\ m.vaddrs.used = 0 .. v - 1 /\ 1 \in Nat \ {0}
    <3> HIDE DEF k, v, bitmap
    <3> QED BY <1>3, <2>2
  <2> HIDE DEF u, k, v, m
  <2>4. /\ Malloc(m, 1).vaddrs.size = m.vaddrs.size
        /\ v + 1 <= k => /\ Malloc(m, 1).got # NoPage
                         /\ Malloc(m, 1).vaddrs.used = 0 .. (v + 1) - 1
        /\ v + 1 > k => Malloc(m, 1).vaddrs.used = 0 .. v - 1
    BY <2>1, <2>3, MallocFirst
  <2>5. dir = Malloc(m, 1) /\ m.vaddrs.size = vaddrs.size
    BY <2>2 DEF m
  <2> HIDE DEF dir
  <2> QED BY <2>1, <2>4, <2>5
<1>9. CASE u + 24 > k
  <2>1. \E how : how # "nothing" /\ Fail(how)
    <3>1. pcb.got = NoPage \/ bitmap.got = NoPage
      <4> HIDE DEF u, k, pcb, bitmap
      <4> QED BY <1>3, <1>4, <1>6, <1>7, <1>9
    <3>2. Fail("page 0 taken for a PCB") \/ Fail("ASSERT(dst != NULL)")
      BY <3>1 DEF processExecute
    <3> QED BY <3>2
  <2>2. ~ (k >= 52)
    BY <1>3, <1>9
  <2> QED BY <1>2, <2>1, <2>2, BootFail
<1>10. CASE u + 24 <= k
  <2>1. u + 1 <= k
    BY <1>3, <1>4, <1>10
  <2>2. pcb.got # NoPage /\ bitmap.got # NoPage
    <3> HIDE DEF u, k, pcb, bitmap
    <3> QED BY <1>6, <1>7, <1>10, <2>1
  <2>3. Queue(t, dir)
    BY <2>2 DEF processExecute
  <2>4. t \in Task
    <3>1. pcb = Malloc(Memory, 1) /\ bitmap = Malloc(pcb, bitmapPgCnt)
          /\ dir = Malloc(bitmap, 1)
          /\ t = [pcb |-> pcb.got, bitmap |-> bitmap.got, pageDir |-> dir.got]
      OBVIOUS
    <3> HIDE DEF t, dir, bitmap, pcb
    <3> QED BY <1>2, <2>2, <3>1, ProcessGrows
  <2>5. t.pageDir = dir.got
    OBVIOUS
  <2> HIDE DEF t, dir, bitmap, pcb
  <2>6. FirstPages(n + 1, dir.vaddrs.used, k)
    <3>1. CASE n = 0
      <4>1. (k = 24 \/ k >= 25) /\ u = 0
        BY <1>3, <1>10, <3>1
      <4>2. k >= 25 => dir.vaddrs.used = 0 .. 24
        <5> HIDE DEF u, k
        <5> QED BY <1>3, <1>8, <1>10, <4>1
      <4>3. k = 24 => dir.vaddrs.used = 0 .. 23
        <5> HIDE DEF u, k
        <5> QED BY <1>3, <1>8, <1>10, <4>1
      <4>4. n + 1 = 1
        BY <3>1
      <4> HIDE DEF k
      <4>5. FirstPages(1, dir.vaddrs.used, k)
        <5>1. FirstPages(1, 0 .. 24, k) /\ FirstPages(1, 0 .. 23, 24)
          BY DEF FirstPages
        <5> HIDE DEF u
        <5>2. k = 24 => FirstPages(1, dir.vaddrs.used, k)
          BY <4>3, <5>1
        <5>3. k >= 25 => FirstPages(1, dir.vaddrs.used, k)
          BY <4>2, <5>1
        <5> QED BY <4>1, <5>2, <5>3
      <4> QED BY <4>4, <4>5
    <3>2. CASE n = 1
      <4>1. u = 25 /\ k >= 56
        <5>1. k # 24
          BY <1>10, <3>2
        <5> QED BY <1>3, <1>10, <3>2, <5>1
      <4>2. dir.vaddrs.used = 0 .. 49 /\ n + 1 = 2
        <5>1. u + 25 <= k /\ u + 24 = 49
          BY <1>3, <4>1
        <5>2. u + 25 <= k => dir.vaddrs.used = 0 .. u + 24
          BY <1>8, <1>10
        <5> HIDE DEF u, k
        <5>3. dir.vaddrs.used = 0 .. 49
          BY <5>1, <5>2
        <5> QED BY <3>2, <5>3
      <4> HIDE DEF k
      <4>3. FirstPages(2, 0 .. 49, k)
        BY <4>1 DEF FirstPages
      <4> QED BY <4>2, <4>3
    <3> QED BY <1>2, <3>1, <3>2
  <2>7. t.pageDir = NoPage => k = 24
    <3>1. u + 25 > k => k = 24
      BY <1>2, <1>3, <1>10
    <3>2. dir.got = NoPage => u + 25 > k
      <4> HIDE DEF u, k
      <4> QED BY <1>3, <1>4, <1>8, <1>10
    <3> QED BY <2>5, <3>1, <3>2
  <2>8. dir.vaddrs.size = vaddrs.size
    BY <1>8, <1>10
  <2>9. n <= 3 /\ n = Len(task)
    BY <1>1, <1>2
  <2> HIDE DEF u
  <2> QED BY <1>2, <1>3, <2>3, <2>4, <2>6, <2>7, <2>8, <2>9, BootQueue
<1> QED BY <1>3, <1>4, <1>9, <1>10

(* The pages in use while main() makes its tasks, for every size of        *)
(* memory.                                                                 *)
LEMMA BootInvariant == ASSUME ByteBits = 8 PROVE Spec => []BootInv
<1>1. Init => BootInv
  BY DEF Init, BootInv
<1>2. LayoutInv /\ MemoryInv /\ BootInv /\ [Next]_vars => BootInv'
  <2> SUFFICES ASSUME LayoutInv, MemoryInv, BootInv, [Next]_vars
               PROVE  BootInv'
    OBVIOUS
  <2>1. CASE memInit
    BY <2>1, BootMemInit
  <2>2. CASE processExecute
    BY <2>2, BootProcess
  <2>3. CASE threadStart
    BY <2>3, BootThread
  <2>4. ASSUME Running,
               \/ \E cnt \in 1 .. MaxPages : getKernelPages(cnt)
               \/ \E a \in live : mfreePage(a)
               \/ \E p \in LivePages : Access(p)
               \/ pageDirActivate
        PROVE  BootInv'
    <3>1. Len(task) = 4 /\ UNCHANGED <<layout, task, failed>>
      BY <2>4 DEF Running
    <3>2. vaddrs'.size = vaddrs.size
      <4>1. ASSUME NEW cnt \in 1 .. MaxPages, getKernelPages(cnt)
            PROVE  vaddrs'.size = vaddrs.size
        <5>1. cnt \in Nat \ {0} /\ Fits(Memory)
          BY TlbAssumption DEF MemoryInv
        <5>2. Malloc(Memory, cnt).vaddrs.size = Memory.vaddrs.size
          BY <5>1, MallocGrows DEF Grows
        <5> QED BY <4>1, <5>2 DEF getKernelPages, Becomes, Memory
      <4>2. ASSUME NEW a \in live, mfreePage(a)
            PROVE  vaddrs'.size = vaddrs.size
        <5>1. vaddrs' = bitmapSetRun(vaddrs, a[1], a[2], 0)
          BY <4>2 DEF mfreePage
        <5>2. vaddrs \in BitmapType
          BY DEF MemoryInv, Fits, Memory
        <5> QED BY <5>1, <5>2 DEF bitmapSetRun, BitmapType
      <4> QED BY <2>4, <4>1, <4>2 DEF Access, pageDirActivate
    <3> QED BY <3>1, <3>2, BootSame
  <2>5. CASE UNCHANGED vars
    BY <2>5, BootSame DEF vars, pageVars
  <2> QED BY <2>1, <2>2, <2>3, <2>4, <2>5 DEF Next
<1> QED BY <1>1, <1>2, LayoutInvariant, MemoryInvariant, PTL DEF Spec

(***************************************************************************)
(* With bytes of 8 bits: whoever runs out of pages while main() makes its  *)
(* tasks has fewer than 52, and no process gets the page directory of the  *)
(* kernel except in a pool of 24.                                          *)
(***************************************************************************)
THEOREM EnoughOrNoticed == ASSUME ByteBits = 8 PROVE Spec => []MissingPagesNoticed
<1>1. BootInv => MissingPagesNoticed
  BY DEF BootInv, MissingPagesNoticed
<1> QED BY <1>1, BootInvariant, PTL

-----------------------------------------------------------------------------
FreeNode == {freeNode(b) : b \in Blocks}

(* The list operations' proofs are about lists of threads; here the nodes *)
(* are those in blocks, and the lists are those of the block sizes.        *)
TP == INSTANCE ThreadsProofs
        WITH Thread <- FreeNode, Main <- freeNode(arena2block(0, 0, 0)),
             threadReadyList <- 0, WaitList <- Desc \ {0},
             heap <- free, status <- lent, cur <- lent, iflag <- lent

-----------------------------------------------------------------------------
(* Block sizes: what the recursive function is. *)
LEMMA BlockSizes ==
  /\ blockSize \in [Desc -> Nat \ {0}]
  /\ blockSize[0] = MinBlock
  /\ \A d \in Desc : d # 0 => blockSize[d] = 2 * blockSize[d - 1]
<1> DEFINE Rec(f, n) == f = [d \in 0 .. n |-> IF d = 0 THEN MinBlock ELSE 2 * f[d - 1]]
           P == {n \in Nat : \E f \in [0 .. n -> Nat \ {0}] : Rec(f, n)}
<1>1. MinBlock \in Nat \ {0} /\ DESC_CNT \in Nat \ {0}
  BY HeapAssumption
<1>2. 0 \in P
  <2> DEFINE f == [d \in 0 .. 0 |-> MinBlock]
  <2>1. f \in [0 .. 0 -> Nat \ {0}] /\ Rec(f, 0)
    BY <1>1
  <2> QED BY <2>1
<1>3. ASSUME NEW n \in P PROVE n + 1 \in P
  <2>1. PICK f \in [0 .. n -> Nat \ {0}] : Rec(f, n)
    BY <1>3
  <2> DEFINE g == [d \in 0 .. n + 1 |-> IF d = n + 1 THEN 2 * f[n] ELSE f[d]]
  <2>2. n \in Nat /\ n \in 0 .. n /\ f[n] \in Nat \ {0}
    BY <1>3
  <2>3. g \in [0 .. n + 1 -> Nat \ {0}]
    BY <2>2
  <2>4. \A d \in 0 .. n : f[d] = IF d = 0 THEN MinBlock ELSE 2 * f[d - 1]
    BY <2>1
  <2>5. \A d \in 0 .. n + 1 : g[d] = IF d = 0 THEN MinBlock ELSE 2 * g[d - 1]
    <3> SUFFICES ASSUME NEW d \in 0 .. n + 1
                 PROVE  g[d] = IF d = 0 THEN MinBlock ELSE 2 * g[d - 1]
      OBVIOUS
    <3>1. d # 0 => d - 1 \in 0 .. n /\ g[d - 1] = f[d - 1]
      BY <2>2
    <3>2. CASE d = n + 1
      BY <2>2, <3>1, <3>2
    <3>3. CASE d \in 0 .. n
      BY <2>2, <2>4, <3>1, <3>3
    <3> QED BY <2>2, <3>2, <3>3
  <2>6. Rec(g, n + 1)
    <3> HIDE DEF g
    <3> QED BY <2>3, <2>5
  <2> HIDE DEF g, Rec
  <2> QED BY <2>2, <2>3, <2>6
<1>4. DESC_CNT - 1 \in P
  <2> HIDE DEF P
  <2> QED BY <1>1, <1>2, <1>3, Induction
<1>5. PICK f \in [Desc -> Nat \ {0}] : Rec(f, DESC_CNT - 1)
  BY <1>4 DEF Desc
<1>6. Rec(blockSize, DESC_CNT - 1)
  <2>1. blockSize = CHOOSE g : Rec(g, DESC_CNT - 1)
    BY DEF blockSize, Desc
  <2> HIDE DEF Rec
  <2> QED BY <1>5, <2>1
<1>7. DOMAIN blockSize = Desc
      /\ \A d \in Desc : blockSize[d] = IF d = 0 THEN MinBlock ELSE 2 * blockSize[d - 1]
  BY <1>6 DEF Desc
<1> DEFINE S == {n \in Nat : n \in Desc => blockSize[n] = f[n]}
<1>8. 0 \in S
  BY <1>1, <1>5, <1>7 DEF Desc
<1>9. \A n \in S : n + 1 \in S
  <2> SUFFICES ASSUME NEW n \in S, n + 1 \in Desc
               PROVE  blockSize[n + 1] = f[n + 1]
    OBVIOUS
  <2>1. n \in Desc /\ n + 1 # 0 /\ n + 1 - 1 = n
    BY <1>1 DEF Desc
  <2>2. blockSize[n] = f[n]
    BY <2>1
  <2>3. f[n + 1] = 2 * f[n] /\ blockSize[n + 1] = 2 * blockSize[n]
    BY <1>5, <1>7, <2>1 DEF Desc
  <2> QED BY <2>2, <2>3
<1>10. \A d \in Nat : d \in S
  <2> HIDE DEF S
  <2> QED BY <1>8, <1>9, Induction
<1>11. \A d \in Desc : blockSize[d] = f[d]
  BY <1>10 DEF Desc
<1>12. \A d \in Desc : blockSize[d] \in Nat \ {0}
  BY <1>5, <1>11
<1>13. blockSize \in [Desc -> Nat \ {0}]
  <2> HIDE DEF Rec
  <2>1. blockSize = [d \in Desc |-> blockSize[d]]
    BY <1>6 DEF Rec, Desc
  <2> QED BY <2>1, <1>12
<1>14. 0 \in Desc
  BY <1>1 DEF Desc
<1> QED BY <1>7, <1>13, <1>14

(* No block is larger than the largest. *)
LEMMA LargestFits ==
  ASSUME NEW d \in Desc
  PROVE  /\ blockSize[d] <= LargestBlock
         /\ LargestBlock \in Nat \ {0}
<1>1. DESC_CNT \in Nat \ {0} /\ DESC_CNT - 1 \in Desc
  BY HeapAssumption DEF Desc
<1> DEFINE S == {n \in Nat : n < DESC_CNT => blockSize[DESC_CNT - 1 - n] <= LargestBlock}
<1>2. 0 \in S
  BY <1>1, BlockSizes DEF LargestBlock
<1>3. \A n \in S : n + 1 \in S
  <2> SUFFICES ASSUME NEW n \in S, n + 1 < DESC_CNT
               PROVE  blockSize[DESC_CNT - 1 - (n + 1)] <= LargestBlock
    OBVIOUS
  <2>1. PICK k \in Desc : k = DESC_CNT - 1 - n
    BY <1>1 DEF Desc
  <2>2. k # 0 /\ k - 1 \in Desc /\ k - 1 = DESC_CNT - 1 - (n + 1)
    BY <2>1, <1>1 DEF Desc
  <2>3. blockSize[k] <= LargestBlock
    BY <2>1, <1>1
  <2>4. blockSize[k] = 2 * blockSize[k - 1] /\ blockSize[k - 1] \in Nat /\ LargestBlock \in Nat
    BY <2>2, <1>1, BlockSizes DEF LargestBlock
  <2> QED BY <2>2, <2>3, <2>4
<1>4. \A n \in Nat : n \in S
  <2> HIDE DEF S
  <2> QED BY <1>2, <1>3, Induction
<1>5. DESC_CNT - 1 - d \in Nat /\ DESC_CNT - 1 - d < DESC_CNT
      /\ DESC_CNT - 1 - (DESC_CNT - 1 - d) = d
  BY <1>1 DEF Desc
<1>6. DESC_CNT - 1 - d \in S
  BY <1>4, <1>5
<1>7. LargestBlock \in Nat \ {0}
  BY <1>1, BlockSizes DEF LargestBlock
<1> QED BY <1>5, <1>6, <1>7

(* Dividing an address gives its page. *)
LEMMA DivPage ==
  ASSUME NEW p \in Int, NEW n \in Nat \ {0}, NEW o \in 0 .. n - 1
  PROVE  (p * n + o) \div n = p
  OBVIOUS

(* The blocks of an arena: at least one, within the page, one behind the   *)
(* other.                                                                  *)
LEMMA ArenaLayout ==
  ASSUME NEW d \in Desc
  PROVE  /\ blocksPerArena(d) \in Nat \ {0}
         /\ blocksPerArena(d) * blockSize[d] <= PageBytes - ArenaSize
<1>1. PICK s \in Nat \ {0} : s = blockSize[d]
  BY BlockSizes
<1>2. PICK r \in Nat : r = PageBytes - ArenaSize /\ s <= r
  BY <1>1, LargestFits, HeapAssumption
<1>3. r \div s \in Nat /\ (r \div s) * s <= r /\ r \div s # 0
  <2>1. PICK q \in Int : q = r \div s
    BY <1>1, <1>2
  <2>2. PICK m \in 0 .. s - 1 : m = r % s
    BY <1>1, <1>2
  <2>3. r = q * s + m
    BY <2>1, <2>2
  <2>4. q >= 1
    BY <2>3, <1>2
  <2> QED BY <2>1, <2>3, <2>4
<1> QED BY <1>1, <1>2, <1>3 DEF blocksPerArena

(* Where a block lies. *)
LEMMA BlockPlace ==
  ASSUME NEW p \in Page, NEW d \in Desc, NEW i \in 0 .. blocksPerArena(d) - 1,
         NEW b, b = arena2block(p, d, i)
  PROVE  /\ b \in Nat /\ block2arena(b) = p
         /\ p * PageBytes + ArenaSize <= b
         /\ b + blockSize[d] <= p * PageBytes + PageBytes
         /\ b \in BlocksOf(p, d) /\ b \in Blocks /\ freeNode(b) \in FreeNode
<1>1. PICK s \in Nat \ {0} : s = blockSize[d]
  BY BlockSizes
<1>2. PICK n \in Nat \ {0} : n = blocksPerArena(d) /\ n * s <= PageBytes - ArenaSize
  BY <1>1, ArenaLayout
<1>3. PageBytes \in Nat \ {0} /\ ArenaSize \in Nat /\ p \in Nat
  BY HeapAssumption DEF Page
<1>4. PICK o \in Int : o = ArenaSize + i * s
  BY <1>1, <1>2, <1>3
<1>5. i * s + s <= n * s /\ i * s >= 0
  <2>1. i + 1 <= n /\ i \in Nat
    BY <1>2
  <2>2. (i + 1) * s <= n * s
    BY <1>1, <1>2, <2>1
  <2>3. (i + 1) * s = i * s + s /\ i * s >= 0
    BY <1>1, <2>1
  <2> QED BY <2>2, <2>3
<1>6. o \in 0 .. PageBytes - 1 /\ o >= ArenaSize /\ o + s <= PageBytes
  <2>1. PICK x \in Int, y \in Int : x = i * s /\ y = n * s
    BY <1>1, <1>2
  <2>2. x + s <= y /\ x >= 0 /\ y <= PageBytes - ArenaSize /\ o = ArenaSize + x
    BY <1>2, <1>4, <1>5, <2>1
  <2> QED BY <1>1, <1>3, <2>1, <2>2
<1>7. PICK a \in Nat : a = p * PageBytes
  BY <1>3
<1>8. b = a + o
  <2>1. b = p * PageBytes + ArenaSize + i * s
    BY <1>1 DEF arena2block
  <2>2. PICK x \in Int : x = i * s
    BY <1>1, <1>2
  <2> QED BY <1>3, <1>4, <1>7, <2>1, <2>2
<1>9. block2arena(b) = p
  BY <1>3, <1>6, <1>7, <1>8, DivPage DEF block2arena
<1>10. b \in BlocksOf(p, d)
  BY DEF BlocksOf
<1>11. b \in Blocks /\ freeNode(b) \in FreeNode
  BY <1>10 DEF Blocks, FreeNode
<1> QED BY <1>1, <1>3, <1>6, <1>7, <1>8, <1>9, <1>10, <1>11

(* The blocks of one arena lie one behind the other. *)
LEMMA BlocksApart ==
  ASSUME NEW p \in Page, NEW d \in Desc,
         NEW i \in 0 .. blocksPerArena(d) - 1, NEW j \in 0 .. blocksPerArena(d) - 1, i < j
  PROVE  arena2block(p, d, i) + blockSize[d] <= arena2block(p, d, j)
<1>1. PICK s \in Nat \ {0} : s = blockSize[d]
  BY BlockSizes
<1>2. i \in Nat /\ j \in Nat
  BY ArenaLayout
<1>3. i * s + s <= j * s
  <2>1. (i + 1) * s <= j * s
    BY <1>1, <1>2
  <2>2. (i + 1) * s = i * s + s
    BY <1>1, <1>2
  <2> QED BY <2>1, <2>2
<1>4. PICK x \in Int, y \in Int, a \in Int :
        x = i * s /\ y = j * s /\ a = p * PageBytes + ArenaSize
  BY <1>1, <1>2, HeapAssumption DEF Page
<1>5. arena2block(p, d, i) = a + x /\ arena2block(p, d, j) = a + y /\ x + s <= y
  BY <1>1, <1>3, <1>4 DEF arena2block
<1> QED BY <1>1, <1>4, <1>5

(* A block of an arena: its page, and its distance from the other blocks. *)
LEMMA BlocksOfFacts ==
  ASSUME NEW p \in Page, NEW d \in Desc, NEW b \in BlocksOf(p, d)
  PROVE  /\ b \in Nat /\ block2arena(b) = p
         /\ p * PageBytes + ArenaSize <= b
         /\ b + blockSize[d] <= p * PageBytes + PageBytes
         /\ b \in Blocks /\ freeNode(b) \in FreeNode
         /\ \A c \in BlocksOf(p, d) :
              c = b \/ b + blockSize[d] <= c \/ c + blockSize[d] <= b
<1>1. PICK i \in 0 .. blocksPerArena(d) - 1 : b = arena2block(p, d, i)
  BY DEF BlocksOf
<1>2. ASSUME NEW c \in BlocksOf(p, d)
      PROVE  c = b \/ b + blockSize[d] <= c \/ c + blockSize[d] <= b
  <2>1. PICK j \in 0 .. blocksPerArena(d) - 1 : c = arena2block(p, d, j)
    BY DEF BlocksOf
  <2>2. i = j \/ i < j \/ j < i
    BY ArenaLayout
  <2> QED BY <1>1, <2>1, <2>2, BlocksApart
<1> QED BY <1>1, <1>2, BlockPlace

(* Every block is one of some page. *)
LEMMA BlocksType == Blocks \subseteq Nat /\ IsFiniteSet(Blocks)
<1>1. PICK N \in Nat : N = VaddrBytes * ByteBits
  BY HeapAssumption, ByteAssumption
<1>2. PICK B \in Nat : B = PageBytes /\ B # 0
  BY HeapAssumption
<1>3. ASSUME NEW p \in Page, NEW d \in Desc, NEW b \in BlocksOf(p, d)
      PROVE  b \in 0 .. N * B
  <2>1. b \in Nat /\ b + blockSize[d] <= p * B + B /\ blockSize[d] \in Nat
    BY <1>2, BlocksOfFacts, BlockSizes
  <2>2. p \in Nat /\ p + 1 <= N
    BY <1>1 DEF Page
  <2>3. (p + 1) * B <= N * B /\ (p + 1) * B = p * B + B
    BY <1>1, <1>2, <2>2
  <2>4. PICK x \in Int, y \in Int, s \in Nat : x = N * B /\ y = p * B /\ s = blockSize[d]
    BY <1>1, <1>2, <2>1, <2>2
  <2> QED BY <1>2, <2>1, <2>3, <2>4
<1>4. Blocks \subseteq 0 .. N * B
  BY <1>3 DEF Blocks
<1>5. N * B \in Nat
  BY <1>1, <1>2
<1>6. IsFiniteSet(0 .. N * B)
  BY <1>5, FS_Interval
<1>7. Blocks \subseteq Nat
  BY <1>4
<1> QED BY <1>4, <1>6, <1>7, FS_Subset

LEMMA NodeOfBlock ==
  /\ \A b, c : freeNode(b) = freeNode(c) => b = c
  /\ \A b : entry(freeNode(b)) = b
  BY DEF freeNode, entry

-----------------------------------------------------------------------------
LEMMA ListIds == TP!ListId = Desc /\ 0 \in Desc
  BY HeapAssumption DEF TP!ListId, Desc

LEMMA ListAssumption == TP!ThreadAssumption
<1>1. 0 \in Page /\ 0 \in Desc /\ 0 \in 0 .. blocksPerArena(0) - 1
  <2>1. VaddrBytes * ByteBits \in Nat \ {0}
    BY HeapAssumption, ByteAssumption
  <2>2. 0 \in Desc
    BY HeapAssumption DEF Desc
  <2> QED BY <2>1, <2>2, ArenaLayout DEF Page
<1>2. freeNode(arena2block(0, 0, 0)) \in FreeNode
  BY <1>1, BlockPlace
<1>3. IsFiniteSet(FreeNode)
  <2>1. [b \in Blocks |-> freeNode(b)] \in Surjection(Blocks, FreeNode)
    BY DEF Surjection, FreeNode
  <2> QED BY <2>1, BlocksType, FS_Surjection
<1>4. IsFiniteSet(Desc \ {0})
  <2>1. IsFiniteSet(Desc)
    BY HeapAssumption, FS_Interval DEF Desc
  <2> QED BY <2>1, FS_Subset
<1>5. NULL \notin FreeNode /\ NULL \notin Sentinels(Desc)
  BY HeapAssumption DEF FreeNode
<1>6. ASSUME NEW d, NEW b PROVE HeadOf(d) # freeNode(b) /\ TailOf(d) # freeNode(b)
  <2>1. Len(HeadOf(d)) = 2 /\ Len(TailOf(d)) = 2 /\ Len(freeNode(b)) = 1
    BY DEF HeadOf, TailOf, freeNode
  <2> QED BY <2>1
<1>7. Sentinels(Desc) \cap (FreeNode \cup {NULL}) = {}
  BY <1>5, <1>6 DEF Sentinels, FreeNode
<1>8. {0} \cup (Desc \ {0}) = Desc
  BY <1>1
<1>9. TP!Sentinels({0} \cup (Desc \ {0})) = Sentinels(Desc)
  BY <1>8 DEF TP!Sentinels, Sentinels, TP!HeadOf, TP!TailOf, HeadOf, TailOf
<1>10. TP!IsFiniteSet(FreeNode) /\ TP!IsFiniteSet(Desc \ {0})
  BY <1>3, <1>4 DEF TP!IsFiniteSet, IsFiniteSet
<1> QED BY <1>2, <1>5, <1>7, <1>9, <1>10 DEF TP!ThreadAssumption

(* Heap has the list operations twice, its own and those of TP. *)
LEMMA SameLinks ==
  ASSUME NEW h, NEW L, NEW n
  PROVE  /\ ListAppend(h, L, n) = TP!ListAppend(h, L, n)
         /\ ListRemove(h, n) = TP!ListRemove(h, n)
         /\ ListFirst(h, L) = TP!ListFirst(h, L)
         /\ ListEmpty(h, L) <=> TP!ListEmpty(h, L)
  BY DEF ListAppend, TP!ListAppend, ListInsert, TP!ListInsert,
         ListRemove, TP!ListRemove, ListFirst, TP!ListFirst, ListEmpty, TP!ListEmpty,
         TailOf, TP!TailOf, HeadOf, TP!HeadOf

LEMMA SameWalk == ASSUME NEW h, NEW L PROVE ListWalk(h, L) = TP!ListWalk(h, L)
  BY DEF ListWalk, TP!ListWalk, TailOf, TP!TailOf, HeadOf, TP!HeadOf,
         Cardinality, TP!Cardinality

LEMMA SameTests ==
  ASSUME NEW h, NEW L
  PROVE  /\ \A n : ListExist(h, L, n) <=> TP!ListExist(h, L, n)
         /\ ListWellFormed(h, L) <=> TP!ListWellFormed(h, L)
<1>1. \A n : ListExist(h, L, n) <=> TP!ListExist(h, L, n)
  BY SameWalk DEF ListExist, TP!ListExist, TailOf, TP!TailOf
<1>2. ListLen(h, L) = TP!ListLen(h, L)
  BY SameWalk DEF ListLen, TP!ListLen, TailOf, TP!TailOf, Cardinality, TP!Cardinality
<1>3. ListWellFormed(h, L) <=> TP!ListWellFormed(h, L)
  BY <1>2, SameWalk DEF ListWellFormed, TP!ListWellFormed, TailOf, TP!TailOf,
     HeadOf, TP!HeadOf
<1> QED BY <1>1, <1>3

-----------------------------------------------------------------------------
(***************************************************************************)
(* The lists of h are lists of blocks, and F[d] are those on list d.       *)
(***************************************************************************)
FreeSets == [Desc -> SUBSET Blocks]
Nodes(S) == {freeNode(b) : b \in S}

Holds(h, F) == \E Q : TP!Lists(h, Q) /\ \A d \in Desc : TP!Members(Q[d]) = Nodes(F[d])

(* Q are the lists of h as sequences. *)
Shown(h, F, Q) == TP!Lists(h, Q) /\ \A d \in Desc : TP!Members(Q[d]) = Nodes(F[d])

LEMMA NodesFacts ==
  /\ \A S : \A b : freeNode(b) \in Nodes(S) <=> b \in S
  /\ \A S, b : Nodes(S \cup {b}) = Nodes(S) \cup {freeNode(b)}
  /\ \A S, b : Nodes(S \ {b}) = Nodes(S) \ {freeNode(b)}
  /\ Nodes(Blocks) = FreeNode /\ Nodes({}) = {}
<1>1. \A S : \A b : freeNode(b) \in Nodes(S) <=> b \in S
  BY NodeOfBlock DEF Nodes
<1>2. \A S, b : Nodes(S \cup {b}) = Nodes(S) \cup {freeNode(b)}
  BY DEF Nodes
<1>3. \A S, b : Nodes(S \ {b}) = Nodes(S) \ {freeNode(b)}
  BY NodeOfBlock DEF Nodes
<1>4. Nodes(Blocks) = FreeNode /\ Nodes({}) = {}
  BY DEF Nodes, FreeNode
<1> QED BY <1>1, <1>2, <1>3, <1>4

(* listAppend of a block that is on no list. *)
LEMMA HoldsAppend ==
  ASSUME NEW h, NEW F \in FreeSets, Holds(h, F), NEW d \in Desc, NEW b \in Blocks,
         \A e \in Desc : b \notin F[e]
  PROVE  Holds(ListAppend(h, d, freeNode(b)), [F EXCEPT ![d] = F[d] \cup {b}])
<1>1. PICK Q : Shown(h, F, Q)
  BY DEF Holds, Shown
<1>2. PICK t \in FreeNode : t = freeNode(b)
  BY DEF FreeNode
<1>3. TP!Lists(h, Q) /\ \A e \in Desc : TP!Members(Q[e]) = Nodes(F[e])
  BY <1>1 DEF Shown
<1>4. TP!OnNone(Q, t)
  BY <1>2, <1>3, ListIds, NodesFacts DEF TP!OnNone
<1> DEFINE R == [Q EXCEPT ![d] = Append(Q[d], t)]
           g == TP!ListAppend(h, d, t)
<1>5. TP!Lists(g, R) /\ TP!Gains(Q, R, d, t)
  BY <1>3, <1>4, ListIds, ListAssumption, TP!AppendLists
<1>6. DOMAIN Q = Desc
  BY <1>3, ListIds DEF TP!Lists
<1>7. \A e \in Desc : e # d => R[e] = Q[e]
  BY <1>6
<1> HIDE DEF R, g
<1>8. TP!Members(R[d]) = Nodes(F[d] \cup {b})
  BY <1>2, <1>3, <1>5, NodesFacts DEF TP!Gains
<1> DEFINE G == [F EXCEPT ![d] = F[d] \cup {b}]
<1>9. \A e \in Desc : G[e] = IF e = d THEN F[d] \cup {b} ELSE F[e]
  BY DEF FreeSets
<1> HIDE DEF G
<1>10. \A e \in Desc : TP!Members(R[e]) = Nodes(G[e])
  BY <1>3, <1>7, <1>8, <1>9
<1>11. Holds(g, G)
  BY <1>5, <1>10 DEF Holds
<1> QED BY <1>2, <1>11, SameLinks DEF g, G

(* listRemove of a block that is on the list. *)
LEMMA HoldsRemove ==
  ASSUME NEW h, NEW F \in FreeSets, Holds(h, F), NEW d \in Desc, NEW b \in F[d]
  PROVE  Holds(ListRemove(h, freeNode(b)), [F EXCEPT ![d] = F[d] \ {b}])
<1>1. PICK Q : Shown(h, F, Q)
  BY DEF Holds, Shown
<1>2. TP!Lists(h, Q) /\ \A e \in Desc : TP!Members(Q[e]) = Nodes(F[e])
  BY <1>1 DEF Shown
<1>3. freeNode(b) \in TP!Members(Q[d])
  BY <1>2, NodesFacts
<1>4. PICK k \in 1 .. Len(Q[d]) : Q[d][k] = freeNode(b)
  BY <1>3 DEF TP!Members
<1> DEFINE R == [Q EXCEPT ![d] = TP!Delete(Q[d], k)]
           g == TP!ListRemove(h, Q[d][k])
<1>5. TP!Shrunk(h, Q, d, k, g, R)
  BY DEF TP!Shrunk
<1> HIDE DEF g
<1>6. TP!Lists(g, R) /\ TP!Loses(Q, R, d, Q[d][k])
  <2> HIDE DEF R
  <2> QED BY <1>2, <1>5, ListIds, ListAssumption, TP!RemoveLists
<1>7. DOMAIN Q = Desc
  BY <1>2, ListIds DEF TP!Lists
<1>8. \A e \in Desc : e # d => R[e] = Q[e]
  BY <1>7
<1> HIDE DEF R
<1>9. TP!Members(R[d]) = Nodes(F[d] \ {b})
  BY <1>2, <1>4, <1>6, NodesFacts DEF TP!Loses
<1> DEFINE G == [F EXCEPT ![d] = F[d] \ {b}]
<1>10. \A e \in Desc : G[e] = IF e = d THEN F[d] \ {b} ELSE F[e]
  BY DEF FreeSets
<1> HIDE DEF G
<1>11. \A e \in Desc : TP!Members(R[e]) = Nodes(G[e])
  BY <1>2, <1>8, <1>9, <1>10
<1>12. Holds(g, G)
  BY <1>6, <1>11 DEF Holds
<1> QED BY <1>4, <1>12, SameLinks DEF g, G

(* What the tests say, and which block a list has first. *)
LEMMA HoldsTests ==
  ASSUME NEW h, NEW F \in FreeSets, Holds(h, F), NEW d \in Desc
  PROVE  /\ ListWellFormed(h, d)
         /\ \A b \in Blocks : ListExist(h, d, freeNode(b)) <=> b \in F[d]
         /\ ListEmpty(h, d) <=> F[d] = {}
         /\ F[d] # {} => /\ entry(ListFirst(h, d)) \in F[d]
                         /\ ListFirst(h, d) = freeNode(entry(ListFirst(h, d)))
<1>1. PICK Q : Shown(h, F, Q)
  BY DEF Holds, Shown
<1>2. TP!Lists(h, Q) /\ TP!Members(Q[d]) = Nodes(F[d])
  BY <1>1 DEF Shown
<1>3. TP!HeapOK(h) /\ TP!IsList(h, d, Q[d])
  BY <1>2, ListIds DEF TP!Lists
<1>4. TP!ListWellFormed(h, d)
  BY <1>3, ListIds, ListAssumption, TP!ContentsOfList
<1>5. /\ \A t \in FreeNode : TP!ListExist(h, d, t) <=> t \in TP!Members(Q[d])
      /\ TP!ListEmpty(h, d) <=> Len(Q[d]) = 0
      /\ Len(Q[d]) # 0 => 1 \in 1 .. Len(Q[d]) /\ TP!ListFirst(h, d) = Q[d][1]
  BY <1>3, ListIds, ListAssumption, TP!TestsOfList
<1>6. \A b \in Blocks : ListExist(h, d, freeNode(b)) <=> b \in F[d]
  BY <1>2, <1>5, SameTests, NodesFacts DEF FreeNode
<1>7. Len(Q[d]) \in Nat
  BY <1>3 DEF TP!IsList
<1>8. Len(Q[d]) = 0 <=> F[d] = {}
  <2>1. ASSUME Len(Q[d]) = 0, NEW b \in F[d] PROVE FALSE
    <3>1. freeNode(b) \in TP!Members(Q[d])
      BY <1>2, NodesFacts
    <3> QED BY <2>1, <3>1 DEF TP!Members
  <2>2. ASSUME F[d] = {}, Len(Q[d]) # 0 PROVE FALSE
    <3>1. Q[d][1] \in TP!Members(Q[d])
      BY <1>5, <2>2 DEF TP!Members
    <3> QED BY <1>2, <2>2, <3>1, NodesFacts
  <2> QED BY <2>1, <2>2
<1>9. ASSUME F[d] # {}
      PROVE  /\ entry(ListFirst(h, d)) \in F[d]
             /\ ListFirst(h, d) = freeNode(entry(ListFirst(h, d)))
  <2>1. ListFirst(h, d) \in TP!Members(Q[d])
    BY <1>5, <1>8, <1>9, SameLinks DEF TP!Members
  <2>2. PICK b \in F[d] : ListFirst(h, d) = freeNode(b)
    BY <1>2, <2>1 DEF Nodes
  <2> QED BY <2>2, NodeOfBlock
<1> QED BY <1>4, <1>5, <1>6, <1>8, <1>9, SameTests, SameLinks

(* Zeroing blocks that are on no list. *)
LEMMA HoldsClear ==
  ASSUME NEW h, NEW F \in FreeSets, Holds(h, F), NEW S \in SUBSET Blocks,
         \A d \in Desc : S \cap F[d] = {}
  PROVE  Holds(Clear(h, Nodes(S)), F)
<1>1. PICK Q : Shown(h, F, Q)
  BY DEF Holds, Shown
<1>2. TP!Lists(h, Q) /\ \A d \in Desc : TP!Members(Q[d]) = Nodes(F[d])
  BY <1>1 DEF Shown
<1>3. TP!HeapOK(h) /\ \A d \in Desc : TP!IsList(h, d, Q[d])
  BY <1>2, ListIds DEF TP!Lists
<1> DEFINE g == Clear(h, Nodes(S))
<1>4. /\ DOMAIN h.next = TP!Node /\ DOMAIN h.prev = TP!Node
      /\ \A n \in TP!Node : h.next[n] \in TP!Node \cup {NULL}
                            /\ h.prev[n] \in TP!Node \cup {NULL}
  BY <1>3 DEF TP!HeapOK
<1>5. /\ g.next = [n \in TP!Node |-> IF n \in Nodes(S) THEN NULL ELSE h.next[n]]
      /\ g.prev = [n \in TP!Node |-> IF n \in Nodes(S) THEN NULL ELSE h.prev[n]]
  BY <1>4 DEF Clear
<1> HIDE DEF g
<1>6. TP!HeapOK(g)
  BY <1>4, <1>5 DEF TP!HeapOK
<1>7. ASSUME NEW d \in Desc PROVE TP!IsList(g, d, Q[d])
  <2>1. /\ Len(Q[d]) \in Nat
        /\ \A i \in 1 .. Len(Q[d]) : TP!Nth(d, Q[d], i) = Q[d][i]
        /\ TP!Nth(d, Q[d], 0) = TP!HeadOf(d)
        /\ TP!Nth(d, Q[d], Len(Q[d]) + 1) = TP!TailOf(d)
        /\ \A i \in 0 .. Len(Q[d]) + 1 : TP!Nth(d, Q[d], i) \in TP!Node
    <3>1. Len(Q[d]) \in Nat /\ \A i \in 1 .. Len(Q[d]) : Q[d][i] \in FreeNode
      BY <1>3 DEF TP!IsList
    <3>2. /\ \A i \in 1 .. Len(Q[d]) : TP!Nth(d, Q[d], i) = Q[d][i]
          /\ TP!Nth(d, Q[d], 0) = TP!HeadOf(d)
          /\ TP!Nth(d, Q[d], Len(Q[d]) + 1) = TP!TailOf(d)
      BY <3>1 DEF TP!Nth
    <3>3. FreeNode \subseteq TP!Node /\ TP!HeadOf(d) \in TP!Node /\ TP!TailOf(d) \in TP!Node
      BY ListIds DEF TP!Node, TP!Sentinels
    <3>4. ASSUME NEW i \in 0 .. Len(Q[d]) + 1 PROVE TP!Nth(d, Q[d], i) \in TP!Node
      <4>1. i = 0 \/ i = Len(Q[d]) + 1 \/ i \in 1 .. Len(Q[d])
        BY <3>1
      <4> QED BY <3>1, <3>2, <3>3, <4>1
    <3> QED BY <3>1, <3>2, <3>4
  <2>2. Nodes(S) \subseteq FreeNode
    BY DEF Nodes, FreeNode
  <2>3. TP!HeadOf(d) \notin FreeNode /\ TP!TailOf(d) \notin FreeNode
    BY ListIds, ListAssumption, TP!NodeFacts
  <2>4. \A i \in 1 .. Len(Q[d]) : Q[d][i] \notin Nodes(S)
    <3> SUFFICES ASSUME NEW i \in 1 .. Len(Q[d]), Q[d][i] \in Nodes(S)
                 PROVE  FALSE
      OBVIOUS
    <3>1. Q[d][i] \in Nodes(F[d])
      BY <1>2 DEF TP!Members
    <3> QED BY <3>1, NodeOfBlock DEF Nodes
  <2>5. \A i \in 0 .. Len(Q[d]) + 1 : TP!Nth(d, Q[d], i) \notin Nodes(S)
    <3> SUFFICES ASSUME NEW i \in 0 .. Len(Q[d]) + 1
                 PROVE  TP!Nth(d, Q[d], i) \notin Nodes(S)
      OBVIOUS
    <3>1. i = 0 \/ i = Len(Q[d]) + 1 \/ i \in 1 .. Len(Q[d])
      BY <2>1
    <3> QED BY <2>1, <2>2, <2>3, <2>4, <3>1
  <2>6. \A i \in 0 .. Len(Q[d]) : i + 1 \in 0 .. Len(Q[d]) + 1 /\ i \in 0 .. Len(Q[d]) + 1
    BY <2>1
  <2>7. \A i \in 0 .. Len(Q[d]) :
          /\ g.next[TP!Nth(d, Q[d], i)] = h.next[TP!Nth(d, Q[d], i)]
          /\ g.prev[TP!Nth(d, Q[d], i + 1)] = h.prev[TP!Nth(d, Q[d], i + 1)]
    BY <1>5, <2>1, <2>5, <2>6
  <2>8. TP!IsList(h, d, Q[d])
    BY <1>3
  <2> QED BY <2>7, <2>8 DEF TP!IsList
<1>8. TP!Lists(g, Q)
  BY <1>2, <1>6, <1>7, ListIds DEF TP!Lists
<1>9. Holds(g, F)
  BY <1>2, <1>8 DEF Holds
<1> QED BY <1>9 DEF g

(* listInit leaves the lists empty. *)
LEMMA HoldsInit == Holds(ListInit(Desc, FreeNode), [d \in Desc |-> {}])
<1> DEFINE h == ListInit(Desc, FreeNode)
           Q == [d \in Desc |-> <<>>]
<1>1. TP!Node = FreeNode \cup Sentinels(Desc)
  BY ListIds DEF TP!Node, TP!Sentinels, Sentinels, TP!HeadOf, TP!TailOf, HeadOf, TailOf
<1>2. \A d \in Desc : /\ HeadOf(d) \in TP!Node /\ TailOf(d) \in TP!Node
                      /\ HeadOf(d)[1] = d /\ TailOf(d)[1] = d
  BY <1>1 DEF Sentinels, HeadOf, TailOf
<1>3. /\ h.next = [n \in TP!Node |-> IF \E d \in Desc : n = HeadOf(d)
                                     THEN TailOf(n[1]) ELSE NULL]
      /\ h.prev = [n \in TP!Node |-> IF \E d \in Desc : n = TailOf(d)
                                     THEN HeadOf(n[1]) ELSE NULL]
  BY <1>1 DEF ListInit, HeadOf, TailOf
<1>4. TP!HeapOK(h)
  <2>1. \A n \in TP!Node : h.next[n] \in TP!Node \cup {NULL} /\ h.prev[n] \in TP!Node \cup {NULL}
    BY <1>2, <1>3
  <2> QED BY <1>3, <2>1 DEF TP!HeapOK
<1>5. ASSUME NEW d \in Desc PROVE TP!IsList(h, d, <<>>)
  <2>1. h.next[HeadOf(d)] = TailOf(d) /\ h.prev[TailOf(d)] = HeadOf(d)
    BY <1>2, <1>3
  <2>2. TP!Nth(d, <<>>, 0) = HeadOf(d) /\ TP!Nth(d, <<>>, 1) = TailOf(d)
    BY DEF TP!Nth, TP!HeadOf, TP!TailOf, HeadOf, TailOf
  <2>3. <<>> \in Seq(FreeNode) /\ Len(<<>>) = 0
    OBVIOUS
  <2> HIDE DEF h
  <2> QED BY <2>1, <2>2, <2>3 DEF TP!IsList
<1>6. Q \in [Desc -> Seq(FreeNode)] /\ \A d \in Desc : Q[d] = <<>>
  OBVIOUS
<1>7. TP!Members(<<>>) = {}
  BY DEF TP!Members
<1> HIDE DEF h, Q
<1>8. TP!Lists(h, Q)
  BY <1>4, <1>5, <1>6, <1>7, ListIds DEF TP!Lists
<1>9. \A d \in Desc : TP!Members(Q[d]) = Nodes([e \in Desc |-> {}][d])
  BY <1>6, <1>7, NodesFacts
<1> QED BY <1>8, <1>9 DEF Holds, h

-----------------------------------------------------------------------------
(* The first i blocks of an arena. *)
FirstOf(a, d, i) == {arena2block(a, d, k) : k \in 0 .. i - 1}

LEMMA FirstOfFacts ==
  ASSUME NEW a \in Page, NEW d \in Desc
  PROVE  /\ FirstOf(a, d, 0) = {}
         /\ FirstOf(a, d, blocksPerArena(d)) = BlocksOf(a, d)
         /\ \A i \in 0 .. blocksPerArena(d) - 1 :
              /\ arena2block(a, d, i) \in BlocksOf(a, d) \ FirstOf(a, d, i)
              /\ FirstOf(a, d, i + 1) = FirstOf(a, d, i) \cup {arena2block(a, d, i)}
              /\ FirstOf(a, d, i) \subseteq BlocksOf(a, d)
         /\ BlocksOf(a, d) \subseteq Blocks
<1>1. blocksPerArena(d) \in Nat
  BY ArenaLayout
<1>2. FirstOf(a, d, 0) = {} /\ FirstOf(a, d, blocksPerArena(d)) = BlocksOf(a, d)
  BY DEF FirstOf, BlocksOf
<1>3. ASSUME NEW i \in 0 .. blocksPerArena(d) - 1
      PROVE  /\ arena2block(a, d, i) \in BlocksOf(a, d) \ FirstOf(a, d, i)
             /\ FirstOf(a, d, i + 1) = FirstOf(a, d, i) \cup {arena2block(a, d, i)}
             /\ FirstOf(a, d, i) \subseteq BlocksOf(a, d)
  <2>1. i \in Nat /\ 0 .. i = 0 .. i - 1 \cup {i} /\ i + 1 - 1 = i
    BY <1>1
  <2>2. FirstOf(a, d, i + 1) = {arena2block(a, d, k) : k \in 0 .. i}
    BY <2>1 DEF FirstOf
  <2>3. FirstOf(a, d, i + 1) = FirstOf(a, d, i) \cup {arena2block(a, d, i)}
    BY <2>1, <2>2 DEF FirstOf
  <2>4. 0 .. i - 1 \subseteq 0 .. blocksPerArena(d) - 1
    BY <1>1, <2>1
  <2>5. FirstOf(a, d, i) \subseteq BlocksOf(a, d)
    BY <2>4 DEF FirstOf, BlocksOf
  <2>6. arena2block(a, d, i) \notin FirstOf(a, d, i)
    <3> SUFFICES ASSUME NEW k \in 0 .. i - 1, arena2block(a, d, k) = arena2block(a, d, i)
                 PROVE  FALSE
      BY DEF FirstOf
    <3>1. k \in 0 .. blocksPerArena(d) - 1 /\ k < i
      BY <1>1, <2>1, <2>4
    <3>2. arena2block(a, d, k) + blockSize[d] <= arena2block(a, d, i)
      BY <3>1, BlocksApart
    <3>3. PICK s \in Nat \ {0} : s = blockSize[d]
      BY BlockSizes
    <3>4. PICK x \in Nat : x = arena2block(a, d, i)
      BY BlockPlace
    <3> QED BY <3>2, <3>3, <3>4
  <2>7. arena2block(a, d, i) \in BlocksOf(a, d)
    BY DEF BlocksOf
  <2> QED BY <2>3, <2>5, <2>6, <2>7
<1>4. BlocksOf(a, d) \subseteq Blocks
  BY DEF Blocks
<1> QED BY <1>2, <1>3, <1>4

(* Split puts the blocks of a new arena on the list of their size. *)
LEMMA HoldsSplit ==
  ASSUME NEW F \in FreeSets, Holds(free, F), NEW a \in Page, NEW d \in Desc,
         \A e \in Desc : F[e] \cap BlocksOf(a, d) = {}
  PROVE  Holds(Split(a, d), [F EXCEPT ![d] = F[d] \cup BlocksOf(a, d)])
<1> DEFINE N == blocksPerArena(d)
           Next1(h, i) == ListAppend(h, d, freeNode(arena2block(a, d, i - 1)))
           Rec(f, m) == f = [i \in 0 .. m |-> IF i = 0 THEN free ELSE Next1(f[i - 1], i)]
           P == {m \in Nat : \E f : Rec(f, m)}
<1>1. N \in Nat
  BY ArenaLayout
<1>2. 0 \in P
  <2>1. Rec([i \in 0 .. 0 |-> free], 0)
    OBVIOUS
  <2> QED BY <2>1
<1>3. ASSUME NEW m \in P PROVE m + 1 \in P
  <2> HIDE DEF Next1
  <2>1. PICK f : Rec(f, m)
    BY <1>3
  <2> DEFINE g == [i \in 0 .. m + 1 |-> IF i = m + 1 THEN Next1(f[m], m + 1) ELSE f[i]]
  <2>2. m \in Nat
    OBVIOUS
  <2>3. \A i \in 0 .. m : f[i] = IF i = 0 THEN free ELSE Next1(f[i - 1], i)
    BY <2>1
  <2>4. ASSUME NEW i \in 0 .. m + 1
        PROVE  g[i] = IF i = 0 THEN free ELSE Next1(g[i - 1], i)
    <3>1. i # 0 => i - 1 \in 0 .. m /\ g[i - 1] = f[i - 1]
      BY <2>2
    <3>2. CASE i = m + 1
      BY <2>2, <3>1, <3>2
    <3>3. CASE i \in 0 .. m
      BY <2>2, <2>3, <3>1, <3>3
    <3> QED BY <2>2, <3>2, <3>3
  <2>5. g = [i \in 0 .. m + 1 |-> g[i]]
    OBVIOUS
  <2>6. Rec(g, m + 1)
    <3> HIDE DEF g
    <3> QED BY <2>4, <2>5
  <2> HIDE DEF g, Rec
  <2> QED BY <2>2, <2>6
<1>4. N \in P
  <2> HIDE DEF P, N
  <2> QED BY <1>1, <1>2, <1>3, Induction
<1> DEFINE R == CHOOSE f : Rec(f, N)
<1>5. Rec(R, N)
  <2> HIDE DEF Rec
  <2> QED BY <1>4
<1>6. Split(a, d) = R[N]
  BY DEF Split
<1> HIDE DEF R
<1>7. \A i \in 0 .. N : R[i] = IF i = 0 THEN free ELSE Next1(R[i - 1], i)
  BY <1>5
<1> HIDE DEF Rec, P
<1> DEFINE G(i) == [F EXCEPT ![d] = F[d] \cup FirstOf(a, d, i)]
           S == {i \in Nat : i <= N => Holds(R[i], G(i))}
<1>8. 0 \in S
  <2>1. R[0] = free
    BY <1>1, <1>7
  <2>2. G(0) = F
    BY FirstOfFacts DEF FreeSets
  <2> HIDE DEF G
  <2> QED BY <2>1, <2>2
<1>9. ASSUME NEW i \in S PROVE i + 1 \in S
  <2> SUFFICES ASSUME i + 1 <= N PROVE Holds(R[i + 1], G(i + 1))
    OBVIOUS
  <2>1. i \in Nat /\ i \in 0 .. N - 1 /\ i + 1 \in 0 .. N /\ i + 1 # 0 /\ i + 1 - 1 = i
    BY <1>1
  <2>2. PICK b : b = arena2block(a, d, i)
    OBVIOUS
  <2>3. /\ b \in BlocksOf(a, d) \ FirstOf(a, d, i) /\ b \in Blocks
        /\ FirstOf(a, d, i + 1) = FirstOf(a, d, i) \cup {b}
        /\ FirstOf(a, d, i) \subseteq Blocks
    BY <2>1, <2>2, FirstOfFacts
  <2>4. \A e \in Desc : G(i)[e] = IF e = d THEN F[d] \cup FirstOf(a, d, i) ELSE F[e]
    BY DEF FreeSets
  <2>5. G(i) \in FreeSets
    BY <2>3 DEF FreeSets
  <2>6. \A e \in Desc : b \notin G(i)[e]
    BY <2>3, <2>4
  <2>7. R[i + 1] = ListAppend(R[i], d, freeNode(b))
    BY <1>7, <2>1, <2>2
  <2>8. Holds(R[i], G(i))
    BY <1>1, <2>1
  <2>9. [G(i) EXCEPT ![d] = G(i)[d] \cup {b}] = G(i + 1)
    BY <2>3 DEF FreeSets
  <2> HIDE DEF G
  <2> QED BY <2>3, <2>5, <2>6, <2>7, <2>8, <2>9, HoldsAppend
<1>10. N \in S
  <2> HIDE DEF S, N
  <2> QED BY <1>1, <1>8, <1>9, Induction
<1>11. Holds(R[N], G(N))
  BY <1>1, <1>10
<1>12. G(N) = [F EXCEPT ![d] = F[d] \cup BlocksOf(a, d)]
  BY FirstOfFacts
<1> QED BY <1>6, <1>11, <1>12

(* Unsplit takes all blocks of an arena off the list of their size. *)
LEMMA HoldsUnsplit ==
  ASSUME NEW h0, NEW F \in FreeSets, Holds(h0, F), NEW a \in Page, NEW d \in Desc,
         BlocksOf(a, d) \subseteq F[d],
         \A e \in Desc : e # d => F[e] \cap BlocksOf(a, d) = {}
  PROVE  Holds(Unsplit(h0, a, d), [F EXCEPT ![d] = F[d] \ BlocksOf(a, d)])
<1> DEFINE N == blocksPerArena(d)
           Next1(h, i) == ListRemove(h, freeNode(arena2block(a, d, i - 1)))
           Rec(f, m) == f = [i \in 0 .. m |-> IF i = 0 THEN h0 ELSE Next1(f[i - 1], i)]
           P == {m \in Nat : \E f : Rec(f, m)}
<1>1. N \in Nat
  BY ArenaLayout
<1>2. 0 \in P
  <2>1. Rec([i \in 0 .. 0 |-> h0], 0)
    OBVIOUS
  <2> QED BY <2>1
<1>3. ASSUME NEW m \in P PROVE m + 1 \in P
  <2> HIDE DEF Next1
  <2>1. PICK f : Rec(f, m)
    BY <1>3
  <2> DEFINE g == [i \in 0 .. m + 1 |-> IF i = m + 1 THEN Next1(f[m], m + 1) ELSE f[i]]
  <2>2. m \in Nat
    OBVIOUS
  <2>3. \A i \in 0 .. m : f[i] = IF i = 0 THEN h0 ELSE Next1(f[i - 1], i)
    BY <2>1
  <2>4. ASSUME NEW i \in 0 .. m + 1
        PROVE  g[i] = IF i = 0 THEN h0 ELSE Next1(g[i - 1], i)
    <3>1. i # 0 => i - 1 \in 0 .. m /\ g[i - 1] = f[i - 1]
      BY <2>2
    <3>2. CASE i = m + 1
      BY <2>2, <3>1, <3>2
    <3>3. CASE i \in 0 .. m
      BY <2>2, <2>3, <3>1, <3>3
    <3> QED BY <2>2, <3>2, <3>3
  <2>5. g = [i \in 0 .. m + 1 |-> g[i]]
    OBVIOUS
  <2>6. Rec(g, m + 1)
    <3> HIDE DEF g
    <3> QED BY <2>4, <2>5
  <2> HIDE DEF g, Rec
  <2> QED BY <2>2, <2>6
<1>4. N \in P
  <2> HIDE DEF P, N
  <2> QED BY <1>1, <1>2, <1>3, Induction
<1> DEFINE R == CHOOSE f : Rec(f, N)
<1>5. Rec(R, N)
  <2> HIDE DEF Rec
  <2> QED BY <1>4
<1>6. Unsplit(h0, a, d) = Clear(R[N], {freeNode(b) : b \in BlocksOf(a, d)})
  BY DEF Unsplit
<1> HIDE DEF R
<1>7. \A i \in 0 .. N : R[i] = IF i = 0 THEN h0 ELSE Next1(R[i - 1], i)
  BY <1>5
<1> HIDE DEF Rec, P
<1> DEFINE G(i) == [F EXCEPT ![d] = F[d] \ FirstOf(a, d, i)]
           S == {i \in Nat : i <= N => Holds(R[i], G(i))}
<1>8. 0 \in S
  <2>1. R[0] = h0
    BY <1>1, <1>7
  <2>2. G(0) = F
    BY FirstOfFacts DEF FreeSets
  <2> HIDE DEF G
  <2> QED BY <2>1, <2>2
<1>9. ASSUME NEW i \in S PROVE i + 1 \in S
  <2> SUFFICES ASSUME i + 1 <= N PROVE Holds(R[i + 1], G(i + 1))
    OBVIOUS
  <2>1. i \in Nat /\ i \in 0 .. N - 1 /\ i + 1 \in 0 .. N /\ i + 1 # 0 /\ i + 1 - 1 = i
    BY <1>1
  <2>2. PICK b : b = arena2block(a, d, i)
    OBVIOUS
  <2>3. /\ b \in BlocksOf(a, d) \ FirstOf(a, d, i)
        /\ FirstOf(a, d, i + 1) = FirstOf(a, d, i) \cup {b}
    BY <2>1, <2>2, FirstOfFacts
  <2>4. G(i)[d] = F[d] \ FirstOf(a, d, i)
    BY DEF FreeSets
  <2>5. G(i) \in FreeSets
    BY DEF FreeSets
  <2>6. b \in G(i)[d]
    BY <2>3, <2>4
  <2>7. R[i + 1] = ListRemove(R[i], freeNode(b))
    BY <1>7, <2>1, <2>2
  <2>8. Holds(R[i], G(i))
    BY <1>1, <2>1
  <2>9. [G(i) EXCEPT ![d] = G(i)[d] \ {b}] = G(i + 1)
    BY <2>3 DEF FreeSets
  <2> HIDE DEF G
  <2> QED BY <2>5, <2>6, <2>7, <2>8, <2>9, HoldsRemove
<1>10. N \in S
  <2> HIDE DEF S, N
  <2> QED BY <1>1, <1>8, <1>9, Induction
<1>11. Holds(R[N], G(N))
  BY <1>1, <1>10
<1> DEFINE E == [F EXCEPT ![d] = F[d] \ BlocksOf(a, d)]
<1>12. G(N) = E
  BY FirstOfFacts
<1>13. E \in FreeSets /\ BlocksOf(a, d) \in SUBSET Blocks
  BY FirstOfFacts DEF FreeSets
<1>14. \A e \in Desc : BlocksOf(a, d) \cap E[e] = {}
  BY DEF FreeSets
<1> HIDE DEF G, E
<1>15. Holds(Clear(R[N], Nodes(BlocksOf(a, d))), E)
  BY <1>11, <1>12, <1>13, <1>14, HoldsClear
<1> QED BY <1>6, <1>15 DEF Nodes, E

-----------------------------------------------------------------------------
(***************************************************************************)
(* The heap page by page.  r is the arena struct of page p, if it has one, *)
(* and B are the blocks in use there.                                      *)
(***************************************************************************)
PageCount    == VaddrBytes * ByteBits
SpanLen(r)   == IF r.large THEN r.cnt ELSE 1
Span(r, p)   == IF r = NULL THEN {} ELSE p .. p + SpanLen(r) - 1
InPage(L, p) == {blk \in L : block2arena(blk.addr) = p}

(* A large request: its arena and its one block. *)
LargeSound(r, B, p) ==
  /\ r.desc = NULL
  /\ r.cnt >= 1 /\ p + r.cnt <= PageCount
  /\ \A blk \in B : blk.addr = p * PageBytes + ArenaSize
                    /\ ArenaSize + blk.size <= r.cnt * PageBytes

(* An arena of blocks of one size. *)
SmallSound(r, B, p) ==
  /\ r.desc \in Desc
  /\ r.cnt = blocksPerArena(r.desc) - Cardinality(B)
  /\ \A blk \in B : blk.addr \in BlocksOf(p, r.desc) /\ blk.size <= blockSize[r.desc]

PageSound(r, B, p) ==
  IF r = NULL THEN B = {}
  ELSE /\ r \in ArenaStruct
       /\ B # {}
       /\ IF r.large THEN LargeSound(r, B, p) ELSE SmallSound(r, B, p)
       /\ \A blk, other \in B : blk.addr = other.addr => blk = other

LentType(L) ==
  /\ IsFiniteSet(L)
  /\ \A blk \in L : /\ blk.addr \in Nat /\ blk.size \in Nat \ {0}
                    /\ blk = [addr |-> blk.addr, size |-> blk.size]
                    /\ block2arena(blk.addr) \in Page

ArenasApart(A) == \A p, q \in Page : p # q => Span(A[p], p) \cap Span(A[q], q) = {}

Sound(A, L, used) ==
  /\ A \in [Page -> ArenaStruct \cup {NULL}]
  /\ LentType(L)
  /\ \A p \in Page : PageSound(A[p], InPage(L, p), p)
  /\ ArenasApart(A)
  /\ used = UNION {Span(A[p], p) : p \in Page}

(* The blocks of size d that are free in a page, and in all pages. *)
PageFree(r, B, p, d) ==
  IF r = NULL \/ r.desc # d THEN {} ELSE {b \in BlocksOf(p, d) : \A blk \in B : blk.addr # b}
FreeOf(A, L, d) == UNION {PageFree(A[p], InPage(L, p), p, d) : p \in Page}
FreeNow(A, L)   == [d \in Desc |-> FreeOf(A, L, d)]

(* The pages of the arenas: those marked that no failed request left behind. *)
Kept == pages.used \ lost.marked

FramesKnown ==
  /\ lost.mapped \subseteq lost.marked /\ lost.marked \subseteq pages.used
  /\ mapped = Kept \cup lost.mapped

HeapInv ==
  /\ pages \in BitmapType /\ pages.size = VaddrBytes
  /\ FramesKnown
  /\ Sound(arena, lent, Kept)
  /\ Holds(free, FreeNow(arena, lent))
  /\ panic # "sysFree"

-----------------------------------------------------------------------------
(* Pages are taken, or given back, with addresses and frames. *)
LEMMA PagesTaken ==
  ASSUME FramesKnown, NEW S, S \cap pages.used = {},
         pages'.used = pages.used \cup S, mapped' = mapped \cup S, lost' = lost
  PROVE  FramesKnown' /\ Kept' = Kept \cup S
  BY DEF FramesKnown, Kept

LEMMA PagesGiven ==
  ASSUME FramesKnown, NEW S, S \subseteq Kept,
         pages'.used = pages.used \ S, mapped' = mapped \ S, lost' = lost
  PROVE  FramesKnown' /\ Kept' = Kept \ S
  BY DEF FramesKnown, Kept

(* An arena struct is not NULL, and neither is a block size's number. *)
LEMMA NullFacts ==
  /\ NULL \notin ArenaStruct
  /\ NULL \notin Nat /\ NULL \notin Desc
  /\ PageCount \in Nat \ {0}
  /\ Page = 0 .. PageCount - 1
<1>1. PageCount \in Nat \ {0} /\ Page = 0 .. PageCount - 1
  BY HeapAssumption, ByteAssumption DEF PageCount, Page
<1>2. Desc \subseteq Nat
  BY DEF Desc
<1> QED BY <1>1, <1>2, HeapAssumption

(* What is free in a page are blocks of that page. *)
LEMMA PageFreeFacts ==
  ASSUME NEW r, NEW B, NEW p \in Page, NEW d \in Desc
  PROVE  /\ PageFree(r, B, p, d) \subseteq BlocksOf(p, d)
         /\ PageFree(r, B, p, d) \subseteq Blocks
         /\ \A b \in PageFree(r, B, p, d) :
              block2arena(b) = p /\ r.desc = d /\ r # NULL /\ \A blk \in B : blk.addr # b
<1>1. PageFree(r, B, p, d) \subseteq BlocksOf(p, d)
  BY DEF PageFree
<1> QED BY <1>1, BlocksOfFacts DEF PageFree

(* The free blocks are blocks, and each is free in its page. *)
LEMMA FreeOfFacts ==
  ASSUME NEW A, NEW L, NEW d \in Desc
  PROVE  /\ FreeOf(A, L, d) \subseteq Blocks
         /\ \A p \in Page : \A b \in BlocksOf(p, d) :
              b \in FreeOf(A, L, d) <=> b \in PageFree(A[p], InPage(L, p), p, d)
         /\ \A b \in FreeOf(A, L, d) :
              /\ block2arena(b) \in Page
              /\ b \in PageFree(A[block2arena(b)], InPage(L, block2arena(b)), block2arena(b), d)
<1>1. ASSUME NEW b \in FreeOf(A, L, d)
      PROVE  /\ b \in Blocks /\ block2arena(b) \in Page
             /\ b \in PageFree(A[block2arena(b)], InPage(L, block2arena(b)), block2arena(b), d)
  <2>1. PICK p \in Page : b \in PageFree(A[p], InPage(L, p), p, d)
    BY DEF FreeOf
  <2> QED BY <2>1, PageFreeFacts
<1>2. ASSUME NEW p \in Page, NEW b \in BlocksOf(p, d)
      PROVE  b \in FreeOf(A, L, d) <=> b \in PageFree(A[p], InPage(L, p), p, d)
  <2>1. block2arena(b) = p
    BY BlocksOfFacts
  <2>2. b \in PageFree(A[p], InPage(L, p), p, d) => b \in FreeOf(A, L, d)
    BY DEF FreeOf
  <2> QED BY <1>1, <2>1, <2>2
<1> QED BY <1>1, <1>2

LEMMA FreeNowFacts ==
  ASSUME NEW A, NEW L
  PROVE  /\ FreeNow(A, L) \in FreeSets
         /\ \A d \in Desc : FreeNow(A, L)[d] = FreeOf(A, L, d)
<1>1. \A d \in Desc : FreeOf(A, L, d) \in SUBSET Blocks
  BY FreeOfFacts
<1> QED BY <1>1 DEF FreeNow, FreeSets

(* What a step leaves alone that changes one page. *)
SameArenas(A, A2, p) == \A q \in Page : q # p => A2[q] = A[q]
SameBlocks(L, L2, p) == \A q \in Page : q # p => InPage(L2, q) = InPage(L, q)

(* A step that changes one page changes what is free there and no more. *)
LEMMA FreeStep ==
  ASSUME NEW A, NEW L, NEW A2, NEW L2, NEW p \in Page, NEW d \in Desc,
         SameArenas(A, A2, p), SameBlocks(L, L2, p)
  PROVE  FreeOf(A2, L2, d) = (FreeOf(A, L, d) \ PageFree(A[p], InPage(L, p), p, d))
                                \cup PageFree(A2[p], InPage(L2, p), p, d)
<1>1. ASSUME NEW b \in FreeOf(A2, L2, d), b \notin PageFree(A2[p], InPage(L2, p), p, d)
      PROVE  b \in FreeOf(A, L, d) \ PageFree(A[p], InPage(L, p), p, d)
  <2>1. PICK q \in Page : b \in PageFree(A2[q], InPage(L2, q), q, d)
    BY DEF FreeOf
  <2>2. q # p
    BY <1>1, <2>1
  <2>3. b \in PageFree(A[q], InPage(L, q), q, d)
    BY <2>1, <2>2 DEF SameArenas, SameBlocks
  <2>4. b \in FreeOf(A, L, d)
    BY <2>3 DEF FreeOf
  <2>5. block2arena(b) = q
    BY <2>1, PageFreeFacts
  <2>6. b \notin PageFree(A[p], InPage(L, p), p, d)
    BY <2>2, <2>5, PageFreeFacts
  <2> QED BY <2>4, <2>6
<1>2. ASSUME NEW b \in FreeOf(A, L, d), b \notin PageFree(A[p], InPage(L, p), p, d)
      PROVE  b \in FreeOf(A2, L2, d)
  <2>1. PICK q \in Page : b \in PageFree(A[q], InPage(L, q), q, d)
    BY DEF FreeOf
  <2>2. q # p
    BY <1>2, <2>1
  <2>3. b \in PageFree(A2[q], InPage(L2, q), q, d)
    BY <2>1, <2>2 DEF SameArenas, SameBlocks
  <2> QED BY <2>3 DEF FreeOf
<1>3. PageFree(A2[p], InPage(L2, p), p, d) \subseteq FreeOf(A2, L2, d)
  BY DEF FreeOf
<1> QED BY <1>1, <1>2, <1>3

(* A step that changes one page keeps the heap sound if the page is. *)
LEMMA SoundStep ==
  ASSUME NEW A, NEW L, NEW used, Sound(A, L, used),
         NEW p \in Page, NEW r \in ArenaStruct \cup {NULL}, NEW L2, LentType(L2),
         SameBlocks(L, L2, p),
         PageSound(r, InPage(L2, p), p),
         \A q \in Page : q # p => Span(r, p) \cap Span(A[q], q) = {}
  PROVE  Sound([A EXCEPT ![p] = r], L2, (used \ Span(A[p], p)) \cup Span(r, p))
<1> DEFINE A2 == [A EXCEPT ![p] = r]
<1>1. A \in [Page -> ArenaStruct \cup {NULL}]
  BY DEF Sound
<1>2. /\ A2 \in [Page -> ArenaStruct \cup {NULL}]
      /\ A2[p] = r
      /\ \A q \in Page : q # p => A2[q] = A[q]
  BY <1>1
<1> HIDE DEF A2
<1>3. \A q \in Page : PageSound(A2[q], InPage(L2, q), q)
  BY <1>2 DEF Sound, SameBlocks
<1>4. ArenasApart(A2)
  <2>1. ArenasApart(A)
    BY DEF Sound
  <2> SUFFICES ASSUME NEW q \in Page, NEW s \in Page, q # s
               PROVE  Span(A2[q], q) \cap Span(A2[s], s) = {}
    BY DEF ArenasApart
  <2>2. CASE q = p
    BY <1>2, <2>2
  <2>3. CASE s = p
    BY <1>2, <2>3
  <2>4. CASE q # p /\ s # p
    BY <1>2, <2>1, <2>4 DEF ArenasApart
  <2> QED BY <2>2, <2>3, <2>4
<1>5. (used \ Span(A[p], p)) \cup Span(r, p) = UNION {Span(A2[q], q) : q \in Page}
  <2>1. used = UNION {Span(A[q], q) : q \in Page}
    BY DEF Sound
  <2>2. \A q \in Page : q # p => Span(A[q], q) \cap Span(A[p], p) = {}
    BY DEF Sound, ArenasApart
  <2>3. ASSUME NEW q \in Page, NEW x \in Span(A2[q], q)
        PROVE  x \in (used \ Span(A[p], p)) \cup Span(r, p)
    BY <1>2, <2>1, <2>2, <2>3
  <2>4. ASSUME NEW q \in Page, NEW x \in Span(A[q], q), x \notin Span(A[p], p)
        PROVE  x \in UNION {Span(A2[s], s) : s \in Page}
    <3>1. q # p
      BY <2>4
    <3>2. x \in Span(A2[q], q)
      BY <1>2, <3>1
    <3> QED BY <3>2
  <2>5. Span(r, p) \subseteq UNION {Span(A2[q], q) : q \in Page}
    BY <1>2
  <2> QED BY <2>1, <2>3, <2>4, <2>5
<1> QED BY <1>2, <1>3, <1>4, <1>5 DEF Sound, A2

(* Only the page of a block sees it come and go. *)
LEMMA InPageStep ==
  ASSUME NEW L, NEW blk, NEW p, block2arena(blk.addr) = p
  PROVE  /\ InPage(L \cup {blk}, p) = InPage(L, p) \cup {blk}
         /\ InPage(L \ {blk}, p) = InPage(L, p) \ {blk}
         /\ SameBlocks(L, L \cup {blk}, p)
         /\ SameBlocks(L, L \ {blk}, p)
  BY DEF InPage, SameBlocks

LEMMA LentStep ==
  ASSUME NEW L, LentType(L)
  PROVE  /\ \A blk : LentType(L \ {blk})
         /\ \A b \in Nat, size \in Nat \ {0} :
              block2arena(b) \in Page => LentType(L \cup {[addr |-> b, size |-> size]})
<1>1. ASSUME NEW blk PROVE LentType(L \ {blk})
  <2>1. IsFiniteSet(L \ {blk})
    BY FS_RemoveElement DEF LentType
  <2> QED BY <2>1 DEF LentType
<1>2. ASSUME NEW b \in Nat, NEW size \in Nat \ {0}, block2arena(b) \in Page
      PROVE  LentType(L \cup {[addr |-> b, size |-> size]})
  <2>1. PICK blk : blk = [addr |-> b, size |-> size]
    OBVIOUS
  <2>2. blk.addr = b /\ blk.size = size
    BY <2>1
  <2>3. IsFiniteSet(L \cup {blk})
    BY FS_AddElement DEF LentType
  <2>4. \A other \in L \cup {blk} :
           /\ other.addr \in Nat /\ other.size \in Nat \ {0}
           /\ other = [addr |-> other.addr, size |-> other.size]
           /\ block2arena(other.addr) \in Page
    BY <1>2, <2>1, <2>2 DEF LentType
  <2> QED BY <2>1, <2>3, <2>4 DEF LentType
<1> QED BY <1>1, <1>2

(* A sound page with an arena: its span begins with it and ends in the bitmap. *)
LEMMA SpanFacts ==
  ASSUME NEW A, NEW L, NEW used, Sound(A, L, used), NEW p \in Page, A[p] # NULL
  PROVE  /\ A[p] \in ArenaStruct
         /\ SpanLen(A[p]) \in Nat \ {0} /\ p + SpanLen(A[p]) <= PageCount
         /\ Span(A[p], p) = p .. p + SpanLen(A[p]) - 1
         /\ p \in Span(A[p], p) /\ Span(A[p], p) \subseteq used
<1>1. PageSound(A[p], InPage(L, p), p)
  BY DEF Sound
<1>2. PICK r \in ArenaStruct : r = A[p]
  BY <1>1 DEF PageSound
<1>3. r.large \in BOOLEAN /\ r.cnt \in Int
  BY DEF ArenaStruct
<1>4. r.large => r.cnt >= 1 /\ p + r.cnt <= PageCount
  BY <1>1, <1>2 DEF PageSound, LargeSound
<1>5. p \in Nat /\ p + 1 <= PageCount /\ PageCount \in Nat
  BY NullFacts
<1>6. SpanLen(r) \in Nat \ {0} /\ p + SpanLen(r) <= PageCount
  BY <1>3, <1>4, <1>5 DEF SpanLen
<1>7. Span(r, p) = p .. p + SpanLen(r) - 1
  BY <1>2 DEF Span
<1>8. p \in Span(r, p)
  BY <1>5, <1>6, <1>7
<1>9. Span(r, p) \subseteq used
  BY <1>2 DEF Sound
<1> QED BY <1>2, <1>6, <1>7, <1>8, <1>9

(* A page whose bit is 0 has no arena, and no block in use. *)
LEMMA FreePage ==
  ASSUME NEW A, NEW L, NEW used, Sound(A, L, used), NEW p \in Page, p \notin used
  PROVE  A[p] = NULL /\ InPage(L, p) = {} /\ Span(A[p], p) = {}
<1>1. A[p] = NULL
  BY SpanFacts
<1>2. PageSound(A[p], InPage(L, p), p)
  BY DEF Sound
<1> QED BY <1>1, <1>2 DEF PageSound, Span

(* Pages whose bits are 0 are in no span. *)
LEMMA FreeSpan ==
  ASSUME NEW A, NEW L, NEW used, Sound(A, L, used), NEW S, S \cap used = {}
  PROVE  \A q \in Page : S \cap Span(A[q], q) = {}
  BY DEF Sound

(* Where a block in use lies. *)
LEMMA Extent ==
  ASSUME NEW A, NEW L, NEW used, Sound(A, L, used), NEW blk \in L,
         NEW p, p = block2arena(blk.addr)
  PROVE  /\ p \in Page /\ A[p] # NULL /\ blk \in InPage(L, p)
         /\ blk.addr \in Nat /\ blk.size \in Nat \ {0}
         /\ p * PageBytes <= blk.addr
         /\ blk.addr + blk.size <= (p + SpanLen(A[p])) * PageBytes
<1>1. /\ p \in Page /\ blk \in InPage(L, p)
      /\ blk.addr \in Nat /\ blk.size \in Nat \ {0}
  BY DEF Sound, LentType, InPage
<1>2. PageSound(A[p], InPage(L, p), p)
  BY <1>1 DEF Sound
<1>3. A[p] # NULL
  BY <1>1, <1>2 DEF PageSound
<1>4. PICK r \in ArenaStruct : r = A[p]
  BY <1>1, <1>3, SpanFacts
<1>5. PICK B \in Nat \ {0} : B = PageBytes
  BY HeapAssumption
<1>6. PICK b \in Nat, s \in Nat \ {0} : b = blk.addr /\ s = blk.size
  BY <1>1
<1>7. PICK n \in Nat : n = p
  BY <1>1, NullFacts
<1>8. PICK x \in Nat : x = n * B
  BY <1>5, <1>7
<1>9. ArenaSize \in Nat
  BY HeapAssumption
<1>10. CASE r.large
  <2>1. LargeSound(r, InPage(L, p), p)
    BY <1>2, <1>3, <1>4, <1>10 DEF PageSound
  <2>2. PICK k \in Nat : k = r.cnt
    BY <2>1, <1>4 DEF LargeSound, ArenaStruct
  <2>3. b = x + ArenaSize /\ ArenaSize + s <= k * B
    BY <1>1, <1>5, <1>6, <1>7, <1>8, <2>1, <2>2 DEF LargeSound
  <2>4. (n + k) * B = x + k * B
    BY <1>5, <1>7, <1>8, <2>2
  <2>5. PICK y \in Int : y = k * B
    BY <1>5, <2>2
  <2>6. x <= b /\ b + s <= x + y
    BY <1>6, <1>8, <1>9, <2>3, <2>5
  <2>7. SpanLen(A[p]) = k
    BY <1>4, <1>10, <2>2 DEF SpanLen
  <2> QED BY <1>1, <1>3, <1>5, <1>6, <1>7, <1>8, <2>4, <2>5, <2>6, <2>7
<1>11. CASE ~ r.large
  <2>1. SmallSound(r, InPage(L, p), p)
    BY <1>2, <1>3, <1>4, <1>11 DEF PageSound
  <2>2. PICK d \in Desc : d = r.desc
    BY <2>1 DEF SmallSound
  <2>3. b \in BlocksOf(p, d) /\ s <= blockSize[d]
    BY <1>1, <1>6, <2>1, <2>2 DEF SmallSound
  <2>4. p * PageBytes + ArenaSize <= b /\ b + blockSize[d] <= p * PageBytes + PageBytes
    BY <1>1, <2>3, BlocksOfFacts
  <2>5. PICK z \in Nat : z = blockSize[d]
    BY BlockSizes
  <2>6. x <= b /\ b + s <= x + B
    BY <1>5, <1>6, <1>7, <1>8, <1>9, <2>3, <2>4, <2>5
  <2>7. SpanLen(A[p]) = 1
    BY <1>4, <1>11 DEF SpanLen
  <2>8. (n + 1) * B = x + B
    BY <1>5, <1>7, <1>8
  <2> QED BY <1>1, <1>3, <1>5, <1>6, <1>7, <1>8, <2>6, <2>7, <2>8
<1> QED BY <1>10, <1>11

(* Two blocks in use share no byte. *)
LEMMA LentApart ==
  ASSUME NEW A, NEW L, NEW used, Sound(A, L, used), NEW b \in L, NEW c \in L, b # c
  PROVE  b.addr + b.size <= c.addr \/ c.addr + c.size <= b.addr
<1> DEFINE p == block2arena(b.addr)
           q == block2arena(c.addr)
<1>1. /\ p \in Page /\ A[p] # NULL /\ b \in InPage(L, p)
      /\ b.addr \in Nat /\ b.size \in Nat \ {0} /\ p * PageBytes <= b.addr
      /\ b.addr + b.size <= (p + SpanLen(A[p])) * PageBytes
  BY Extent
<1>2. /\ q \in Page /\ A[q] # NULL /\ c \in InPage(L, q)
      /\ c.addr \in Nat /\ c.size \in Nat \ {0} /\ q * PageBytes <= c.addr
      /\ c.addr + c.size <= (q + SpanLen(A[q])) * PageBytes
  BY Extent
<1> HIDE DEF p, q
<1>3. CASE p = q
  <2>1. PageSound(A[p], InPage(L, p), p)
    BY <1>1 DEF Sound
  <2>2. PICK r \in ArenaStruct : r = A[p]
    BY <1>1, SpanFacts
  <2>3. b.addr # c.addr
    BY <1>1, <1>2, <1>3, <2>1 DEF PageSound
  <2>4. ~ r.large
    <3>1. SUFFICES ASSUME r.large PROVE FALSE
      OBVIOUS
    <3>2. LargeSound(r, InPage(L, p), p)
      BY <1>1, <2>1, <2>2, <3>1 DEF PageSound
    <3>3. b.addr = c.addr
      BY <1>1, <1>2, <1>3, <3>2 DEF LargeSound
    <3> QED BY <2>3, <3>3
  <2>5. SmallSound(r, InPage(L, p), p)
    BY <1>1, <2>1, <2>2, <2>4 DEF PageSound
  <2>6. PICK d \in Desc : d = r.desc
    BY <2>5 DEF SmallSound
  <2>7. /\ b.addr \in BlocksOf(p, d) /\ b.size <= blockSize[d]
        /\ c.addr \in BlocksOf(p, d) /\ c.size <= blockSize[d]
    BY <1>1, <1>2, <1>3, <2>5, <2>6 DEF SmallSound
  <2>8. b.addr + blockSize[d] <= c.addr \/ c.addr + blockSize[d] <= b.addr
    BY <1>1, <2>3, <2>7, BlocksOfFacts
  <2>9. PICK s \in Nat : s = blockSize[d]
    BY BlockSizes
  <2> QED BY <1>1, <1>2, <2>7, <2>8, <2>9
<1>4. CASE p # q
  <2>1. PICK m \in Nat \ {0} : /\ m = SpanLen(A[p])
                               /\ Span(A[p], p) = p .. p + m - 1 /\ p \in Span(A[p], p)
    BY <1>1, SpanFacts
  <2>2. PICK n \in Nat \ {0} : /\ n = SpanLen(A[q])
                               /\ Span(A[q], q) = q .. q + n - 1 /\ q \in Span(A[q], q)
    BY <1>2, SpanFacts
  <2>3. Span(A[p], p) \cap Span(A[q], q) = {}
    BY <1>1, <1>2, <1>4 DEF Sound, ArenasApart
  <2>4. PICK i \in Nat, j \in Nat : i = p /\ j = q
    BY <1>1, <1>2, NullFacts
  <2>5. i + m <= j \/ j + n <= i
    <3>1. j \notin i .. i + m - 1 /\ i \notin j .. j + n - 1
      BY <2>1, <2>2, <2>3, <2>4
    <3> QED BY <2>4, <3>1
  <2>6. PICK B \in Nat \ {0} : B = PageBytes
    BY HeapAssumption
  <2>7. i + m <= j => (i + m) * B <= j * B
    BY <2>4, <2>6
  <2>8. j + n <= i => (j + n) * B <= i * B
    BY <2>4, <2>6
  <2>9. /\ i * B <= b.addr /\ b.addr + b.size <= (i + m) * B
        /\ j * B <= c.addr /\ c.addr + c.size <= (j + n) * B
    BY <1>1, <1>2, <2>1, <2>2, <2>4, <2>6
  <2>10. PICK x \in Int, y \in Int, u \in Int, v \in Int :
           x = i * B /\ y = j * B /\ u = (i + m) * B /\ v = (j + n) * B
    BY <2>4, <2>6
  <2> QED BY <1>1, <1>2, <2>5, <2>7, <2>8, <2>9, <2>10
<1> QED BY <1>3, <1>4

-----------------------------------------------------------------------------
(* A free block belongs to one size, and is not in use. *)
LEMMA FreeApart ==
  ASSUME NEW A, NEW L, NEW d \in Desc, NEW e \in Desc, NEW b \in FreeOf(A, L, d)
  PROVE  /\ e # d => b \notin FreeOf(A, L, e)
         /\ \A blk \in L : blk.addr # b
         /\ A[block2arena(b)] # NULL /\ A[block2arena(b)].desc = d
         /\ block2arena(b) \in Page /\ b \in BlocksOf(block2arena(b), d)
         /\ b \in PageFree(A[block2arena(b)], InPage(L, block2arena(b)), block2arena(b), d)
<1>1. PICK p : p = block2arena(b)
  OBVIOUS
<1>2. p \in Page /\ b \in PageFree(A[p], InPage(L, p), p, d)
  BY <1>1, FreeOfFacts
<1>3. /\ A[p] # NULL /\ A[p].desc = d /\ b \in BlocksOf(p, d)
      /\ \A blk \in InPage(L, p) : blk.addr # b
  BY <1>2, PageFreeFacts
<1>4. ASSUME NEW blk \in L, blk.addr = b PROVE FALSE
  <2>1. blk \in InPage(L, p)
    BY <1>1, <1>4 DEF InPage
  <2> QED BY <1>3, <1>4, <2>1
<1>5. ASSUME b \in FreeOf(A, L, e) PROVE e = d
  <2>1. b \in PageFree(A[p], InPage(L, p), p, e)
    BY <1>1, <1>5, FreeOfFacts
  <2> QED BY <1>2, <1>3, <2>1, PageFreeFacts
<1> QED BY <1>1, <1>2, <1>3, <1>4, <1>5

(* What is free when one page changes whose blocks are of size d. *)
LEMMA FreeNowStep ==
  ASSUME NEW A, NEW L, NEW A2, NEW L2, NEW p \in Page, NEW d \in Desc,
         SameArenas(A, A2, p), SameBlocks(L, L2, p),
         A[p] = NULL \/ A[p].desc = d, A2[p] = NULL \/ A2[p].desc = d
  PROVE  FreeNow(A2, L2) = [FreeNow(A, L) EXCEPT ![d] =
                             (FreeOf(A, L, d) \ PageFree(A[p], InPage(L, p), p, d))
                                \cup PageFree(A2[p], InPage(L2, p), p, d)]
<1> DEFINE G == (FreeOf(A, L, d) \ PageFree(A[p], InPage(L, p), p, d))
                   \cup PageFree(A2[p], InPage(L2, p), p, d)
<1>1. FreeOf(A2, L2, d) = G
  BY FreeStep
<1>2. ASSUME NEW e \in Desc, e # d PROVE FreeOf(A2, L2, e) = FreeOf(A, L, e)
  <2>1. PageFree(A[p], InPage(L, p), p, e) = {} /\ PageFree(A2[p], InPage(L2, p), p, e) = {}
    BY <1>2 DEF PageFree
  <2>2. FreeOf(A2, L2, e) = (FreeOf(A, L, e) \ PageFree(A[p], InPage(L, p), p, e))
                               \cup PageFree(A2[p], InPage(L2, p), p, e)
    BY FreeStep
  <2> QED BY <2>1, <2>2
<1> HIDE DEF G
<1>3. FreeNow(A2, L2) = [FreeNow(A, L) EXCEPT ![d] = G]
  BY <1>1, <1>2 DEF FreeNow
<1> QED BY <1>3 DEF G

(* Taking the first block off a list and zeroing it. *)
LEMMA HoldsTake ==
  ASSUME NEW h, NEW F \in FreeSets, Holds(h, F), NEW d \in Desc, F[d] # {},
         \A e \in Desc : e # d => F[e] \cap F[d] = {},
         NEW b, b = entry(ListFirst(h, d))
  PROVE  /\ b \in F[d]
         /\ Holds(Clear(ListPop(h, d), {freeNode(b)}), [F EXCEPT ![d] = F[d] \ {b}])
<1>1. b \in F[d] /\ ListFirst(h, d) = freeNode(b)
  BY HoldsTests
<1> DEFINE G == [F EXCEPT ![d] = F[d] \ {b}]
           g == ListPop(h, d)
<1>2. Holds(g, G)
  BY <1>1, HoldsRemove DEF ListPop
<1>3. G \in FreeSets /\ {b} \in SUBSET Blocks
  BY <1>1 DEF FreeSets
<1>4. \A e \in Desc : {b} \cap G[e] = {}
  <2>1. \A e \in Desc : G[e] = IF e = d THEN F[d] \ {b} ELSE F[e]
    BY DEF FreeSets
  <2> HIDE DEF G
  <2> QED BY <1>1, <2>1
<1>5. Nodes({b}) = {freeNode(b)}
  BY DEF Nodes
<1> HIDE DEF G, g
<1>6. Holds(Clear(g, Nodes({b})), G)
  BY <1>2, <1>3, <1>4, HoldsClear
<1> QED BY <1>1, <1>5, <1>6 DEF G, g

-----------------------------------------------------------------------------
(* A large request has at least one page, and room for the arena struct. *)
LEMMA PageCntFacts ==
  ASSUME NEW size \in Nat \ {0}
  PROVE  pageCnt(size) \in Nat \ {0} /\ ArenaSize + size <= pageCnt(size) * PageBytes
<1>1. PICK B \in Nat \ {0}, h \in Nat : B = PageBytes /\ h = ArenaSize
  BY HeapAssumption
<1>2. PICK n \in Nat : n = size + h + B - 1
  BY <1>1
<1>3. PICK q \in Int, m \in 0 .. B - 1 : q = n \div B /\ m = n % B /\ n = q * B + m
  BY <1>1, <1>2
<1>4. PICK y \in Int : y = q * B
  BY <1>1, <1>3
<1>5. y + m = size + h + B - 1 /\ size >= 1
  BY <1>1, <1>2, <1>3, <1>4
<1>6. y > 0 /\ h + size <= y
  BY <1>1, <1>3, <1>5
<1>7. q > 0
  BY <1>1, <1>3, <1>4, <1>6
<1>8. pageCnt(size) = q
  BY <1>1, <1>2, <1>3 DEF pageCnt
<1> QED BY <1>1, <1>3, <1>4, <1>6, <1>7, <1>8

(* The heap after a large request. *)
LEMMA MallocLargeSound ==
  ASSUME HeapInv, NEW size \in Size, MallocLarge(size)
  PROVE  HeapInv'
<1> DEFINE cnt == pageCnt(size)
           a   == bitmapScan(pages, cnt)
           r   == [desc |-> NULL, cnt |-> cnt, large |-> TRUE]
           b   == a * PageBytes + ArenaSize
           blk == [addr |-> b, size |-> size]
           L2  == lent \cup {blk}
<1>1. /\ size > LargestBlock /\ a # -1
      /\ pages' = bitmapSetRun(pages, a, cnt, 1)
      /\ mapped' = mapped \cup PageRun(a, cnt)
      /\ arena' = [arena EXCEPT ![a] = r]
      /\ lent' = L2 /\ free' = free /\ lost' = lost /\ panic' = panic
  BY DEF MallocLarge, Large
<1>2. /\ pages \in BitmapType /\ pages.size = VaddrBytes
      /\ FramesKnown /\ Sound(arena, lent, Kept)
      /\ Holds(free, FreeNow(arena, lent)) /\ panic # "sysFree"
  BY DEF HeapInv
<1>3. PICK B \in Nat \ {0}, h \in Nat :
        B = PageBytes /\ h = ArenaSize /\ h < B /\ size \in Nat \ {0}
  <2>1. LargestBlock \in Nat \ {0}
    BY ListIds, LargestFits
  <2> QED BY <1>1, <2>1, HeapAssumption
<1>4. PICK k \in Nat \ {0} : k = cnt /\ h + size <= k * B
  BY <1>3, PageCntFacts
<1>5. /\ a \in Page
      /\ \A i \in a .. a + k - 1 : i \in Page /\ i \notin pages.used
  <2>1. pages.size \in Nat /\ bitmapScan(pages, k) # -1 /\ a = bitmapScan(pages, k)
    BY <1>1, <1>2, <1>4 DEF BitmapType
  <2>2. Positions(pages) = Page
    BY <1>2 DEF Positions, Page
  <2> HIDE DEF a
  <2> QED BY <2>1, <2>2, ScanFree
<1> HIDE DEF a, cnt
<1>6. a \in Nat /\ a \notin pages.used /\ a + k <= PageCount
  <2>1. a \in Nat
    BY <1>5, NullFacts
  <2>2. a \in a .. a + k - 1 /\ a + k - 1 \in a .. a + k - 1
    BY <1>4, <2>1
  <2>3. a + k - 1 \in Page
    BY <1>5, <2>2
  <2> QED BY <1>4, <1>5, <2>1, <2>2, <2>3, NullFacts
<1>7. r \in ArenaStruct /\ r # NULL
  <2>1. cnt \in Int
    BY <1>4
  <2>2. r \in ArenaStruct
    BY <2>1 DEF ArenaStruct
  <2> QED BY <2>2, NullFacts
<1>8. arena[a] = NULL /\ InPage(lent, a) = {} /\ Span(arena[a], a) = {}
  BY <1>2, <1>5, <1>6, FreePage DEF Kept
<1>9. b \in Nat /\ block2arena(b) = a
  <2>1. PICK x \in Nat : x = a * B
    BY <1>3, <1>6
  <2>2. b = x + ArenaSize
    BY <1>3, <2>1
  <2>3. b \div B = a
    <3>1. ArenaSize \in 0 .. B - 1
      BY <1>3
    <3> HIDE DEF b
    <3> QED BY <1>3, <1>6, <2>1, <2>2, <3>1, DivPage
  <2> QED BY <1>3, <2>1, <2>2, <2>3 DEF block2arena
<1> HIDE DEF b
<1>10. blk.addr = b /\ blk.size = size
  OBVIOUS
<1>11. LentType(L2)
  <2>1. LentType(lent)
    BY <1>2 DEF Sound
  <2> QED BY <1>3, <1>5, <1>9, <2>1, LentStep
<1> HIDE DEF blk, L2
<1>12. InPage(L2, a) = {blk} /\ SameBlocks(lent, L2, a)
  <2>1. block2arena(blk.addr) = a
    BY <1>9, <1>10
  <2>2. InPage(lent \cup {blk}, a) = InPage(lent, a) \cup {blk}
        /\ SameBlocks(lent, lent \cup {blk}, a)
    BY <2>1 DEF InPage, SameBlocks
  <2> QED BY <1>8, <2>2 DEF L2
<1>13. PageSound(r, InPage(L2, a), a)
  <2>1. LargeSound(r, {blk}, a)
    BY <1>3, <1>4, <1>6, <1>10 DEF LargeSound, b
  <2> QED BY <1>7, <1>12, <2>1 DEF PageSound
<1>14. Span(r, a) = a .. a + k - 1
  BY <1>4, <1>7 DEF Span, SpanLen
<1>15. \A q \in Page : Span(r, a) \cap Span(arena[q], q) = {}
  <2>1. Span(r, a) \cap Kept = {}
    BY <1>5, <1>14 DEF Kept
  <2> QED BY <1>2, <2>1, FreeSpan
<1>16. Sound([arena EXCEPT ![a] = r], L2, (Kept \ Span(arena[a], a)) \cup Span(r, a))
  <2> HIDE DEF r
  <2> QED BY <1>2, <1>5, <1>7, <1>11, <1>12, <1>13, <1>15, SoundStep
<1>17. pages' = [size |-> pages.size, used |-> pages.used \cup Span(r, a)]
  BY <1>1, <1>2, <1>4, <1>6, <1>14, SetRunBits
<1>18. pages' \in BitmapType /\ pages'.size = VaddrBytes
       /\ pages'.used = pages.used \cup Span(r, a)
  <2>1. pages.used \cup Span(r, a) \in SUBSET Int
    BY <1>2, <1>4, <1>6, <1>14 DEF BitmapType
  <2> QED BY <1>2, <1>17, <2>1 DEF BitmapType
<1>21. FramesKnown' /\ Kept' = Kept \cup Span(r, a)
  <2>1. Span(r, a) \cap pages.used = {}
    BY <1>5, <1>14
  <2>2. mapped' = mapped \cup Span(r, a)
    BY <1>1, <1>4, <1>14 DEF PageRun
  <2> HIDE DEF r
  <2> QED BY <1>1, <1>2, <1>18, <2>1, <2>2, PagesTaken
<1>19. Sound(arena', lent', Kept')
  BY <1>1, <1>8, <1>16, <1>21
<1>20. FreeNow(arena', lent') = FreeNow(arena, lent)
  <2>1. arena \in [Page -> ArenaStruct \cup {NULL}]
    BY <1>2 DEF Sound
  <2>2. arena'[a] = r /\ SameArenas(arena, arena', a)
    BY <1>1, <1>5, <2>1 DEF SameArenas
  <2>3. \A d \in Desc : PageFree(arena[a], InPage(lent, a), a, d) = {}
    BY <1>8 DEF PageFree
  <2>4. \A d \in Desc : PageFree(arena'[a], InPage(lent', a), a, d) = {}
    BY <2>2, NullFacts DEF PageFree
  <2>5. SameBlocks(lent, lent', a)
    BY <1>1, <1>12
  <2>6. \A d \in Desc : FreeOf(arena', lent', d) = FreeOf(arena, lent, d)
    <3> SUFFICES ASSUME NEW d \in Desc
                 PROVE  FreeOf(arena', lent', d) = FreeOf(arena, lent, d)
      OBVIOUS
    <3>1. FreeOf(arena', lent', d)
             = (FreeOf(arena, lent, d) \ PageFree(arena[a], InPage(lent, a), a, d))
                  \cup PageFree(arena'[a], InPage(lent', a), a, d)
      BY <1>5, <2>2, <2>5, FreeStep
    <3> QED BY <2>3, <2>4, <3>1
  <2> QED BY <2>6 DEF FreeNow
<1> QED BY <1>1, <1>2, <1>18, <1>19, <1>20, <1>21 DEF HeapInv

-----------------------------------------------------------------------------
(* The size of the blocks a small request is served from. *)
LEMMA SmallSize ==
  ASSUME NEW size \in Nat, size <= LargestBlock,
         NEW d, d = Min({i \in Desc : size <= blockSize[i]})
  PROVE  d \in Desc /\ size <= blockSize[d]
<1> DEFINE S == {i \in Desc : size <= blockSize[i]}
<1>1. DESC_CNT - 1 \in S
  BY HeapAssumption DEF LargestBlock, Desc
<1>2. S \in SUBSET Int /\ \A i \in S : i >= 0
  BY DEF Desc
<1>3. Min(S) \in S
  <2> HIDE DEF S
  <2> QED BY <1>1, <1>2, MinFacts
<1> QED BY <1>3

(* The heap after the first block of a list was handed out: of an arena that *)
(* is there, or of one that was split just now.                              *)
Takes(A, L, used, d, p, b, size, r) ==
  /\ Sound(A, L, used)
  /\ d \in Desc /\ p \in Page /\ b \in BlocksOf(p, d) /\ \A blk \in L : blk.addr # b
  /\ size \in Nat \ {0} /\ size <= blockSize[d]
  /\ r \in ArenaStruct /\ r.desc = d /\ ~ r.large
  /\ r.cnt = blocksPerArena(d) - Cardinality(InPage(L, p)) - 1
  /\ A[p] # NULL => A[p].desc = d /\ ~ A[p].large
  /\ A[p] = NULL => p \notin used

Lend(L, b, size) == L \cup {[addr |-> b, size |-> size]}

LEMMA TakeSound ==
  ASSUME NEW A, NEW L, NEW used, NEW d, NEW p, NEW b, NEW size, NEW r,
         Takes(A, L, used, d, p, b, size, r)
  PROVE  /\ Sound([A EXCEPT ![p] = r], Lend(L, b, size), used \cup {p})
         /\ SameBlocks(L, Lend(L, b, size), p)
         /\ \A c : c \in PageFree(r, InPage(Lend(L, b, size), p), p, d)
                     <=> c \in PageFree(r, InPage(L, p), p, d) /\ c # b
<1> USE DEF Takes
<1> DEFINE L2 == Lend(L, b, size)
<1> DEFINE blk == [addr |-> b, size |-> size]
<1>1. blk.addr = b /\ blk.size = size
  OBVIOUS
<1>2. b \in Nat /\ block2arena(b) = p
  BY BlocksOfFacts
<1>3. blk \notin L
  BY <1>1
<1> HIDE DEF blk
<1>4. L2 = L \cup {blk}
  BY DEF blk, Lend
<1> HIDE DEF L2
<1>5. LentType(L2)
  <2>1. LentType(L)
    BY DEF Sound
  <2> QED BY <1>2, <1>4, <2>1, LentStep DEF blk
<1>6. InPage(L2, p) = InPage(L, p) \cup {blk} /\ SameBlocks(L, L2, p)
  <2>1. block2arena(blk.addr) = p
    BY <1>1, <1>2
  <2>2. InPage(L \cup {blk}, p) = InPage(L, p) \cup {blk} /\ SameBlocks(L, L \cup {blk}, p)
    BY <2>1 DEF InPage, SameBlocks
  <2> QED BY <1>4, <2>2
<1>7. PageSound(A[p], InPage(L, p), p)
  BY DEF Sound
<1>8. r # NULL
  BY NullFacts
<1>9. IsFiniteSet(InPage(L, p)) /\ blk \notin InPage(L, p)
  <2>1. IsFiniteSet(L) /\ InPage(L, p) \subseteq L
    BY DEF Sound, LentType, InPage
  <2> QED BY <1>3, <2>1, FS_Subset
<1>10. Cardinality(InPage(L2, p)) = Cardinality(InPage(L, p)) + 1
       /\ Cardinality(InPage(L, p)) \in Nat
  BY <1>6, <1>9, FS_AddElement, FS_CardinalityType
<1>11. \A other \in InPage(L, p) : /\ other.addr \in BlocksOf(p, d)
                                   /\ other.size <= blockSize[d]
  <2>1. CASE A[p] = NULL
    BY <1>7, <2>1 DEF PageSound
  <2>2. CASE A[p] # NULL
    <3>1. SmallSound(A[p], InPage(L, p), p)
      BY <1>7, <2>2 DEF PageSound
    <3> QED BY <2>2, <3>1 DEF SmallSound
  <2> QED BY <2>1, <2>2
<1>12. SmallSound(r, InPage(L2, p), p)
  <2>1. \A other \in InPage(L2, p) : /\ other.addr \in BlocksOf(p, d)
                                     /\ other.size <= blockSize[d]
    BY <1>1, <1>6, <1>11
  <2>2. blocksPerArena(d) \in Nat
    BY ArenaLayout
  <2>3. r.cnt = blocksPerArena(d) - Cardinality(InPage(L2, p))
    BY <1>10, <2>2
  <2> QED BY <2>1, <2>3 DEF SmallSound
<1>13. \A other, third \in InPage(L2, p) : other.addr = third.addr => other = third
  <2>1. \A other, third \in InPage(L, p) : other.addr = third.addr => other = third
    BY <1>7 DEF PageSound
  <2>2. \A other \in InPage(L, p) : other.addr # b
    BY DEF InPage
  <2> QED BY <1>1, <1>6, <2>1, <2>2
<1>14. PageSound(r, InPage(L2, p), p)
  BY <1>6, <1>8, <1>12, <1>13 DEF PageSound
<1>15. Span(r, p) = {p}
  <2>1. p \in Int
    BY NullFacts
  <2> QED BY <1>8, <2>1 DEF Span, SpanLen
<1>16. \A q \in Page : q # p => Span(r, p) \cap Span(A[q], q) = {}
  <2>1. CASE A[p] = NULL
    BY <1>15, <2>1, FreeSpan
  <2>2. CASE A[p] # NULL
    <3>1. p \in Span(A[p], p)
      BY <2>2, SpanFacts
    <3>2. ArenasApart(A)
      BY DEF Sound
    <3> QED BY <1>15, <3>1, <3>2 DEF ArenasApart
  <2> QED BY <2>1, <2>2
<1>17. Sound([A EXCEPT ![p] = r], L2, (used \ Span(A[p], p)) \cup Span(r, p))
  BY <1>5, <1>6, <1>14, <1>16, SoundStep
<1>18. (used \ Span(A[p], p)) \cup Span(r, p) = used \cup {p}
  <2>1. CASE A[p] = NULL
    BY <1>15, <2>1 DEF Span
  <2>2. CASE A[p] # NULL
    <3>1. p \in Int
      BY NullFacts
    <3>2. Span(A[p], p) = {p}
      BY <2>2, <3>1 DEF Span, SpanLen
    <3> QED BY <1>15, <3>2
  <2> QED BY <2>1, <2>2
<1>19. PageFree(r, InPage(L2, p), p, d) = PageFree(r, InPage(L, p), p, d) \ {b}
  BY <1>1, <1>6 DEF PageFree
<1> QED BY <1>6, <1>17, <1>18, <1>19 DEF L2

(* The heap after a small request. *)
LEMMA MallocSmallSound ==
  ASSUME HeapInv, NEW size \in Size, Accepted(size), MallocSmall(size)
  PROVE  HeapInv'
<1> DEFINE d      == descIdx(size)
           isNew  == ListEmpty(free, d)
           a      == bitmapScan(pages, 1)
           list   == IF isNew THEN Split(a, d) ELSE free
           arenas == IF isNew THEN [arena EXCEPT ![a] =
                                     [desc |-> d, cnt |-> blocksPerArena(d), large |-> FALSE]]
                     ELSE arena
           b      == entry(ListFirst(list, d))
           p      == block2arena(b)
           F      == FreeNow(arena, lent)
<1>1. /\ 0 < size /\ size <= LargestBlock
      /\ isNew => a # -1
      /\ pages' = IF isNew THEN bitmapSet(pages, a, 1) ELSE pages
      /\ mapped' = IF isNew THEN mapped \cup {a} ELSE mapped
      /\ free' = Clear(ListPop(list, d), {freeNode(b)})
      /\ arena' = [arenas EXCEPT ![p].cnt = @ - 1]
      /\ lent' = lent \cup {[addr |-> b, size |-> size]}
      /\ lost' = lost /\ panic' = panic
  <2>1. size \in Nat /\ LargestBlock \in Nat
    BY HeapAssumption, ListIds, LargestFits
  <2> QED BY <2>1 DEF MallocSmall, Accepted, Large
<1>2. /\ pages \in BitmapType /\ pages.size = VaddrBytes
      /\ FramesKnown /\ Sound(arena, lent, Kept)
      /\ Holds(free, F) /\ panic # "sysFree"
  BY DEF HeapInv
<1>3. size \in Nat \ {0}
  BY <1>1, HeapAssumption
<1>4. d \in Desc /\ size <= blockSize[d]
  BY <1>1, <1>3, SmallSize DEF descIdx
<1> HIDE DEF d
<1>5. F \in FreeSets /\ \A e \in Desc : F[e] = FreeOf(arena, lent, e)
  BY FreeNowFacts
<1> HIDE DEF F
<1>6. arena \in [Page -> ArenaStruct \cup {NULL}]
  BY <1>2 DEF Sound
<1>7. isNew <=> F[d] = {}
  BY <1>2, <1>4, <1>5, HoldsTests
<1>8. PICK n \in Nat \ {0} : n = blocksPerArena(d)
  BY <1>4, ArenaLayout
<1>9. CASE isNew
  <2>1. a \in Page /\ a \notin pages.used
    <3>1. pages.size \in Nat /\ Positions(pages) = Page
      BY <1>2 DEF BitmapType, Positions, Page
    <3>2. \A i \in a .. a + 1 - 1 : i \in Positions(pages) /\ i \notin pages.used
      BY <1>1, <1>9, <3>1, ScanFree
    <3>3. a \in Positions(pages)
      BY <1>1, <1>9, <3>1, ScanFree
    <3> HIDE DEF a
    <3>4. a \in a .. a + 1 - 1
      BY <3>1, <3>3, NullFacts
    <3> QED BY <3>1, <3>2, <3>3, <3>4
  <2>2. list = Split(a, d)
        /\ arenas = [arena EXCEPT ![a] =
                       [desc |-> d, cnt |-> blocksPerArena(d), large |-> FALSE]]
    BY <1>9
  <2>3. pages' = bitmapSet(pages, a, 1)
    BY <1>1, <1>9
  <2> HIDE DEF a, isNew, list, arenas, b
  <2>4. arena[a] = NULL /\ InPage(lent, a) = {} /\ Span(arena[a], a) = {}
    BY <1>2, <2>1, FreePage DEF Kept
  <2>5. \A e \in Desc : F[e] \cap BlocksOf(a, d) = {}
    <3> SUFFICES ASSUME NEW e \in Desc, NEW c \in FreeOf(arena, lent, e), c \in BlocksOf(a, d)
                 PROVE  FALSE
      BY <1>5
    <3>1. arena[block2arena(c)] # NULL
      BY FreeApart
    <3>2. block2arena(c) = a
      BY <1>4, <2>1, BlocksOfFacts
    <3> QED BY <2>4, <3>1, <3>2
  <2> DEFINE M == [F EXCEPT ![d] = F[d] \cup BlocksOf(a, d)]
  <2>6. Holds(list, M)
    BY <1>2, <1>4, <1>5, <2>1, <2>2, <2>5, HoldsSplit
  <2>7. /\ M \in FreeSets /\ M[d] = BlocksOf(a, d)
        /\ \A e \in Desc : e # d => M[e] = F[e]
    <3>1. BlocksOf(a, d) \subseteq Blocks
      BY <1>4, <2>1, FirstOfFacts
    <3> QED BY <1>4, <1>5, <1>7, <1>9, <3>1 DEF FreeSets
  <2>8. BlocksOf(a, d) # {}
    BY <1>4, <1>8 DEF BlocksOf
  <2> HIDE DEF M
  <2>9. b \in M[d] /\ Holds(Clear(ListPop(list, d), {freeNode(b)}),
                            [M EXCEPT ![d] = M[d] \ {b}])
    <3>1. \A e \in Desc : e # d => M[e] \cap M[d] = {}
      BY <2>5, <2>7
    <3> QED BY <1>4, <2>6, <2>7, <2>8, <3>1, HoldsTake DEF b
  <2>10. b \in BlocksOf(a, d) /\ p = a
    BY <1>4, <2>1, <2>7, <2>9, BlocksOfFacts
  <2> DEFINE x == [desc |-> d, cnt |-> blocksPerArena(d), large |-> FALSE]
             r == [x EXCEPT !.cnt = @ - 1]
  <2>11. arena' = [arena EXCEPT ![a] = r]
    <3>1. /\ arenas = [arena EXCEPT ![a] = x] /\ arenas[a] = x
          /\ arena' = [arenas EXCEPT ![a] = [arenas[a] EXCEPT !.cnt = @ - 1]]
      BY <1>1, <1>6, <2>1, <2>2, <2>10
    <3> HIDE DEF x
    <3> QED BY <1>6, <3>1
  <2>12. r \in ArenaStruct /\ r.desc = d /\ ~ r.large /\ r.cnt = blocksPerArena(d) - 0 - 1
    <3>1. x \in ArenaStruct /\ x.desc = d /\ ~ x.large /\ x.cnt = blocksPerArena(d)
      BY <1>4, <1>8 DEF ArenaStruct
    <3> HIDE DEF x
    <3> QED BY <1>8, <3>1 DEF ArenaStruct
  <2> HIDE DEF r
  <2>13. \A blk \in lent : blk.addr # b
    <3> SUFFICES ASSUME NEW blk \in lent, blk.addr = b PROVE FALSE
      OBVIOUS
    <3>1. blk \in InPage(lent, a)
      BY <2>10 DEF InPage
    <3> QED BY <2>4, <3>1
  <2>14. Cardinality(InPage(lent, a)) = 0
    BY <2>4, FS_EmptySet
  <2>15. /\ Sound([arena EXCEPT ![a] = r], lent', Kept \cup {a})
         /\ SameBlocks(lent, lent', a)
         /\ PageFree(r, InPage(lent', a), a, d) = PageFree(r, InPage(lent, a), a, d) \ {b}
    <3>1. Takes(arena, lent, Kept, d, a, b, size, r)
      BY <1>2, <1>3, <1>4, <2>1, <2>4, <2>10, <2>12, <2>13, <2>14 DEF Takes, Kept
    <3>2. lent' = Lend(lent, b, size)
      BY <1>1 DEF Lend
    <3>3. /\ Sound([arena EXCEPT ![a] = r], Lend(lent, b, size), Kept \cup {a})
          /\ SameBlocks(lent, Lend(lent, b, size), a)
          /\ PageFree(r, InPage(Lend(lent, b, size), a), a, d)
               = PageFree(r, InPage(lent, a), a, d) \ {b}
      <4>1. Sound([arena EXCEPT ![a] = r], Lend(lent, b, size), Kept \cup {a})
        BY <3>1, TakeSound
      <4>2. SameBlocks(lent, Lend(lent, b, size), a)
        BY <3>1, TakeSound
      <4>3. \A c : c \in PageFree(r, InPage(Lend(lent, b, size), a), a, d)
                     <=> c \in PageFree(r, InPage(lent, a), a, d) /\ c # b
        BY <3>1, TakeSound
      <4> QED BY <4>1, <4>2, <4>3
    <3> QED BY <3>2, <3>3
  <2>16. pages' \in BitmapType /\ pages'.size = VaddrBytes
         /\ pages'.used = pages.used \cup {a}
    <3>1. a \in Int
      BY <2>1, NullFacts
    <3>2. pages' = [size |-> pages.size, used |-> pages.used \cup {a}]
      BY <1>2, <2>3, <3>1, SetBits
    <3> QED BY <1>2, <3>1, <3>2 DEF BitmapType
  <2>18. FramesKnown' /\ Kept' = Kept \cup {a}
    <3>1. mapped' = mapped \cup {a} /\ {a} \cap pages.used = {}
      BY <1>1, <1>9, <2>1 DEF isNew, a
    <3> QED BY <1>1, <1>2, <2>16, <3>1, PagesTaken
  <2>17. FreeNow(arena', lent') = [M EXCEPT ![d] = M[d] \ {b}]
    <3>1. arena'[a] = r /\ SameArenas(arena, arena', a)
      BY <1>6, <2>1, <2>11 DEF SameArenas
    <3>7. arena'[a].desc = d
      BY <2>12, <3>1
    <3>8. (arena[a] = NULL \/ arena[a].desc = d) /\ (arena'[a] = NULL \/ arena'[a].desc = d)
      BY <2>4, <3>7
    <3>2. FreeNow(arena', lent') =
            [FreeNow(arena, lent) EXCEPT ![d] =
               (FreeOf(arena, lent, d) \ PageFree(arena[a], InPage(lent, a), a, d))
                  \cup PageFree(arena'[a], InPage(lent', a), a, d)]
      BY <1>4, <2>1, <2>15, <3>1, <3>8, FreeNowStep
    <3>3. PageFree(r, InPage(lent, a), a, d) = BlocksOf(a, d)
      BY <2>4, <2>12, NullFacts DEF PageFree
    <3>4. FreeOf(arena, lent, d) = {}
      BY <1>4, <1>5, <1>7, <1>9
    <3>5. FreeNow(arena', lent') = [F EXCEPT ![d] = BlocksOf(a, d) \ {b}]
      BY <2>15, <3>1, <3>2, <3>3, <3>4 DEF F
    <3>6. [M EXCEPT ![d] = M[d] \ {b}] = [F EXCEPT ![d] = BlocksOf(a, d) \ {b}]
      BY <1>4, <1>5, <2>7 DEF FreeSets
    <3> QED BY <3>5, <3>6
  <2> QED BY <1>1, <1>2, <2>9, <2>11, <2>15, <2>16, <2>17, <2>18 DEF HeapInv
<1>10. CASE ~ isNew
  <2>1. list = free /\ arenas = arena /\ pages' = pages /\ mapped' = mapped
    BY <1>1, <1>10
  <2> HIDE DEF isNew, list, arenas, b
  <2>2. \A e \in Desc : e # d => F[e] \cap F[d] = {}
    BY <1>4, <1>5, FreeApart
  <2>3. b \in F[d] /\ Holds(Clear(ListPop(list, d), {freeNode(b)}),
                            [F EXCEPT ![d] = F[d] \ {b}])
    BY <1>2, <1>4, <1>5, <1>7, <1>10, <2>1, <2>2, HoldsTake DEF b
  <2>4. /\ p \in Page /\ b \in BlocksOf(p, d) /\ \A blk \in lent : blk.addr # b
        /\ arena[p] # NULL /\ arena[p].desc = d
        /\ b \in PageFree(arena[p], InPage(lent, p), p, d)
    BY <1>4, <1>5, <2>3, FreeApart
  <2> HIDE DEF p
  <2>5. arena[p] \in ArenaStruct /\ p \in Span(arena[p], p)
        /\ Span(arena[p], p) \subseteq Kept
    BY <1>2, <2>4, SpanFacts
  <2>6. PageSound(arena[p], InPage(lent, p), p)
    BY <1>2, <2>4 DEF Sound
  <2>7. ~ arena[p].large
    <3>1. arena[p].large => arena[p].desc = NULL
      BY <2>4, <2>6 DEF PageSound, LargeSound
    <3> QED BY <1>4, <2>4, <3>1, NullFacts
  <2>8. arena[p].cnt = blocksPerArena(d) - Cardinality(InPage(lent, p))
    BY <2>4, <2>6, <2>7 DEF PageSound, SmallSound
  <2> DEFINE r == [arena[p] EXCEPT !.cnt = @ - 1]
  <2>9. arena' = [arena EXCEPT ![p] = r]
    BY <1>1, <1>6, <2>1, <2>4
  <2>10. /\ r \in ArenaStruct /\ r.desc = d /\ ~ r.large
         /\ r.cnt = blocksPerArena(d) - Cardinality(InPage(lent, p)) - 1
    BY <2>4, <2>5, <2>7, <2>8 DEF ArenaStruct
  <2> HIDE DEF r
  <2>11. /\ Sound([arena EXCEPT ![p] = r], lent', Kept \cup {p})
         /\ SameBlocks(lent, lent', p)
         /\ PageFree(r, InPage(lent', p), p, d) = PageFree(r, InPage(lent, p), p, d) \ {b}
    <3>1. Takes(arena, lent, Kept, d, p, b, size, r)
      BY <1>2, <1>3, <1>4, <2>4, <2>7, <2>10 DEF Takes
    <3>2. lent' = Lend(lent, b, size)
      BY <1>1 DEF Lend
    <3>3. /\ Sound([arena EXCEPT ![p] = r], Lend(lent, b, size), Kept \cup {p})
          /\ SameBlocks(lent, Lend(lent, b, size), p)
          /\ PageFree(r, InPage(Lend(lent, b, size), p), p, d)
               = PageFree(r, InPage(lent, p), p, d) \ {b}
      <4>1. Sound([arena EXCEPT ![p] = r], Lend(lent, b, size), Kept \cup {p})
        BY <3>1, TakeSound
      <4>2. SameBlocks(lent, Lend(lent, b, size), p)
        BY <3>1, TakeSound
      <4>3. \A c : c \in PageFree(r, InPage(Lend(lent, b, size), p), p, d)
                     <=> c \in PageFree(r, InPage(lent, p), p, d) /\ c # b
        BY <3>1, TakeSound
      <4> QED BY <4>1, <4>2, <4>3
    <3> QED BY <3>2, <3>3
  <2>12. Kept \cup {p} = Kept
    BY <2>5
  <2>14. FramesKnown' /\ Kept' = Kept
    BY <1>1, <1>2, <2>1 DEF FramesKnown, Kept
  <2>13. FreeNow(arena', lent') = [F EXCEPT ![d] = F[d] \ {b}]
    <3>1. arena'[p] = r /\ SameArenas(arena, arena', p)
      BY <1>6, <2>4, <2>9 DEF SameArenas
    <3>6. arena'[p].desc = d
      BY <2>10, <3>1
    <3>2. FreeNow(arena', lent') =
            [F EXCEPT ![d] = (FreeOf(arena, lent, d) \ PageFree(arena[p], InPage(lent, p), p, d))
                                \cup PageFree(arena'[p], InPage(lent', p), p, d)]
      BY <1>4, <2>4, <2>11, <3>1, <3>6, FreeNowStep DEF F
    <3>3. PageFree(r, InPage(lent, p), p, d) = PageFree(arena[p], InPage(lent, p), p, d)
      BY <2>4, <2>10, NullFacts DEF PageFree
    <3>4. PageFree(arena[p], InPage(lent, p), p, d) \subseteq FreeOf(arena, lent, d)
      BY <2>4 DEF FreeOf
    <3>5. (FreeOf(arena, lent, d) \ PageFree(arena[p], InPage(lent, p), p, d))
             \cup PageFree(r, InPage(lent', p), p, d) = F[d] \ {b}
      BY <1>4, <1>5, <2>4, <2>11, <3>3, <3>4
    <3> QED BY <3>1, <3>2, <3>5
  <2> QED BY <1>1, <1>2, <2>1, <2>3, <2>9, <2>11, <2>12, <2>13, <2>14 DEF HeapInv
<1> QED BY <1>9, <1>10

-----------------------------------------------------------------------------
(* The heap after the pages of a large request were given back. *)
LEMMA FreeLargeSound ==
  ASSUME HeapInv, NEW blk \in lent, FreeLarge(blk)
  PROVE  HeapInv'
<1> DEFINE a == block2arena(blk.addr)
<1>1. /\ arena[a].desc = NULL /\ arena[a].large
      /\ pages' = bitmapSetRun(pages, a, arena[a].cnt, 0)
      /\ mapped' = mapped \ PageRun(a, arena[a].cnt)
      /\ arena' = [arena EXCEPT ![a] = NULL]
      /\ lent' = lent \ {blk} /\ free' = free /\ lost' = lost /\ panic' = panic
  BY DEF FreeLarge
<1>2. /\ pages \in BitmapType /\ pages.size = VaddrBytes
      /\ FramesKnown /\ Sound(arena, lent, Kept)
      /\ Holds(free, FreeNow(arena, lent)) /\ panic # "sysFree"
  BY DEF HeapInv
<1>3. a \in Page /\ arena[a] # NULL /\ blk \in InPage(lent, a)
  BY <1>2, Extent
<1>4. /\ arena[a] \in ArenaStruct
      /\ SpanLen(arena[a]) \in Nat \ {0}
      /\ Span(arena[a], a) = a .. a + SpanLen(arena[a]) - 1
      /\ Span(arena[a], a) \subseteq Kept
  BY <1>2, <1>3, SpanFacts
<1>5. SpanLen(arena[a]) = arena[a].cnt
  BY <1>1 DEF SpanLen
<1>6. PageSound(arena[a], InPage(lent, a), a)
  BY <1>2, <1>3 DEF Sound
<1>7. InPage(lent', a) = {}
  <2>1. LargeSound(arena[a], InPage(lent, a), a)
    BY <1>1, <1>3, <1>6 DEF PageSound
  <2>2. \A other \in InPage(lent, a) : other.addr = blk.addr
    BY <1>3, <2>1 DEF LargeSound
  <2>3. \A other \in InPage(lent, a) : other = blk
    BY <1>3, <1>6, <2>2 DEF PageSound
  <2>4. InPage(lent', a) = InPage(lent, a) \ {blk}
    BY <1>1, InPageStep
  <2> QED BY <2>3, <2>4
<1>8. SameBlocks(lent, lent', a)
  BY <1>1, InPageStep
<1>9. LentType(lent')
  BY <1>1, <1>2, LentStep DEF Sound
<1> HIDE DEF a
<1>10. PageSound(NULL, InPage(lent', a), a) /\ Span(NULL, a) = {}
  BY <1>7 DEF PageSound, Span
<1>11. Sound([arena EXCEPT ![a] = NULL], lent',
             (Kept \ Span(arena[a], a)) \cup Span(NULL, a))
  BY <1>2, <1>3, <1>8, <1>9, <1>10, SoundStep
<1>12. a \in Int
  BY <1>3, NullFacts
<1>13. pages' = [size |-> pages.size, used |-> pages.used \ Span(arena[a], a)]
  <2>1. PICK k \in Int : k = arena[a].cnt
    BY <1>4, <1>5
  <2>2. Span(arena[a], a) = a .. a + k - 1 /\ pages' = bitmapSetRun(pages, a, k, 0)
    BY <1>1, <1>4, <1>5, <2>1
  <2> QED BY <1>2, <1>12, <2>2, SetRunBits
<1>14. pages' \in BitmapType /\ pages'.size = VaddrBytes
       /\ pages'.used = pages.used \ Span(arena[a], a)
  BY <1>2, <1>13 DEF BitmapType
<1>16. FramesKnown' /\ Kept' = Kept \ Span(arena[a], a)
  <2>1. mapped' = mapped \ Span(arena[a], a)
    BY <1>1, <1>4, <1>5 DEF PageRun
  <2> QED BY <1>1, <1>2, <1>4, <1>14, <2>1, PagesGiven
<1>15. FreeNow(arena', lent') = FreeNow(arena, lent)
  <2>1. arena \in [Page -> ArenaStruct \cup {NULL}]
    BY <1>2 DEF Sound
  <2>2. arena'[a] = NULL /\ SameArenas(arena, arena', a)
    BY <1>1, <1>3, <2>1 DEF SameArenas
  <2>3. \A d \in Desc : PageFree(arena[a], InPage(lent, a), a, d) = {}
    BY <1>1, NullFacts DEF PageFree
  <2>4. \A d \in Desc : PageFree(arena'[a], InPage(lent', a), a, d) = {}
    BY <2>2 DEF PageFree
  <2>5. ASSUME NEW d \in Desc
        PROVE  FreeOf(arena', lent', d) = FreeOf(arena, lent, d)
    <3>1. FreeOf(arena', lent', d)
             = (FreeOf(arena, lent, d) \ PageFree(arena[a], InPage(lent, a), a, d))
                  \cup PageFree(arena'[a], InPage(lent', a), a, d)
      BY <1>3, <1>8, <2>2, FreeStep
    <3> QED BY <2>3, <2>4, <3>1
  <2> QED BY <2>5 DEF FreeNow
<1>17. Sound(arena', lent', Kept')
  BY <1>1, <1>10, <1>11, <1>16
<1> QED BY <1>1, <1>2, <1>14, <1>15, <1>16, <1>17 DEF HeapInv

(* The heap after a block was given back; when it was the last in use of its *)
(* arena, all the arena's blocks are on their list, and leave it.            *)
LEMMA FreeSmallSound ==
  ASSUME HeapInv, NEW blk \in lent, FreeSmall(blk)
  PROVE  HeapInv'
<1> DEFINE a    == block2arena(blk.addr)
           d    == arena[a].desc
           b    == blk.addr
           list == ListAppend(free, d, freeNode(b))
           cnt  == arena[a].cnt + 1
           full == cnt = blocksPerArena(d)
           F    == FreeNow(arena, lent)
           r    == IF full THEN NULL ELSE [arena[a] EXCEPT !.cnt = cnt]
<1>1. /\ d # NULL
      /\ panic' = IF full /\ \E c \in BlocksOf(a, d) : ~ ListExist(list, d, freeNode(c))
                  THEN "sysFree" ELSE "none"
      /\ free' = IF full THEN Unsplit(list, a, d) ELSE list
      /\ pages' = IF full THEN bitmapSet(pages, a, 0) ELSE pages
      /\ mapped' = IF full THEN mapped \ {a} ELSE mapped
      /\ arena' = [arena EXCEPT ![a] = IF full THEN NULL ELSE [@ EXCEPT !.cnt = cnt]]
      /\ lent' = lent \ {blk} /\ lost' = lost
  BY DEF FreeSmall
<1>2. /\ pages \in BitmapType /\ pages.size = VaddrBytes
      /\ FramesKnown /\ Sound(arena, lent, Kept)
      /\ Holds(free, F) /\ panic # "sysFree"
  BY DEF HeapInv
<1>3. a \in Page /\ arena[a] # NULL /\ blk \in InPage(lent, a)
  BY <1>2, Extent
<1> HIDE DEF a
<1>4. arena[a] \in ArenaStruct /\ arena \in [Page -> ArenaStruct \cup {NULL}]
  BY <1>2, <1>3, SpanFacts DEF Sound
<1>5. PageSound(arena[a], InPage(lent, a), a)
  BY <1>2, <1>3 DEF Sound
<1>6. ~ arena[a].large
  <2>1. arena[a].large => arena[a].desc = NULL
    BY <1>3, <1>5 DEF PageSound, LargeSound
  <2> QED BY <1>1, <2>1
<1>7. SmallSound(arena[a], InPage(lent, a), a)
  BY <1>3, <1>5, <1>6 DEF PageSound
<1>8. d \in Desc /\ b \in BlocksOf(a, d)
  BY <1>3, <1>7 DEF SmallSound
<1>9. block2arena(b) = a /\ b \in Blocks
  BY <1>3, <1>8, BlocksOfFacts
<1>10. arena' = [arena EXCEPT ![a] = r]
  BY <1>1
<1> HIDE DEF d, b, cnt
<1>11. F \in FreeSets /\ \A e \in Desc : F[e] = FreeOf(arena, lent, e)
  BY FreeNowFacts
<1> DEFINE B == InPage(lent, a)
<1>12. InPage(lent', a) = B \ {blk} /\ SameBlocks(lent, lent', a)
  <2>1. block2arena(blk.addr) = a
    BY <1>9 DEF b
  <2>2. InPage(lent \ {blk}, a) = InPage(lent, a) \ {blk}
        /\ SameBlocks(lent, lent \ {blk}, a)
    BY <2>1 DEF InPage, SameBlocks
  <2> QED BY <1>1, <2>2
<1>13. LentType(lent')
  BY <1>1, <1>2, LentStep DEF Sound
<1>14. /\ IsFiniteSet(B) /\ Cardinality(B) \in Nat
       /\ Cardinality(B \ {blk}) = Cardinality(B) - 1
       /\ Cardinality(B \ {blk}) \in Nat
       /\ Cardinality(B \ {blk}) = 0 <=> B \ {blk} = {}
  <2>1. IsFiniteSet(lent) /\ B \subseteq lent
    BY <1>2 DEF Sound, LentType, InPage
  <2>2. IsFiniteSet(B)
    BY <2>1, FS_Subset
  <2>3. IsFiniteSet(B \ {blk}) /\ Cardinality(B \ {blk}) = Cardinality(B) - 1
    BY <1>3, <2>2, FS_RemoveElement
  <2> QED BY <2>2, <2>3, FS_CardinalityType, FS_EmptySet
<1>15. PICK n \in Nat \ {0} : n = blocksPerArena(d)
  BY <1>8, ArenaLayout
<1>16. cnt = n - Cardinality(B \ {blk})
  BY <1>7, <1>14, <1>15 DEF SmallSound, cnt, d
<1>17. full <=> B \ {blk} = {}
  BY <1>14, <1>15, <1>16
<1>18. \A e \in Desc : b \notin F[e]
  BY <1>11, FreeApart DEF b
<1> DEFINE M == [F EXCEPT ![d] = F[d] \cup {b}]
<1>19. Holds(list, M)
  BY <1>2, <1>8, <1>9, <1>11, <1>18, HoldsAppend
<1>20. M \in FreeSets /\ M[d] = F[d] \cup {b} /\ \A e \in Desc : e # d => M[e] = F[e]
  BY <1>8, <1>9, <1>11 DEF FreeSets
<1> HIDE DEF F, M, list, full
<1>21. \A c \in BlocksOf(a, d) :
          c \in F[d] <=> \A other \in B : other.addr # c
  <2> SUFFICES ASSUME NEW c \in BlocksOf(a, d)
               PROVE  c \in F[d] <=> \A other \in B : other.addr # c
    OBVIOUS
  <2>1. c \in F[d] <=> c \in PageFree(arena[a], B, a, d)
    BY <1>3, <1>8, <1>11, FreeOfFacts
  <2> QED BY <1>3, <2>1 DEF PageFree, d
<1>22. \A other \in B : other.addr = b => other = blk
  BY <1>3, <1>5 DEF PageSound, b
<1>23. FreeNow(arena', lent') = [F EXCEPT ![d] = (F[d] \ PageFree(arena[a], B, a, d))
                                                    \cup PageFree(r, B \ {blk}, a, d)]
  <2>1. arena'[a] = r /\ SameArenas(arena, arena', a)
    BY <1>3, <1>4, <1>10 DEF SameArenas
  <2>2. r = NULL \/ r.desc = d
    BY <1>4 DEF ArenaStruct, d
  <2>3. arena'[a] = NULL \/ arena'[a].desc = d
    BY <2>1, <2>2
  <2>4. arena[a] = NULL \/ arena[a].desc = d
    BY DEF d
  <2> HIDE DEF r, B
  <2>5. FreeNow(arena', lent') =
          [FreeNow(arena, lent) EXCEPT ![d] =
             (FreeOf(arena, lent, d) \ PageFree(arena[a], InPage(lent, a), a, d))
                \cup PageFree(arena'[a], InPage(lent', a), a, d)]
    BY <1>3, <1>8, <1>12, <2>1, <2>3, <2>4, FreeNowStep
  <2> QED BY <1>8, <1>11, <1>12, <2>1, <2>5 DEF F, B
<1>24. PageFree(arena[a], B, a, d) = BlocksOf(a, d) \cap F[d]
  BY <1>3, <1>21 DEF PageFree, d
<1>25. CASE full
  <2>1. B = {blk}
    BY <1>3, <1>17, <1>25
  <2>2. BlocksOf(a, d) \subseteq M[d]
    BY <1>20, <1>21, <2>1 DEF b
  <2>3. \A e \in Desc : e # d => M[e] \cap BlocksOf(a, d) = {}
    <3> SUFFICES ASSUME NEW e \in Desc, e # d, NEW c \in F[e], c \in BlocksOf(a, d)
                 PROVE  FALSE
      BY <1>20
    <3>1. arena[block2arena(c)].desc = e
      BY <1>11, FreeApart
    <3>2. block2arena(c) = a
      BY <1>3, <1>8, BlocksOfFacts
    <3> QED BY <3>1, <3>2 DEF d
  <2>4. \A c \in BlocksOf(a, d) : ListExist(list, d, freeNode(c))
    <3>1. BlocksOf(a, d) \subseteq Blocks
      BY <1>3, <1>8, FirstOfFacts
    <3> QED BY <1>8, <1>19, <1>20, <2>2, <3>1, HoldsTests
  <2>5. panic' # "sysFree"
    BY <1>1, <2>4 DEF list, full
  <2>6. free' = Unsplit(list, a, d)
    BY <1>1, <1>25 DEF list, full
  <2>7. Holds(free', [M EXCEPT ![d] = M[d] \ BlocksOf(a, d)])
    BY <1>3, <1>8, <1>19, <1>20, <2>2, <2>3, <2>6, HoldsUnsplit
  <2>8. r = NULL
    BY <1>25
  <2>9. FreeNow(arena', lent') = [M EXCEPT ![d] = M[d] \ BlocksOf(a, d)]
    <3>1. PageFree(r, B \ {blk}, a, d) = {}
      BY <2>8 DEF PageFree
    <3>2. (F[d] \ PageFree(arena[a], B, a, d)) \cup PageFree(r, B \ {blk}, a, d)
             = M[d] \ BlocksOf(a, d)
      BY <1>8, <1>20, <1>24, <3>1
    <3>3. [M EXCEPT ![d] = M[d] \ BlocksOf(a, d)] = [F EXCEPT ![d] = M[d] \ BlocksOf(a, d)]
      BY <1>8, <1>11, <1>20 DEF FreeSets
    <3> QED BY <1>23, <3>2, <3>3
  <2>10. PageSound(NULL, InPage(lent', a), a) /\ Span(NULL, a) = {}
    BY <1>12, <2>1 DEF PageSound, Span
  <2>11. Sound([arena EXCEPT ![a] = NULL], lent',
               (Kept \ Span(arena[a], a)) \cup Span(NULL, a))
    BY <1>2, <1>3, <1>12, <1>13, <2>10, SoundStep
  <2>12. a \in Int
    BY <1>3, NullFacts
  <2>13. Span(arena[a], a) = {a}
    BY <1>3, <1>6, <2>12 DEF Span, SpanLen
  <2>14. pages' = bitmapSet(pages, a, 0)
    BY <1>1, <1>25 DEF full
  <2>15. pages' = [size |-> pages.size, used |-> pages.used \ {a}]
    BY <1>2, <2>12, <2>14, SetBits
  <2>16. pages' \in BitmapType /\ pages'.size = VaddrBytes
         /\ pages'.used = pages.used \ {a}
    BY <1>2, <2>15 DEF BitmapType
  <2>17. FramesKnown' /\ Kept' = Kept \ {a}
    <3>1. mapped' = mapped \ {a}
      BY <1>1, <1>25 DEF full
    <3>2. {a} \subseteq Kept
      BY <1>2, <1>3, <2>13, SpanFacts
    <3> QED BY <1>1, <1>2, <2>16, <3>1, <3>2, PagesGiven
  <2>18. Sound([arena EXCEPT ![a] = NULL], lent', Kept')
    BY <2>10, <2>11, <2>13, <2>17
  <2> HIDE DEF r
  <2> QED BY <1>10, <2>5, <2>7, <2>8, <2>9, <2>16, <2>17, <2>18 DEF HeapInv
<1>26. CASE ~ full
  <2>1. free' = list /\ pages' = pages /\ mapped' = mapped
    BY <1>1, <1>26 DEF list, full
  <2>2. panic' # "sysFree"
    BY <1>1, <1>26 DEF list, full
  <2>3. r = [arena[a] EXCEPT !.cnt = cnt]
    BY <1>26
  <2>4. B \ {blk} # {}
    BY <1>17, <1>26
  <2>5. cnt \in Int
    BY <1>14, <1>15, <1>16
  <2>6. /\ r \in ArenaStruct /\ r.desc = d /\ r.large = arena[a].large /\ r.cnt = cnt
        /\ r # NULL
    BY <1>4, <2>3, <2>5, NullFacts DEF ArenaStruct, d
  <2> HIDE DEF r
  <2>7. SmallSound(r, B \ {blk}, a)
    <3>1. \A other \in B \ {blk} : /\ other.addr \in BlocksOf(a, d)
                                   /\ other.size <= blockSize[d]
      BY <1>7 DEF SmallSound, d
    <3> QED BY <1>8, <1>15, <1>16, <2>6, <3>1 DEF SmallSound
  <2>8. PageSound(r, InPage(lent', a), a)
    <3>1. \A other, third \in B \ {blk} : other.addr = third.addr => other = third
      BY <1>3, <1>5 DEF PageSound
    <3> QED BY <1>6, <1>12, <2>4, <2>6, <2>7, <3>1 DEF PageSound
  <2>9. Span(r, a) = Span(arena[a], a)
    BY <1>3, <1>6, <2>6 DEF Span, SpanLen
  <2>10. \A q \in Page : q # a => Span(r, a) \cap Span(arena[q], q) = {}
    BY <1>2, <1>3, <2>9 DEF Sound, ArenasApart
  <2>11. Sound([arena EXCEPT ![a] = r], lent',
               (Kept \ Span(arena[a], a)) \cup Span(r, a))
    BY <1>2, <1>3, <1>12, <1>13, <2>6, <2>8, <2>10, SoundStep
  <2>12. (Kept \ Span(arena[a], a)) \cup Span(r, a) = Kept
    BY <1>2, <1>3, <2>9, SpanFacts
  <2>13. FreeNow(arena', lent') = M
    <3>1. PageFree(r, B \ {blk}, a, d) = PageFree(arena[a], B, a, d) \cup {b}
      <4>1. \A c \in BlocksOf(a, d) : (\A other \in B \ {blk} : other.addr # c)
                                         <=> c = b \/ \A other \in B : other.addr # c
        BY <1>3, <1>22 DEF b
      <4>2. PageFree(r, B \ {blk}, a, d)
               = {c \in BlocksOf(a, d) : \A other \in B \ {blk} : other.addr # c}
        BY <2>6 DEF PageFree
      <4>3. PageFree(arena[a], B, a, d)
               = {c \in BlocksOf(a, d) : \A other \in B : other.addr # c}
        BY <1>3 DEF PageFree, d
      <4> QED BY <1>8, <4>1, <4>2, <4>3
    <3>2. (F[d] \ PageFree(arena[a], B, a, d)) \cup PageFree(r, B \ {blk}, a, d)
             = F[d] \cup {b}
      BY <1>24, <3>1
    <3> QED BY <1>23, <3>2 DEF M
  <2>14. FramesKnown' /\ Kept' = Kept
    BY <1>1, <1>2, <2>1 DEF FramesKnown, Kept
  <2> QED BY <1>2, <1>10, <1>19, <2>1, <2>2, <2>11, <2>12, <2>13, <2>14 DEF HeapInv
<1> QED BY <1>25, <1>26

-----------------------------------------------------------------------------
(* The heap after mallocPage has run out of frames half-way: what it took is *)
(* left behind, and the arenas are as they were.                             *)
LEMMA RunOutSound ==
  ASSUME HeapInv, NEW size \in Size, Accepted(size), RunOut(size)
  PROVE  HeapInv'
<1> DEFINE cnt == IF Large(size) THEN pageCnt(size) ELSE 1
           a   == bitmapScan(pages, cnt)
<1>1. PICK got \in 0 .. cnt - 1 :
        /\ a # -1
        /\ mapped' = mapped \cup PageRun(a, got)
        /\ lost' = [marked |-> lost.marked \cup PageRun(a, cnt),
                    mapped |-> lost.mapped \cup PageRun(a, got)]
        /\ pages' = bitmapSetRun(pages, a, cnt, 1)
        /\ arena' = arena /\ free' = free /\ lent' = lent /\ panic' = panic
  BY DEF RunOut
<1>2. /\ pages \in BitmapType /\ pages.size = VaddrBytes
      /\ FramesKnown /\ Sound(arena, lent, Kept)
      /\ Holds(free, FreeNow(arena, lent)) /\ panic # "sysFree"
  BY DEF HeapInv
<1>3. PICK k \in Nat \ {0} : k = cnt
  <2>1. size \in Nat \ {0}
    BY HeapAssumption DEF Accepted
  <2> QED BY <2>1, PageCntFacts
<1>4. /\ a \in Page
      /\ \A i \in a .. a + k - 1 : i \in Page /\ i \notin pages.used
  <2>1. pages.size \in Nat /\ bitmapScan(pages, k) # -1 /\ a = bitmapScan(pages, k)
    BY <1>1, <1>2, <1>3 DEF BitmapType
  <2>2. Positions(pages) = Page
    BY <1>2 DEF Positions, Page
  <2> HIDE DEF a
  <2> QED BY <2>1, <2>2, ScanFree
<1> HIDE DEF a, cnt
<1>5. a \in Int
  BY <1>4, NullFacts
<1>6. PageRun(a, cnt) = a .. a + k - 1 /\ PageRun(a, cnt) \cap pages.used = {}
      /\ PageRun(a, cnt) \subseteq Int
  BY <1>3, <1>4, <1>5 DEF PageRun
<1>7. PageRun(a, got) \subseteq PageRun(a, cnt)
  BY <1>3, <1>5 DEF PageRun
<1>8. pages' = [size |-> pages.size, used |-> pages.used \cup PageRun(a, cnt)]
  BY <1>1, <1>2, <1>3, <1>5, <1>6, SetRunBits
<1>9. pages' \in BitmapType /\ pages'.size = VaddrBytes
      /\ pages'.used = pages.used \cup PageRun(a, cnt)
  <2>1. pages.used \cup PageRun(a, cnt) \in SUBSET Int
    BY <1>2, <1>6 DEF BitmapType
  <2> QED BY <1>2, <1>8, <2>1 DEF BitmapType
<1>10. lost'.marked = lost.marked \cup PageRun(a, cnt)
       /\ lost'.mapped = lost.mapped \cup PageRun(a, got)
  BY <1>1
<1>11. Kept' = Kept
  BY <1>2, <1>6, <1>9, <1>10 DEF Kept, FramesKnown
<1>12. FramesKnown'
  BY <1>1, <1>2, <1>7, <1>9, <1>10, <1>11 DEF FramesKnown
<1> QED BY <1>1, <1>2, <1>9, <1>11, <1>12 DEF HeapInv

(* The ASSERT of mallocPage fails before anything is taken. *)
LEMMA TooManySound ==
  ASSUME HeapInv, NEW size \in Size, TooManyPages(size)
  PROVE  HeapInv'
<1>1. /\ UNCHANGED <<pages, mapped, arena, free, lent, lost>>
      /\ panic' = "mallocPage"
  BY DEF TooManyPages
<1>2. FramesKnown' <=> FramesKnown
  BY <1>1 DEF FramesKnown, Kept
<1>3. Kept' = Kept
  BY <1>1 DEF Kept
<1> QED BY <1>1, <1>2, <1>3 DEF HeapInv

(* The heap as it starts: no page taken, every list empty. *)
LEMMA HeapStarts == ASSUME HeapInit PROVE HeapInv
<1>1. /\ pages = [size |-> VaddrBytes, used |-> {}]
      /\ arena = [p \in Page |-> NULL] /\ lent = {} /\ panic = "none"
      /\ mapped = {} /\ lost = [marked |-> {}, mapped |-> {}]
      /\ free = ListInit(Desc, FreeNode)
  BY DEF HeapInit, bitmapInit, FreeNode
<1>2. pages \in BitmapType /\ pages.size = VaddrBytes /\ pages.used = {}
  BY <1>1, HeapAssumption DEF BitmapType
<1>3. \A p \in Page : arena[p] = NULL /\ InPage(lent, p) = {} /\ Span(arena[p], p) = {}
  BY <1>1 DEF InPage, Span
<1>6. Kept = {} /\ FramesKnown
  BY <1>1, <1>2 DEF Kept, FramesKnown
<1>4. Sound(arena, lent, Kept)
  <2>1. LentType(lent)
    BY <1>1, FS_EmptySet DEF LentType
  <2>2. \A p \in Page : PageSound(arena[p], InPage(lent, p), p)
    BY <1>3 DEF PageSound
  <2>3. ArenasApart(arena)
    BY <1>3 DEF ArenasApart
  <2>4. Kept = UNION {Span(arena[p], p) : p \in Page}
    BY <1>3, <1>6
  <2>5. arena \in [Page -> ArenaStruct \cup {NULL}]
    BY <1>1
  <2> QED BY <2>1, <2>2, <2>3, <2>4, <2>5 DEF Sound
<1>5. FreeNow(arena, lent) = [d \in Desc |-> {}]
  <2>1. \A d \in Desc : FreeOf(arena, lent, d) = {}
    BY <1>3 DEF FreeOf, PageFree
  <2> QED BY <2>1 DEF FreeNow
<1> QED BY <1>1, <1>2, <1>4, <1>5, <1>6, HoldsInit DEF HeapInv

(* Every step of the heap keeps the invariant. *)
LEMMA HeapKeeps == ASSUME HeapInv, [HeapNext]_heapVars PROVE HeapInv'
<1>1. ASSUME NEW size \in Size, sysMalloc(size) PROVE HeapInv'
  BY <1>1, TooManySound, RunOutSound, MallocLargeSound, MallocSmallSound DEF sysMalloc
<1>2. ASSUME NEW blk \in lent, sysFree(blk) PROVE HeapInv'
  BY <1>2, FreeLargeSound, FreeSmallSound DEF sysFree
<1>3. CASE UNCHANGED heapVars
  BY <1>3 DEF heapVars, HeapInv, FramesKnown, Kept
<1> QED BY <1>1, <1>2, <1>3 DEF HeapNext

THEOREM HeapInvariant == HeapSpec => []HeapInv
<1>1. HeapInit => HeapInv
  BY HeapStarts
<1>2. HeapInv /\ [HeapNext]_heapVars => HeapInv'
  BY HeapKeeps
<1> QED BY <1>1, <1>2, PTL DEF HeapSpec

(* What the invariant says of the lists, as FreeListsRight says it. *)
LEMMA ListsFromInv == HeapInv => FreeListsRight
<1> SUFFICES ASSUME HeapInv, NEW d \in Desc
             PROVE  /\ ListWellFormed(free, d)
                    /\ \A p \in Page : \A b \in BlocksOf(p, d) :
                         ListExist(free, d, freeNode(b))
                           <=> p \in Small(d) /\ \A blk \in lent : blk.addr # b
  BY DEF FreeListsRight
<1>1. Holds(free, FreeNow(arena, lent))
  BY DEF HeapInv
<1>2. /\ FreeNow(arena, lent) \in FreeSets
      /\ FreeNow(arena, lent)[d] = FreeOf(arena, lent, d)
  BY FreeNowFacts
<1>3. ListWellFormed(free, d)
  BY <1>1, <1>2, HoldsTests
<1>4. \A b \in Blocks : ListExist(free, d, freeNode(b)) <=> b \in FreeOf(arena, lent, d)
  BY <1>1, <1>2, HoldsTests
<1>5. ASSUME NEW p \in Page, NEW b \in BlocksOf(p, d)
      PROVE  ListExist(free, d, freeNode(b))
               <=> p \in Small(d) /\ \A blk \in lent : blk.addr # b
  <2>1. b \in Blocks /\ block2arena(b) = p
    BY <1>5, BlocksOfFacts
  <2>2. b \in FreeOf(arena, lent, d) <=> b \in PageFree(arena[p], InPage(lent, p), p, d)
    BY <1>5, FreeOfFacts
  <2>3. (\A blk \in InPage(lent, p) : blk.addr # b) <=> \A blk \in lent : blk.addr # b
    BY <2>1 DEF InPage
  <2>4. b \in PageFree(arena[p], InPage(lent, p), p, d)
           <=> p \in Small(d) /\ \A blk \in lent : blk.addr # b
    BY <1>5, <2>3 DEF PageFree, Small
  <2> QED BY <1>4, <2>1, <2>2, <2>4
<1> QED BY <1>3, <1>5

(***************************************************************************)
(* The free lists of sysMalloc and sysFree hold exactly the free blocks of *)
(* the arenas, at every moment, for all sizes of memory and of requests.   *)
(***************************************************************************)
THEOREM FreeListsStayRight == HeapSpec => []FreeListsRight
<1>1. HeapInv => FreeListsRight
  BY ListsFromInv
<1> QED BY <1>1, HeapInvariant, PTL

(* What the invariant says of the arenas, as ArenasRight says it. *)
LEMMA ArenasFromInv == HeapInv => ArenasRight
<1> SUFFICES ASSUME HeapInv PROVE ArenasRight
  OBVIOUS
<1>1. panic # "sysFree" /\ FramesKnown /\ Sound(arena, lent, Kept)
  BY DEF HeapInv
<1>2. \A p \in Page : InPage(lent, p) = InUse(p)
  BY DEF InPage, InUse
<1>3. ASSUME NEW p \in Page, arena[p] # NULL
      PROVE  /\ InUse(p) # {}
             /\ arena[p].desc # NULL =>
                  arena[p].cnt = blocksPerArena(arena[p].desc) - Cardinality(InUse(p))
  <2>1. PageSound(arena[p], InUse(p), p)
    BY <1>1, <1>2 DEF Sound
  <2>2. arena[p].large => arena[p].desc = NULL
    BY <1>3, <2>1 DEF PageSound, LargeSound
  <2>3. ~ arena[p].large => SmallSound(arena[p], InUse(p), p)
    BY <1>3, <2>1 DEF PageSound
  <2> QED BY <1>3, <2>1, <2>2, <2>3 DEF PageSound, SmallSound
<1>4. ArenaPages = Kept
  <2>1. Kept = UNION {Span(arena[p], p) : p \in Page}
    BY <1>1 DEF Sound
  <2>2. \A p \in Page : Span(arena[p], p) =
          IF arena[p] = NULL THEN {}
          ELSE PageRun(p, IF arena[p].large THEN arena[p].cnt ELSE 1)
    BY DEF Span, SpanLen, PageRun
  <2> QED BY <2>1, <2>2 DEF ArenaPages
<1>5. /\ ArenaPages \cap lost.marked = {}
      /\ pages.used = ArenaPages \cup lost.marked
      /\ mapped = ArenaPages \cup lost.mapped
  BY <1>1, <1>4 DEF FramesKnown, Kept
<1> QED BY <1>1, <1>3, <1>5 DEF ArenasRight

(***************************************************************************)
(* The free blocks of an arena are counted right, and the ASSERT of        *)
(* sysFree never fails.  The addresses and the frames taken are those of   *)
(* the arenas and those that failed calls of mallocPage left behind, and   *)
(* no other, whatever the moments at which frames run out.                 *)
(***************************************************************************)
THEOREM ArenasStayRight == HeapSpec => []ArenasRight
<1>1. HeapInv => ArenasRight
  BY ArenasFromInv
<1> QED BY <1>1, HeapInvariant, PTL

-----------------------------------------------------------------------------
(* The bytes of a block that is in use. *)
Bytes(blk) == <<blk.addr, blk.addr + blk.size - 1>>
LiveBytes  == {Bytes(blk) : blk \in lent}
MemoryBytes     == PageBytes * VaddrBytes * ByteBits

(* A block in use lies in the memory. *)
LEMMA LentFits ==
  ASSUME NEW A, NEW L, NEW used, Sound(A, L, used), NEW blk \in L
  PROVE  /\ blk.addr \in Nat /\ blk.size \in Nat \ {0} /\ MemoryBytes \in Nat
         /\ blk.addr + blk.size <= MemoryBytes
<1> DEFINE p == block2arena(blk.addr)
<1>1. /\ p \in Page /\ A[p] # NULL /\ blk.addr \in Nat /\ blk.size \in Nat \ {0}
      /\ blk.addr + blk.size <= (p + SpanLen(A[p])) * PageBytes
  BY Extent
<1> HIDE DEF p
<1>2. PICK n \in Nat : n = p + SpanLen(A[p]) /\ n <= PageCount
  BY <1>1, SpanFacts, NullFacts
<1>3. PICK B \in Nat \ {0}, P \in Nat, c \in Nat :
        B = PageBytes /\ P = VaddrBytes /\ c = ByteBits
  BY HeapAssumption, ByteAssumption
<1>4. PICK m \in Nat : m = P * c /\ m = PageCount
  BY <1>3 DEF PageCount
<1>5. MemoryBytes = B * P * c
  BY <1>3 DEF MemoryBytes
<1>6. B * P * c = m * B
  BY <1>3, <1>4
<1>7. n * B <= m * B
  BY <1>2, <1>3, <1>4
<1>8. PICK x \in Int, y \in Nat : x = n * B /\ y = m * B
  BY <1>2, <1>3, <1>4
<1> QED BY <1>1, <1>2, <1>3, <1>5, <1>6, <1>7, <1>8

(* What a request adds, whichever way it is served. *)
LEMMA RequestAdds ==
  ASSUME NEW size \in Size, MallocLarge(size) \/ MallocSmall(size)
  PROVE  \E b : lent' = lent \cup {[addr |-> b, size |-> size]}
  BY DEF MallocLarge, MallocSmall

(* A request that is served is a Malloc of the abstract allocator. *)
LEMMA MallocPromise ==
  ASSUME HeapInv, HeapInv', NEW size \in Size, MallocLarge(size) \/ MallocSmall(size)
  PROVE  \/ LiveBytes' = LiveBytes
         \/ \E first \in 0 .. MemoryBytes - size :
              /\ \A other \in LiveBytes : ~ Promise!Overlap(<<first, first + size - 1>>, other)
              /\ LiveBytes' = LiveBytes \cup {<<first, first + size - 1>>}
<1>1. PICK b : lent' = lent \cup {[addr |-> b, size |-> size]}
  BY RequestAdds
<1> DEFINE blk == [addr |-> b, size |-> size]
<1>2. blk.addr = b /\ blk.size = size /\ blk \in lent'
  BY <1>1
<1>3. lent' = lent \cup {blk}
  BY <1>1
<1> HIDE DEF blk
<1>4. Sound(arena', lent', Kept')
  BY DEF HeapInv
<1>5. b \in Nat /\ size \in Nat \ {0} /\ MemoryBytes \in Nat /\ b + size <= MemoryBytes
  BY <1>2, <1>4, LentFits
<1>6. Bytes(blk) = <<b, b + size - 1>>
  BY <1>2 DEF Bytes
<1>7. LiveBytes' = LiveBytes \cup {<<b, b + size - 1>>}
  BY <1>3, <1>6 DEF LiveBytes
<1>8. CASE blk \in lent
  BY <1>3, <1>8 DEF LiveBytes
<1>9. CASE blk \notin lent
  <2>1. ASSUME NEW c \in lent
        PROVE  ~ Promise!Overlap(<<b, b + size - 1>>, Bytes(c))
    <3>1. c \in lent' /\ c # blk
      BY <1>3, <1>9
    <3>2. c.addr \in Nat /\ c.size \in Nat \ {0}
      BY <1>4, <3>1, LentFits
    <3>3. b + size <= c.addr \/ c.addr + c.size <= b
      BY <1>2, <1>4, <3>1, LentApart
    <3>4. PICK x \in Nat, y \in Nat \ {0} : x = c.addr /\ y = c.size
      BY <3>2
    <3>5. Bytes(c) = <<x, x + y - 1>> /\ (b + size <= x \/ x + y <= b)
      BY <3>3, <3>4 DEF Bytes
    <3> QED BY <1>5, <3>5 DEF Promise!Overlap
  <2>2. \A other \in LiveBytes : ~ Promise!Overlap(<<b, b + size - 1>>, other)
    BY <2>1 DEF LiveBytes
  <2>3. b \in 0 .. MemoryBytes - size
    BY <1>5
  <2> QED BY <1>7, <2>2, <2>3
<1> QED BY <1>8, <1>9

(* Giving a block back takes its bytes from those in use, and no others. *)
LEMMA FreePromise ==
  ASSUME HeapInv, NEW blk \in lent, lent' = lent \ {blk}
  PROVE  Bytes(blk) \in LiveBytes /\ LiveBytes' = LiveBytes \ {Bytes(blk)}
<1>1. Sound(arena, lent, Kept)
  BY DEF HeapInv
<1>2. ASSUME NEW c \in lent, Bytes(c) = Bytes(blk) PROVE c = blk
  <2>1. /\ c.addr \in Nat /\ c.size \in Nat \ {0}
        /\ blk.addr \in Nat /\ blk.size \in Nat \ {0}
    BY <1>1, LentFits
  <2>2. PICK x \in Nat, y \in Nat \ {0}, u \in Nat, v \in Nat \ {0} :
          x = c.addr /\ y = c.size /\ u = blk.addr /\ v = blk.size
    BY <2>1
  <2>3. <<x, x + y - 1>> = <<u, u + v - 1>>
    BY <1>2, <2>2 DEF Bytes
  <2>4. x = u
    BY <2>3
  <2>5. c = blk \/ c.addr + c.size <= blk.addr \/ blk.addr + blk.size <= c.addr
    BY <1>1, LentApart
  <2> QED BY <2>2, <2>4, <2>5
<1>3. \A c \in lent : Bytes(c) = Bytes(blk) <=> c = blk
  BY <1>2
<1>4. LiveBytes' = LiveBytes \ {Bytes(blk)}
  BY <1>3 DEF LiveBytes
<1> QED BY <1>4 DEF LiveBytes

(* The blocks in use as Allocator sees them. *)
LEMMA PromiseLive ==
  /\ {<<blk.addr, blk.addr + blk.size - 1>> : blk \in lent} = LiveBytes
  /\ {<<blk.addr, blk.addr + blk.size - 1>> : blk \in lent'} = LiveBytes'
  BY DEF LiveBytes, Bytes

(* A step of the heap is one of Allocator, or changes nothing there. *)
LEMMA HeapImplements ==
  ASSUME HeapInv, HeapInv', [HeapNext]_heapVars
  PROVE  [Promise!Next]_{<<blk.addr, blk.addr + blk.size - 1>> : blk \in lent}
<1>1. ASSUME NEW size \in Size, sysMalloc(size)
      PROVE  Promise!Next \/ LiveBytes' = LiveBytes
  <2>1. \/ MallocLarge(size) \/ MallocSmall(size)
        \/ LiveBytes' = LiveBytes
    BY <1>1 DEF sysMalloc, TooManyPages, RunOut, LiveBytes
  <2>2. CASE LiveBytes' = LiveBytes
    BY <2>2
  <2>3. ASSUME NEW first \in 0 .. MemoryBytes - size,
               \A other \in LiveBytes : ~ Promise!Overlap(<<first, first + size - 1>>, other),
               LiveBytes' = LiveBytes \cup {<<first, first + size - 1>>}
        PROVE  Promise!Next
    <3>1. Promise!Malloc(size)
      BY <2>3, PromiseLive DEF Promise!Malloc, MemoryBytes
    <3> QED BY <3>1 DEF Promise!Next
  <2> QED BY <2>1, <2>2, <2>3, MallocPromise
<1>2. ASSUME NEW blk \in lent, sysFree(blk) PROVE Promise!Next
  <2>1. lent' = lent \ {blk}
    BY <1>2 DEF sysFree, FreeLarge, FreeSmall
  <2>2. Bytes(blk) \in LiveBytes /\ LiveBytes' = LiveBytes \ {Bytes(blk)}
    BY <2>1, FreePromise
  <2>3. Promise!Free(Bytes(blk))
    BY <2>2, PromiseLive DEF Promise!Free
  <2> QED BY <2>2, <2>3, PromiseLive DEF Promise!Next
<1>3. CASE UNCHANGED heapVars
  BY <1>3 DEF heapVars
<1> QED BY <1>1, <1>2, <1>3, PromiseLive DEF HeapNext

(***************************************************************************)
(* sysMalloc and sysFree implement the allocator: whatever was asked for   *)
(* and given back before, what is handed out lies in the memory and shares *)
(* no byte with anything in use.                                           *)
(***************************************************************************)
THEOREM HeapIsAllocator == HeapSpec => ImplementsAllocator
<1>1. HeapInit => Promise!Init
  BY DEF HeapInit, Promise!Init
<1>2. HeapInv /\ HeapInv' /\ [HeapNext]_heapVars
        => [Promise!Next]_{<<blk.addr, blk.addr + blk.size - 1>> : blk \in lent}
  BY HeapImplements
<1> QED BY <1>1, <1>2, HeapInvariant, PTL DEF HeapSpec, ImplementsAllocator, Promise!Spec
=============================================================================
