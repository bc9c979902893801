---------------------------- MODULE BitmapProofs ----------------------------
(***************************************************************************)
(* bitmapScan is first fit: what its two loops compute, for bitmaps of     *)
(* every size with any bits set and requests of every length.              *)
(*                                                                         *)
(* The loops are recursive functions.  Induction over their arguments uses *)
(* sets where the library's theorems have operators: a set of numbers that *)
(* lacks some number has a least one that it lacks.                        *)
(***************************************************************************)
EXTENDS Bitmap, WellFoundedInduction, TLAPS

(* A set of natural numbers that is not empty has a least element. *)
LEMMA LeastElement ==
  ASSUME NEW S \in SUBSET Nat, S # {}
  PROVE  \E m \in S : \A n \in S : m <= n
<1> DEFINE R == OpToRel(<, Nat)
<1>1. IsWellFoundedOn(R, Nat)
  BY NatLessThanWellFounded
<1>2. PICK m \in S : \A n \in S : <<n, m>> \notin R
  <2> HIDE DEF R
  <2> QED BY <1>1, WFMin
<1>3. \A n \in S : ~ (n < m)
  BY <1>2 DEF OpToRel
<1> QED BY <1>3

(* Induction from n0 on: P is the set of the numbers the claim is true of. *)
LEMMA Induction ==
  ASSUME NEW P, NEW n0 \in Int, n0 \in P,
         \A n \in P : n \in Int /\ n >= n0 => n + 1 \in P
  PROVE  \A n \in Int : n >= n0 => n \in P
<1> SUFFICES ASSUME NEW k \in Int, k >= n0, k \notin P
             PROVE  FALSE
  OBVIOUS
<1> DEFINE Lacks == {i \in Nat : n0 + i \notin P}
<1>1. k - n0 \in Lacks
  BY k = n0 + (k - n0)
<1>2. PICK m \in Lacks : \A n \in Lacks : m <= n
  BY <1>1, LeastElement
<1>3. m # 0
  BY <1>2
<1>4. m - 1 \in Nat /\ n0 + (m - 1) \in P
  BY <1>2, <1>3
<1>5. n0 + (m - 1) + 1 \in P
  BY <1>4
<1> QED BY <1>5, <1>2, n0 + (m - 1) + 1 = n0 + m

(* Min of a set of integers that are at least n0 is its least element. *)
LEMMA MinFacts ==
  ASSUME NEW S \in SUBSET Int, S # {}, NEW n0 \in Int, \A i \in S : i >= n0
  PROVE  Min(S) \in S /\ \A i \in S : Min(S) <= i
<1> DEFINE Shifted == {i \in Nat : n0 + i \in S}
<1>1. PICK k \in S : TRUE
  OBVIOUS
<1>2. k - n0 \in Shifted
  BY k = n0 + (k - n0)
<1>3. PICK m \in Shifted : \A n \in Shifted : m <= n
  BY <1>2, LeastElement
<1>4. \A i \in S : n0 + m <= i
  <2> SUFFICES ASSUME NEW i \in S PROVE n0 + m <= i
    OBVIOUS
  <2>1. i - n0 \in Shifted
    BY i = n0 + (i - n0)
  <2> QED BY <2>1, <1>3
<1>5. \E x \in S : \A y \in S : x =< y
  BY <1>3, <1>4
<1> QED BY <1>5 DEF Min

(* An integer with the two properties of Min is Min. *)
LEMMA MinUnique ==
  ASSUME NEW S \in SUBSET Int, NEW m \in S, \A i \in S : m <= i
  PROVE  Min(S) = m
<1> DEFINE k == Min(S)
<1>1. k \in S /\ \A i \in S : k <= i
  BY MinFacts
<1> HIDE DEF k
<1>2. k = m
  BY <1>1
<1> QED BY <1>2 DEF k

-----------------------------------------------------------------------------
(***************************************************************************)
(* The first loop of bitmapScan stops at the end or at the first byte that *)
(* is not full.                                                            *)
(***************************************************************************)
Stops(b) == {idx \in 0 .. b.size : idx = b.size \/ ~ ByteFull(b, idx)}

(* The first loop of bitmapScan ends at the least byte that is not 0xff,   *)
(* or behind the last one; all bytes before it are full.                   *)
LEMMA FirstByteFacts ==
  ASSUME NEW b, b.size \in Nat
  PROVE  /\ FirstByte(b) \in 0 .. b.size
         /\ \A idx \in 0 .. FirstByte(b) - 1 : ByteFull(b, idx)
<1> DEFINE N == b.size
           Full(i) == ByteFull(b, i)
           From(i) == {j \in i .. N : j = N \/ ~ Full(j)}
           mu(i) == Min(From(i))
           g == [idx \in 0 .. N |-> mu(idx)]
           Eq(f) == f = [idx \in 0 .. N |->
                           IF idx < N /\ Full(idx) THEN f[idx + 1] ELSE idx]
           skip == CHOOSE f : Eq(f)
<1> HIDE DEF Full
<1>1. \A i \in 0 .. N : mu(i) \in From(i) /\ \A j \in From(i) : mu(i) <= j
  <2> SUFFICES ASSUME NEW i \in 0 .. N
               PROVE  mu(i) \in From(i) /\ \A j \in From(i) : mu(i) <= j
    OBVIOUS
  <2>1. N \in From(i) /\ From(i) \in SUBSET Int /\ \A j \in From(i) : j >= 0
    OBVIOUS
  <2> HIDE DEF From
  <2> QED BY <2>1, MinFacts
<1>2. \A i \in 0 .. N - 1 : Full(i) => mu(i) = mu(i + 1)
  <2> SUFFICES ASSUME NEW i \in 0 .. N - 1, Full(i)
               PROVE  mu(i) = mu(i + 1)
    OBVIOUS
  <2>1. From(i) = From(i + 1)
    OBVIOUS
  <2> HIDE DEF From
  <2> QED BY <2>1
<1>3. \A i \in 0 .. N : (i < N => ~ Full(i)) => mu(i) = i
  <2> SUFFICES ASSUME NEW i \in 0 .. N, i < N => ~ Full(i)
               PROVE  mu(i) = i
    OBVIOUS
  <2>1. i \in From(i)
    OBVIOUS
  <2>2. mu(i) \in From(i) /\ mu(i) <= i
    <3> HIDE DEF From, mu
    <3> QED BY <2>1, <1>1
  <2>3. mu(i) \in Int /\ mu(i) >= i
    <3> HIDE DEF mu
    <3> QED BY <2>2
  <2> HIDE DEF mu
  <2> QED BY <2>2, <2>3
<1> HIDE DEF mu
<1>4. Eq(g)
  <2> SUFFICES ASSUME NEW i \in 0 .. N
               PROVE  g[i] = IF i < N /\ Full(i) THEN g[i + 1] ELSE i
    OBVIOUS
  <2> QED BY <1>2, <1>3
<1>5. Eq(skip)
  <2> HIDE DEF Eq
  <2> QED BY <1>4
<1>6. FirstByte(b) = skip[0]
  BY DEF FirstByte, Full
<1> DEFINE m == mu(0)
<1>7. m \in From(0) /\ \A j \in From(0) : m <= j
  BY <1>1
<1> HIDE DEF m, skip
<1>8. \A i \in 0 .. m - 1 : i < N /\ Full(i)
  BY <1>7
<1> DEFINE P == {n \in Nat : n <= m => skip[m - n] = m}
<1>9. 0 \in P
  BY <1>5, <1>7
<1>10. \A n \in P : n + 1 \in P
  <2> SUFFICES ASSUME NEW n \in P, n + 1 <= m
               PROVE  skip[m - (n + 1)] = m
    OBVIOUS
  <2>1. n \in Nat /\ skip[m - n] = m
    BY <1>7
  <2>2. m - (n + 1) \in 0 .. m - 1 /\ m - (n + 1) + 1 = m - n /\ m - (n + 1) \in 0 .. N
    BY <1>7, <2>1
  <2>3. skip[m - (n + 1)] = skip[m - (n + 1) + 1]
    BY <2>2, <1>5, <1>8
  <2> QED BY <2>3, <2>2, <2>1
<1>11. m \in P
  <2> HIDE DEF P
  <2> QED BY <1>7, <1>9, <1>10, Induction
<1>12. skip[0] = m
  BY <1>11, <1>7
<1> QED BY <1>6, <1>12, <1>7, <1>8 DEF Full

(***************************************************************************)
(* The second loop has counted, when it is at idx, the zeros since the     *)
(* last one at or after the bit where it began.                            *)
(***************************************************************************)
CurCnt(b, first, last) ==
  LET curCnt[idx \in first - 1 .. last] ==
        IF idx < first \/ bitmapTest(b, idx) THEN 0 ELSE curCnt[idx - 1] + 1
  IN  curCnt

(* The second loop of bitmapScan: its counter is the length of the         *)
(* stretch of zeros that ends at the bit it is at.                         *)
LEMMA CurCntFacts ==
  ASSUME NEW b, NEW first \in Int, NEW last \in Int,
         NEW idx \in first .. last
  PROVE  LET c == CurCnt(b, first, last)[idx]
         IN  /\ c \in 0 .. idx - first + 1
             /\ \A i \in idx - c + 1 .. idx : i \notin b.used
             /\ idx - c >= first => idx - c \in b.used
<1> DEFINE Used(i) == i \in b.used
           Zero(i) == {c \in 0 .. i - first + 1 : c = i - first + 1 \/ Used(i - c)}
           mu(i) == Min(Zero(i))
           dom == first - 1 .. last
           g == [i \in dom |-> mu(i)]
           Eq(f) == f = [i \in dom |-> IF i < first \/ Used(i) THEN 0 ELSE f[i - 1] + 1]
           cur == CHOOSE f : Eq(f)
<1> HIDE DEF Used
<1>1. \A i \in dom : mu(i) \in Zero(i) /\ \A c \in Zero(i) : mu(i) <= c
  <2> SUFFICES ASSUME NEW i \in dom
               PROVE  mu(i) \in Zero(i) /\ \A c \in Zero(i) : mu(i) <= c
    OBVIOUS
  <2>1. i - first + 1 \in Zero(i) /\ Zero(i) \in SUBSET Int /\ \A c \in Zero(i) : c >= 0
    OBVIOUS
  <2> DEFINE Z == Zero(i)
  <2>2. Z \in SUBSET Int /\ Z # {} /\ \A c \in Z : c >= 0
    BY <2>1
  <2> HIDE DEF Z
  <2>3. Min(Z) \in Z /\ \A c \in Z : Min(Z) <= c
    BY <2>2, MinFacts
  <2> QED BY <2>3 DEF Z
<1> HIDE DEF mu
<1>2. \A i \in dom : i < first \/ Used(i) => mu(i) = 0
  <2> SUFFICES ASSUME NEW i \in dom, i < first \/ Used(i)
               PROVE  mu(i) = 0
    OBVIOUS
  <2>1. 0 \in Zero(i)
    BY i - 0 = i
  <2> QED BY <2>1, <1>1
<1>3. \A i \in dom : ~ (i < first \/ Used(i)) => mu(i) = mu(i - 1) + 1
  <2> SUFFICES ASSUME NEW i \in dom, i >= first, ~ Used(i)
               PROVE  mu(i) = mu(i - 1) + 1
    OBVIOUS
  <2>1. i - 1 \in dom
    OBVIOUS
  <2>2. mu(i) \in Zero(i) /\ mu(i - 1) \in Zero(i - 1)
    BY <2>1, <1>1
  <2>3. mu(i) # 0
    BY <2>2, i - 0 = i
  <2>4. mu(i) - 1 \in Zero(i - 1)
    BY <2>2, <2>3, (i - 1) - (mu(i) - 1) = i - mu(i)
  <2>5. mu(i - 1) + 1 \in Zero(i)
    BY <2>2, i - (mu(i - 1) + 1) = (i - 1) - mu(i - 1)
  <2>6. mu(i - 1) <= mu(i) - 1 /\ mu(i) <= mu(i - 1) + 1
    BY <2>1, <2>4, <2>5, <1>1
  <2> QED BY <2>2, <2>6
<1>4. Eq(g)
  <2> SUFFICES ASSUME NEW i \in dom
               PROVE  g[i] = IF i < first \/ Used(i) THEN 0 ELSE g[i - 1] + 1
    OBVIOUS
  <2>1. i < first \/ i - 1 \in dom
    OBVIOUS
  <2> QED BY <2>1, <1>2, <1>3
<1>5. Eq(cur)
  <2> HIDE DEF Eq
  <2> QED BY <1>4
<1>6. CurCnt(b, first, last) = cur
  BY DEF CurCnt, Used, bitmapTest
<1> HIDE DEF cur
<1> DEFINE P == {n \in dom : cur[n] = mu(n)} \cup {n \in Int : n > last}
<1>7. first - 1 \in P
  BY <1>2, <1>5
<1>8. \A n \in P : n \in Int /\ n >= first - 1 => n + 1 \in P
  <2> SUFFICES ASSUME NEW n \in P, n \in dom, n + 1 \in dom, cur[n] = mu(n)
               PROVE  cur[n + 1] = mu(n + 1)
    OBVIOUS
  <2>1. ~ (n + 1 < first) /\ (n + 1) - 1 = n
    OBVIOUS
  <2>2. cur[n + 1] = IF Used(n + 1) THEN 0 ELSE cur[n] + 1
    BY <1>5, <2>1
  <2> QED BY <2>1, <2>2, <1>2, <1>3
<1>9. idx \in P
  <2> HIDE DEF P
  <2> QED BY <1>7, <1>8, Induction
<1>10. cur[idx] = mu(idx)
  BY <1>9
<1> DEFINE c == mu(idx)
<1>11. c \in Zero(idx) /\ \A d \in Zero(idx) : c <= d
  BY <1>1
<1> HIDE DEF c
<1>12. \A i \in idx - c + 1 .. idx : ~ Used(i)
  <2> SUFFICES ASSUME NEW i \in idx - c + 1 .. idx, Used(i)
               PROVE  FALSE
    OBVIOUS
  <2>1. idx - i \in Zero(idx)
    BY <1>11, idx - (idx - i) = i
  <2> QED BY <2>1, <1>11
<1>13. c \in 0 .. idx - first + 1 /\ (idx - c >= first => Used(idx - c))
  BY <1>11
<1> QED BY <1>6, <1>10, <1>12, <1>13 DEF c, Used

(***************************************************************************)
(* bitmapScan finds the lowest run of cnt zeros, across byte boundaries,   *)
(* and says -1 only if there is none: the run ends where the second loop   *)
(* first counts to cnt, and starts in no byte that the first loop skips.   *)
(***************************************************************************)
THEOREM ScanFirstFit ==
  ASSUME NEW b, b.size \in Nat, NEW cnt \in Nat \ {0}
  PROVE  bitmapScan(b, cnt) = IF Runs(b, cnt) = {} THEN -1 ELSE Min(Runs(b, cnt))
<1> DEFINE byte  == FirstByte(b)
           first == byte * ByteBits
           last  == b.size * ByteBits - 1
           Cnt   == CurCnt(b, first, last)
           hits  == {idx \in first .. last : Cnt[idx] = cnt}
           R     == Runs(b, cnt)
<1>1. bitmapScan(b, cnt) = IF hits = {} THEN -1 ELSE Min(hits) + 1 - cnt
  BY DEF bitmapScan, CurCnt
<1>2. byte \in 0 .. b.size /\ \A i \in 0 .. byte - 1 : ByteFull(b, i)
  BY FirstByteFacts
<1>3. first \in Nat /\ last \in Int /\ first <= last + 1 /\ ByteBits \in Nat \ {0}
  BY <1>2, ByteAssumption
<1>4. \A i \in 0 .. first - 1 : i \in b.used
  <2> SUFFICES ASSUME NEW i \in 0 .. first - 1
               PROVE  i \in b.used
    OBVIOUS
  <2> DEFINE q == i \div ByteBits
             r == i % ByteBits
  <2>1. q \in Nat /\ r \in 0 .. ByteBits - 1 /\ i = q * ByteBits + r
    BY <1>3
  <2> HIDE DEF q, r
  <2>2. q < byte
    BY <2>1, <1>2, <1>3
  <2>3. ByteFull(b, q)
    BY <2>1, <2>2, <1>2
  <2> QED BY <2>1, <2>3 DEF ByteFull, bitmapTest
<1>5. R = {i \in 0 .. last : \A j \in i .. i + cnt - 1 : j \in 0 .. last /\ j \notin b.used}
  BY DEF Runs, Positions
<1>6. \A idx \in first .. last :
        /\ Cnt[idx] \in 0 .. idx - first + 1
        /\ \A i \in idx - Cnt[idx] + 1 .. idx : i \notin b.used
        /\ idx - Cnt[idx] >= first => idx - Cnt[idx] \in b.used
  BY <1>3, CurCntFacts
<1> HIDE DEF R, Cnt, last, first, byte
<1>7. \A idx \in hits : idx + 1 - cnt \in R
  <2> SUFFICES ASSUME NEW idx \in hits
               PROVE  idx + 1 - cnt \in R
    OBVIOUS
  <2> QED BY <1>3, <1>5, <1>6
<1>8. ASSUME NEW s \in R, \A i \in R : s <= i
      PROVE  s + cnt - 1 \in hits
  <2> DEFINE idx == s + cnt - 1
             c == Cnt[idx]
  <2>1. s \in first .. last /\ idx \in first .. last
    BY <1>3, <1>4, <1>5, <1>8
  <2>2. c >= cnt
    BY <2>1, <1>3, <1>5, <1>6
  <2>3. ASSUME c > cnt PROVE FALSE
    <3>1. s - 1 >= first /\ s - 1 \notin b.used
      BY <2>1, <2>3, <1>3, <1>6
    <3>2. s - 1 \in R
      BY <3>1, <2>1, <1>3, <1>5
    <3> QED BY <3>2, <1>8, <1>5
  <2>4. c \in Int
    BY <2>1, <1>3, <1>6
  <2> QED BY <2>1, <2>2, <2>3, <2>4
<1>9. CASE R = {}
  <2>1. hits = {}
    BY <1>7, <1>9
  <2> QED BY <1>1, <1>9, <2>1 DEF R
<1>10. CASE R # {}
  <2> DEFINE s == Min(R)
  <2>1. R \in SUBSET Int /\ \A i \in R : i >= 0
    BY <1>3, <1>5
  <2>2. s \in R /\ \A i \in R : s <= i
    BY <2>1, <1>10, MinFacts
  <2> HIDE DEF s
  <2>3. s + cnt - 1 \in hits
    BY <2>2, <1>8
  <2>4. \A idx \in hits : s + cnt - 1 <= idx
    BY <2>1, <2>2, <1>7, <1>3
  <2>5. hits \in SUBSET Int
    BY <1>3
  <2> HIDE DEF hits
  <2>6. Min(hits) = s + cnt - 1
    BY <2>3, <2>4, <2>5, MinUnique
  <2>7. bitmapScan(b, cnt) = s
    BY <1>1, <2>3, <2>6, <2>1, <2>2
  <2> QED BY <2>7, <1>10 DEF s, R
<1> QED BY <1>9, <1>10

(* What bitmapScan finds lies in the bitmap and is free. *)
LEMMA ScanFree ==
  ASSUME NEW b, b.size \in Nat, NEW cnt \in Nat \ {0}, bitmapScan(b, cnt) # -1
  PROVE  /\ bitmapScan(b, cnt) \in Positions(b)
         /\ \A i \in bitmapScan(b, cnt) .. bitmapScan(b, cnt) + cnt - 1 :
              i \in Positions(b) /\ i \notin b.used
<1> DEFINE R == Runs(b, cnt)
           s == bitmapScan(b, cnt)
<1>1. R # {} /\ s = Min(R)
  BY ScanFirstFit
<1>2. R \in SUBSET Int /\ \A i \in R : i >= 0
  BY ByteAssumption DEF Runs, Positions
<1>3. s \in R
  <2> HIDE DEF R, s
  <2> QED BY <1>1, <1>2, MinFacts
<1> QED BY <1>3 DEF Runs

BitmapType == [size : Nat, used : SUBSET Int]

(* bitmapSet of one bit. *)
LEMMA SetBits ==
  ASSUME NEW b \in BitmapType, NEW idx \in Int
  PROVE  /\ bitmapSet(b, idx, 1) = [size |-> b.size, used |-> b.used \cup {idx}]
         /\ bitmapSet(b, idx, 0) = [size |-> b.size, used |-> b.used \ {idx}]
  BY DEF BitmapType, bitmapSet

(* The loops of memory.c that set or clear a run of bits. *)
LEMMA SetRunBits ==
  ASSUME NEW b \in BitmapType, NEW idx \in Int, NEW cnt \in Int
  PROVE  /\ bitmapSetRun(b, idx, cnt, 1)
              = [size |-> b.size, used |-> b.used \cup (idx .. idx + cnt - 1)]
         /\ bitmapSetRun(b, idx, cnt, 0)
              = [size |-> b.size, used |-> b.used \ (idx .. idx + cnt - 1)]
<1> DEFINE run == idx .. idx + cnt - 1
<1>1. /\ bitmapSetRun(b, idx, cnt, 1) = [b EXCEPT !.used = @ \cup run]
      /\ bitmapSetRun(b, idx, cnt, 0) = [b EXCEPT !.used = @ \ run]
  BY DEF bitmapSetRun
<1> HIDE DEF run
<1>2. /\ [b EXCEPT !.used = @ \cup run] = [size |-> b.size, used |-> b.used \cup run]
      /\ [b EXCEPT !.used = @ \ run] = [size |-> b.size, used |-> b.used \ run]
  BY DEF BitmapType
<1> QED BY <1>1, <1>2 DEF run
=============================================================================
