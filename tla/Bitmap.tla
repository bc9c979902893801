------------------------------- MODULE Bitmap -------------------------------
(***************************************************************************)
(* kernel/bitmap.c.  A bitmap has a size in bytes and the set of positions *)
(* whose bit is 1; a byte has ByteBits bits.                               *)
(***************************************************************************)
EXTENDS Integers, FiniteSets, FiniteSetsExt

CONSTANT ByteBits     \* 8 in the code

ASSUME ByteAssumption == ByteBits \in Nat \ {0}

Positions(b) == 0 .. b.size * ByteBits - 1

bitmapInit(bytes)  == [size |-> bytes, used |-> {}]
bitmapTest(b, idx) == idx \in b.used

bitmapSet(b, idx, val) ==
  [b EXCEPT !.used = IF val = 1 THEN @ \cup {idx} ELSE @ \ {idx}]

(* Mutant: the last bit of a run is forgotten. *)
bitmapSetRunShort(b, idx, cnt, val) ==
  LET run == idx .. idx + cnt - 2
  IN  [b EXCEPT !.used = IF val = 1 THEN @ \cup run ELSE @ \ run]

(* The loops of memory.c that set or clear cnt bits from idx on. *)
bitmapSetRun(b, idx, cnt, val) ==
  LET run == idx .. idx + cnt - 1
  IN  [b EXCEPT !.used = IF val = 1 THEN @ \cup run ELSE @ \ run]

-----------------------------------------------------------------------------
ByteFull(b, byte) ==
  \A bit \in 0 .. ByteBits - 1 : bitmapTest(b, byte * ByteBits + bit)

(* Mutant: a byte is skipped if any of its bits is 1. *)
FirstByteFree(b) ==
  LET free == {idx \in 0 .. b.size - 1 :
                 \A bit \in 0 .. ByteBits - 1 : ~ bitmapTest(b, idx * ByteBits + bit)}
  IN  IF free = {} THEN b.size ELSE Min(free)

(* The first loop of bitmapScan: skip the bytes that are 0xff. *)
FirstByte(b) ==
  LET skip[idx \in 0 .. b.size] ==
        IF idx < b.size /\ ByteFull(b, idx) THEN skip[idx + 1] ELSE idx
  IN  skip[0]

(***************************************************************************)
(* The second loop counts zeros from there on, starting over at every one, *)
(* and stops where it has counted cnt of them.                             *)
(***************************************************************************)
bitmapScan(b, cnt) ==
  LET first == FirstByte(b) * ByteBits
      last  == b.size * ByteBits - 1
      curCnt[idx \in first - 1 .. last] ==
        IF idx < first \/ bitmapTest(b, idx) THEN 0 ELSE curCnt[idx - 1] + 1
      hits == {idx \in first .. last : curCnt[idx] = cnt}
  IN  IF hits = {} THEN -1 ELSE Min(hits) + 1 - cnt

-----------------------------------------------------------------------------
(* Reference: where a run of cnt zeros begins. *)
Runs(b, cnt) == {idx \in Positions(b) :
                   idx .. idx + cnt - 1 \subseteq Positions(b) \ b.used}
=============================================================================
