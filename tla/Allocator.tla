------------------------------ MODULE Allocator ------------------------------
(***************************************************************************)
(* What sysMalloc and sysFree promise their callers: memory of at least    *)
(* the size asked for that is nobody else's, until it is given back.       *)
(***************************************************************************)
EXTENDS Integers

CONSTANTS MemorySize, Size

VARIABLE live      \* the blocks in use, as sets <<first, last>> of bytes

Overlap(b, c) == b[1] <= c[2] /\ c[1] <= b[2]

Init == live = {}

Malloc(size) ==
  \E first \in 0 .. MemorySize - size :
    LET block == <<first, first + size - 1>>
    IN  /\ \A other \in live : ~ Overlap(block, other)
        /\ live' = live \cup {block}

Free(block) == block \in live /\ live' = live \ {block}

Next == \/ \E size \in Size : Malloc(size)
        \/ \E block \in live : Free(block)

Spec == Init /\ [][Next]_live
=============================================================================
