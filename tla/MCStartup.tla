------------------------------ MODULE MCStartup ------------------------------
(* Memory sizes from 2 MB to 1 GB, in odd steps of a little under 1 MB, and *)
(* those that leave the kernel up to 64 pages; with 56, as from 2496 KB on, *)
(* four are left for the threads.                                          *)
EXTENDS Startup

MCCapacity == {2048 + 1013 * n : n \in 0 .. 1030}
                \cup {2048 + 64 * n : n \in 0 .. 8}
=============================================================================
