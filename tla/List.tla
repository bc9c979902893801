-------------------------------- MODULE List --------------------------------
(***************************************************************************)
(* lib/list.c: the intrusive doubly linked list every kernel queue is      *)
(* made of.  A heap is a record of two functions, the next and prev fields *)
(* of every list node.  A list L owns two sentinel nodes, HeadOf(L) and    *)
(* TailOf(L); any other node is the tag embedded in a larger structure.    *)
(*                                                                         *)
(* The operators do what the pointer assignments do, whether or not the    *)
(* node is already linked somewhere else: the code never checks.           *)
(***************************************************************************)
EXTENDS Integers, FiniteSets

CONSTANT NULL       \* the null pointer, different from every node

HeadOf(L) == <<L, "head">>
TailOf(L) == <<L, "tail">>

Sentinels(ids) == {HeadOf(L) : L \in ids} \cup {TailOf(L) : L \in ids}

-----------------------------------------------------------------------------
(* listInit on every list of ids, with all the other tags zeroed. *)
ListInit(ids, tags) ==
  LET Node == tags \cup Sentinels(ids)
  IN  [next |-> [n \in Node |-> IF \E L \in ids : n = HeadOf(L)
                                THEN <<n[1], "tail">> ELSE NULL],
       prev |-> [n \in Node |-> IF \E L \in ids : n = TailOf(L)
                                THEN <<n[1], "head">> ELSE NULL]]

ListEmpty(h, L) == h.next[HeadOf(L)] = TailOf(L)

ListInsert(h, before, node) ==
  LET pred == h.prev[before]
  IN  [next |-> [h.next EXCEPT ![pred] = node, ![node] = before],
       prev |-> [h.prev EXCEPT ![node] = pred, ![before] = node]]

ListPush(h, L, node) == ListInsert(h, h.next[HeadOf(L)], node)

(* Mutant: inserts before the last node instead of after it. *)
ListAppendBeforeLast(h, L, node) ==
  ListInsert(h, IF ListEmpty(h, L) THEN TailOf(L) ELSE h.prev[TailOf(L)], node)

ListAppend(h, L, node) == ListInsert(h, TailOf(L), node)

(* Mutant: the backward link is forgotten. *)
ListRemoveForward(h, node) ==
  [h EXCEPT !.next = [h.next EXCEPT ![h.prev[node]] = h.next[node]]]

ListRemove(h, node) ==
  [next |-> [h.next EXCEPT ![h.prev[node]] = h.next[node]],
   prev |-> [h.prev EXCEPT ![h.next[node]] = h.prev[node]]]

(* listPop returns the first node and unlinks it; callers test for empty. *)
ListFirst(h, L) == h.next[HeadOf(L)]
ListPop(h, L)   == ListRemove(h, ListFirst(h, L))

-----------------------------------------------------------------------------
(***************************************************************************)
(* The traversal loop shared by listExist, listLen and listTraversal: the  *)
(* node it looks at in round i.  It rests at the list's tail; a damaged    *)
(* chain may leave the list, and then it rests at NULL or goes round.      *)
(***************************************************************************)
ListWalk(h, L) ==
  LET step == [node \in DOMAIN h.next \cup {NULL} |->
                 IF node \in {TailOf(L), NULL} THEN node ELSE h.next[node]]
      cur[i \in 0 .. Cardinality(DOMAIN h.next)] ==
        IF i = 0 THEN h.next[HeadOf(L)] ELSE step[cur[i - 1]]
  IN  cur

ListExist(h, L, node) ==
  LET cur == ListWalk(h, L)
  IN  /\ node # TailOf(L)
      /\ \E i \in DOMAIN cur : cur[i] = node

ListLen(h, L) ==
  LET cur == ListWalk(h, L)
  IN  Cardinality({i \in DOMAIN cur : cur[i] # TailOf(L)})

(* The nodes of a list, first to last, as the traversal meets them. *)
ListContents(h, L) ==
  LET cur == ListWalk(h, L) IN [i \in 1 .. ListLen(h, L) |-> cur[i - 1]]

(***************************************************************************)
(* A list is well formed when the traversal reaches its own tail and every *)
(* node it meets is pointed back to by its successor.                      *)
(***************************************************************************)
ListWellFormed(h, L) ==
  LET cur == ListWalk(h, L)
      n   == ListLen(h, L)
  IN  /\ n \in DOMAIN cur /\ cur[n] = TailOf(L)
      /\ h.prev[cur[0]] = HeadOf(L)
      /\ \A i \in 1 .. n : h.prev[cur[i]] = cur[i - 1]
=============================================================================
