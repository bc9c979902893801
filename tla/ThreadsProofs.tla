---------------------------- MODULE ThreadsProofs ----------------------------
(***************************************************************************)
(* Lemmas about the lists of lib/list.c and the steps of Threads that use  *)
(* them: as long as every thread is on one list at most, the pointers are  *)
(* those of sequences, and listAppend, listPush and listRemove do to the   *)
(* sequences what their names say.                                         *)
(***************************************************************************)
EXTENDS Threads, SequenceTheorems, FiniteSetTheorems, WellFoundedInduction, TLAPS

(* Every set of naturals has a least element. *)
LEMMA LeastElement ==
  ASSUME NEW S \in SUBSET Nat, S # {}
  PROVE  \E m \in S : \A n \in S : m <= n
<1> DEFINE R == OpToRel(<, Nat)
<1>1. IsWellFoundedOn(R, Nat)
  BY NatLessThanWellFounded
<1>2. PICK m \in S : \A n \in S : <<n, m>> \notin R
  <2> HIDE DEF R
  <2> QED BY <1>1, WFMin
<1>3. \A n \in S : ~ (n < m)
  BY <1>2 DEF OpToRel
<1> QED BY <1>3

(* Threads, the two sentinels of each list and NULL are all different. *)
LEMMA NodeFacts ==
  /\ \A t \in Thread : t \in Node /\ t # NULL
  /\ \A L \in ListId : /\ HeadOf(L) \in Node \ Thread /\ TailOf(L) \in Node \ Thread
                       /\ HeadOf(L) # NULL /\ TailOf(L) # NULL
  /\ \A L, M \in ListId : /\ HeadOf(L) # TailOf(M)
                          /\ HeadOf(L) = HeadOf(M) => L = M
                          /\ TailOf(L) = TailOf(M) => L = M
  /\ threadReadyList \in ListId
<1>1. \A L \in ListId : HeadOf(L) \in Sentinels(ListId) /\ TailOf(L) \in Sentinels(ListId)
  BY DEF Sentinels
<1>2. Sentinels(ListId) \cap (Thread \cup {NULL}) = {}
  BY ThreadAssumption DEF ListId
<1>3. \A L, M \in ListId : /\ HeadOf(L) # TailOf(M)
                           /\ HeadOf(L) = HeadOf(M) => L = M
                           /\ TailOf(L) = TailOf(M) => L = M
  BY DEF HeadOf, TailOf
<1> QED BY <1>1, <1>2, <1>3, ThreadAssumption DEF Node, ListId

(* The memory holds finitely many nodes. *)
LEMMA NodeFinite ==
  /\ IsFiniteSet(Node) /\ Cardinality(Node) \in Nat
  /\ Cardinality(Thread) \in Nat /\ Cardinality(Thread) < Cardinality(Node)
<1>1. IsFiniteSet(ListId)
  BY ThreadAssumption, FS_Singleton, FS_Union DEF ListId
<1>2. IsFiniteSet({HeadOf(L) : L \in ListId}) /\ IsFiniteSet({TailOf(L) : L \in ListId})
  <2> DEFINE heads == {HeadOf(L) : L \in ListId}
             tails == {TailOf(L) : L \in ListId}
  <2>1. /\ [L \in ListId |-> HeadOf(L)] \in Surjection(ListId, heads)
        /\ [L \in ListId |-> TailOf(L)] \in Surjection(ListId, tails)
    BY DEF Surjection
  <2> QED BY <1>1, <2>1, FS_Surjection
<1>3. IsFiniteSet(Node)
  BY <1>2, FS_Union, ThreadAssumption DEF Node, Sentinels
<1>4. Thread \subseteq Node /\ Thread # Node
  BY NodeFacts DEF Node
<1> QED BY <1>3, <1>4, FS_Subset, FS_CardinalityType, ThreadAssumption

-----------------------------------------------------------------------------
(***************************************************************************)
(* The list L of heap h is the sequence q of threads.  Nth counts the      *)
(* nodes of the list, sentinels included.                                  *)
(***************************************************************************)
Nth(L, q, i) == IF i = 0 THEN HeadOf(L) ELSE IF i = Len(q) + 1 THEN TailOf(L) ELSE q[i]

IsList(h, L, q) ==
  /\ q \in Seq(Thread)
  /\ \A i, j \in 1 .. Len(q) : q[i] = q[j] => i = j
  /\ \A i \in 0 .. Len(q) : /\ h.next[Nth(L, q, i)] = Nth(L, q, i + 1)
                            /\ h.prev[Nth(L, q, i + 1)] = Nth(L, q, i)

(* A thread is a node of a list once at most, and a sentinel never. *)
LEMMA NthFacts ==
  ASSUME NEW h, NEW L \in ListId, NEW q, IsList(h, L, q)
  PROVE  /\ Len(q) \in Nat
         /\ \A i \in 1 .. Len(q) : q[i] \in Thread /\ Nth(L, q, i) = q[i]
         /\ Nth(L, q, 0) = HeadOf(L) /\ Nth(L, q, Len(q) + 1) = TailOf(L)
         /\ \A i \in 0 .. Len(q) + 1 : Nth(L, q, i) \in Node
         /\ \A i, j \in 0 .. Len(q) + 1 : Nth(L, q, i) = Nth(L, q, j) => i = j
<1>1. Len(q) \in Nat /\ \A i \in 1 .. Len(q) : q[i] \in Thread
  BY DEF IsList
<1>2. \A i \in 1 .. Len(q) : Nth(L, q, i) = q[i]
  BY <1>1 DEF Nth
<1>3. Nth(L, q, 0) = HeadOf(L) /\ Nth(L, q, Len(q) + 1) = TailOf(L)
  BY <1>1 DEF Nth
<1>4. \A i \in 0 .. Len(q) + 1 : i = 0 \/ i = Len(q) + 1 \/ i \in 1 .. Len(q)
  BY <1>1
<1>5. \A i \in 0 .. Len(q) + 1 : Nth(L, q, i) \in Node
  BY <1>1, <1>2, <1>3, <1>4, NodeFacts
<1>6. \A i, j \in 0 .. Len(q) + 1 : Nth(L, q, i) = Nth(L, q, j) => i = j
  BY <1>1, <1>2, <1>3, <1>4, NodeFacts DEF IsList
<1> QED BY <1>1, <1>2, <1>3, <1>5, <1>6

(* No list is longer than there are threads. *)
LEMMA LenBound ==
  ASSUME NEW h, NEW L \in ListId, NEW q, IsList(h, L, q)
  PROVE  Len(q) <= Cardinality(Thread)
<1>1. Len(q) \in Nat /\ q \in [1 .. Len(q) -> Thread]
  BY DEF IsList
<1>2. q \in Injection(1 .. Len(q), Thread)
  BY <1>1 DEF IsList, Injection, IsInjective
<1>3. Cardinality(1 .. Len(q)) <= Cardinality(Thread)
  BY <1>2, ThreadAssumption, FS_Injection
<1>4. Cardinality(1 .. Len(q)) = Len(q)
  BY <1>1, FS_Interval
<1> QED BY <1>3, <1>4

(* The traversal meets the threads of q in order and rests at the tail. *)
LEMMA WalkOfList ==
  ASSUME NEW h, HeapOK(h), NEW L \in ListId, NEW q, IsList(h, L, q)
  PROVE  /\ Len(q) < Cardinality(Node)
         /\ ListWalk(h, L) = [i \in 0 .. Cardinality(Node) |->
                                IF i < Len(q) THEN q[i + 1] ELSE TailOf(L)]
<1> DEFINE N == Cardinality(Node)
           step == [node \in Node \cup {NULL} |->
                      IF node \in {TailOf(L), NULL} THEN node ELSE h.next[node]]
           walk == [i \in 0 .. N |-> IF i < Len(q) THEN q[i + 1] ELSE TailOf(L)]
           IsWalk(w) == w = [i \in 0 .. N |-> IF i = 0 THEN h.next[HeadOf(L)]
                                              ELSE step[w[i - 1]]]
<1>1. /\ \A i \in 1 .. Len(q) : q[i] \in Thread /\ Nth(L, q, i) = q[i]
      /\ \A i \in 0 .. Len(q) : h.next[Nth(L, q, i)] = Nth(L, q, i + 1)
  <2>1. \A i \in 1 .. Len(q) : q[i] \in Thread /\ Nth(L, q, i) = q[i]
    BY NthFacts
  <2>2. \A i \in 0 .. Len(q) : h.next[Nth(L, q, i)] = Nth(L, q, i + 1)
    BY DEF IsList
  <2> QED BY <2>1, <2>2
<1>2. Len(q) \in Nat /\ N \in Nat /\ Len(q) < N
  BY LenBound, NodeFinite, NthFacts
<1> HIDE DEF N
<1>3. h.next[HeadOf(L)] = walk[0]
  BY <1>2, NthFacts DEF IsList, Nth
<1>4. \A i \in 1 .. N : step[walk[i - 1]] = walk[i]
  <2> SUFFICES ASSUME NEW i \in 1 .. N PROVE step[walk[i - 1]] = walk[i]
    OBVIOUS
  <2>1. CASE i - 1 < Len(q)
    <3>1. i \in 1 .. Len(q) /\ walk[i - 1] = q[i] /\ q[i] \in Thread
      BY <1>1, <1>2, <2>1
    <3>2. step[q[i]] = h.next[q[i]]
      BY <3>1, NodeFacts
    <3>3. h.next[q[i]] = Nth(L, q, i + 1)
      BY <3>1, <1>1, <1>2
    <3>4. Nth(L, q, i + 1) = walk[i]
      BY <3>1, <1>2 DEF Nth
    <3> QED BY <3>1, <3>2, <3>3, <3>4
  <2>2. CASE ~ (i - 1 < Len(q))
    BY <1>2, <2>2, NodeFacts
  <2> QED BY <2>1, <2>2
<1>5. IsWalk(walk)
  <2> HIDE DEF step
  <2> DEFINE next == [i \in 0 .. N |-> IF i = 0 THEN h.next[HeadOf(L)]
                                        ELSE step[walk[i - 1]]]
  <2>1. \A i \in 0 .. N : next[i] = walk[i]
    <3> SUFFICES ASSUME NEW i \in 0 .. N PROVE next[i] = walk[i]
      OBVIOUS
    <3>1. CASE i = 0
      BY <1>2, <1>3, <3>1
    <3>2. CASE i # 0
      <4>1. i \in 1 .. N
        BY <1>2, <3>2
      <4>2. step[walk[i - 1]] = walk[i]
        BY <1>4, <4>1
      <4> QED BY <4>2, <3>2
    <3> QED BY <3>1, <3>2
  <2> QED BY <2>1
<1>6. ASSUME NEW w, IsWalk(w) PROVE w = walk
  <2> HIDE DEF step
  <2> DEFINE Wrong == {i \in Nat : i <= N /\ w[i] # walk[i]}
  <2>1. Wrong = {}
    <3> SUFFICES ASSUME Wrong # {} PROVE FALSE
      OBVIOUS
    <3>1. PICK m \in Wrong : \A i \in Wrong : m <= i
      BY LeastElement
    <3>2. m # 0 /\ m \in 1 .. N /\ w[m] = step[w[m - 1]]
      BY <1>2, <1>3, <1>6, <3>1
    <3>3. m - 1 \in Nat /\ m - 1 <= N /\ ~ (m <= m - 1)
      BY <1>2, <3>2
    <3>4. w[m - 1] = walk[m - 1]
      BY <3>1, <3>3
    <3> QED BY <1>4, <3>1, <3>2, <3>4
  <2>2. ASSUME NEW i \in 0 .. N PROVE w[i] = walk[i]
    <3>1. i \in Nat /\ i <= N
      BY <1>2
    <3> QED BY <2>1, <3>1
  <2>3. DOMAIN w = 0 .. N /\ w = [i \in 0 .. N |-> w[i]]
    BY <1>6
  <2> HIDE DEF walk, IsWalk
  <2>4. walk = [i \in 0 .. N |-> walk[i]]
    BY DEF walk
  <2> QED BY <2>2, <2>3, <2>4
<1>7. ListWalk(h, L) = CHOOSE w : IsWalk(w)
  <2>1. DOMAIN h.next = Node
    BY DEF HeapOK
  <2> QED BY <2>1 DEF ListWalk, N
<1>8. IsWalk(CHOOSE w : IsWalk(w))
  <2> HIDE DEF IsWalk
  <2> QED BY <1>5
<1> QED
  <2> HIDE DEF IsWalk
  <2>1. ListWalk(h, L) = walk
    BY <1>6, <1>7, <1>8
  <2> QED BY <1>2, <2>1 DEF N

Members(q) == {q[i] : i \in 1 .. Len(q)}

(* The members of a list are threads. *)
LEMMA MembersType ==
  ASSUME NEW h, NEW L \in ListId, NEW q, IsList(h, L, q)
  PROVE  Members(q) \subseteq Thread
<1>1. \A i \in 1 .. Len(q) : q[i] \in Thread
  BY NthFacts
<1> QED BY <1>1 DEF Members

(* What the tests of list.c say of a list that is the sequence q. *)
LEMMA TestsOfList ==
  ASSUME NEW h, HeapOK(h), NEW L \in ListId, NEW q, IsList(h, L, q)
  PROVE  /\ \A t \in Thread : ListExist(h, L, t) <=> t \in Members(q)
         /\ \A t \in Thread : ~ Stray(h, L, t)
         /\ ListEmpty(h, L) <=> Len(q) = 0
         /\ Len(q) = 0 => ListFirst(h, L) = TailOf(L)
         /\ Len(q) # 0 => 1 \in 1 .. Len(q) /\ ListFirst(h, L) = q[1] /\ q[1] \in Thread
<1> DEFINE walk == ListWalk(h, L)
<1>1. PICK N : N \in Nat /\ Len(q) \in Nat /\ Len(q) < N /\ DOMAIN walk = 0 .. N
               /\ \A i \in 0 .. N : walk[i] = IF i < Len(q) THEN q[i + 1] ELSE TailOf(L)
  BY WalkOfList, NodeFinite, NthFacts
<1>2. TailOf(L) \notin Thread /\ TailOf(L) # NULL
  BY NodeFacts
<1>3. \A i \in 1 .. Len(q) : q[i] \in Thread
  BY NthFacts
<1>4. ListFirst(h, L) = IF Len(q) = 0 THEN TailOf(L) ELSE q[1]
  <2>1. h.next[Nth(L, q, 0)] = Nth(L, q, 0 + 1)
    BY <1>1 DEF IsList
  <2> QED BY <2>1, <1>1 DEF Nth, ListFirst
<1>5. ASSUME NEW t \in Thread
      PROVE  (\E i \in 0 .. N : walk[i] = t) <=> t \in Members(q)
  <2>1. ASSUME NEW i \in 0 .. N, walk[i] = t PROVE t \in Members(q)
    <3>1. i < Len(q) /\ walk[i] = q[i + 1] /\ i + 1 \in 1 .. Len(q)
      BY <1>1, <1>2, <2>1
    <3> QED BY <2>1, <3>1 DEF Members
  <2>2. ASSUME NEW j \in 1 .. Len(q), t = q[j] PROVE \E i \in 0 .. N : walk[i] = t
    <3>1. j - 1 \in 0 .. N /\ walk[j - 1] = q[j]
      BY <1>1
    <3> QED BY <2>2, <3>1
  <2> QED BY <2>1, <2>2 DEF Members
<1>6. \A t \in Thread : ListExist(h, L, t) <=> t \in Members(q)
  BY <1>1, <1>2, <1>5 DEF ListExist
<1>7. \A t \in Thread : ~ Stray(h, L, t)
  <2>1. ListFirst(h, L) # NULL
    BY <1>1, <1>2, <1>3, <1>4, NodeFacts
  <2>2. Len(q) \in DOMAIN walk /\ walk[Len(q)] = TailOf(L)
    BY <1>1
  <2> QED BY <2>1, <2>2 DEF Stray
<1>8. ListEmpty(h, L) <=> Len(q) = 0
  BY <1>1, <1>2, <1>3, <1>4 DEF ListEmpty, ListFirst
<1> QED BY <1>1, <1>3, <1>4, <1>6, <1>7, <1>8

(* Such a list is well formed, and q is what listLen and a traversal see. *)
LEMMA ContentsOfList ==
  ASSUME NEW h, HeapOK(h), NEW L \in ListId, NEW q, IsList(h, L, q)
  PROVE  ListLen(h, L) = Len(q) /\ ListWellFormed(h, L) /\ ListContents(h, L) = q
<1> DEFINE walk == ListWalk(h, L)
<1>1. PICK N : N \in Nat /\ Len(q) \in Nat /\ Len(q) < N /\ DOMAIN walk = 0 .. N
               /\ \A i \in 0 .. N : walk[i] = IF i < Len(q) THEN q[i + 1] ELSE TailOf(L)
  BY WalkOfList, NodeFinite, NthFacts
<1>2. \A i \in 1 .. Len(q) : q[i] \in Thread /\ q[i] # TailOf(L)
  <2>1. TailOf(L) \notin Thread /\ \A i \in 1 .. Len(q) : q[i] \in Thread
    BY NthFacts, NodeFacts
  <2> QED BY <2>1
<1>3. ListLen(h, L) = Len(q)
  <2>1. {i \in DOMAIN walk : walk[i] # TailOf(L)} = 0 .. Len(q) - 1
    <3>1. \A i \in 0 .. N : walk[i] # TailOf(L) <=> i \in 0 .. Len(q) - 1
      <4> SUFFICES ASSUME NEW i \in 0 .. N
                   PROVE  walk[i] # TailOf(L) <=> i \in 0 .. Len(q) - 1
        OBVIOUS
      <4>1. CASE i < Len(q)
        <5>1. i + 1 \in 1 .. Len(q) /\ walk[i] = q[i + 1]
          BY <1>1, <4>1
        <5> QED BY <5>1, <1>1, <1>2, <4>1
      <4>2. CASE ~ (i < Len(q))
        BY <1>1, <4>2
      <4> QED BY <4>1, <4>2
    <3>2. 0 .. Len(q) - 1 \subseteq 0 .. N
      BY <1>1
    <3> QED BY <3>1, <3>2, <1>1
  <2>2. Cardinality(0 .. Len(q) - 1) = Len(q)
    <3>1. PICK n \in Nat : n = Len(q)
      BY <1>1
    <3>2. Cardinality(0 .. n - 1) = IF 0 > n - 1 THEN 0 ELSE (n - 1) - 0 + 1
      BY FS_Interval
    <3> QED BY <3>1, <3>2
  <2> QED BY <2>1, <2>2 DEF ListLen
<1>4. \A i \in 0 .. Len(q) : walk[i] = Nth(L, q, i + 1)
  BY <1>1 DEF Nth
<1>5. ListWellFormed(h, L)
  <2>1. \A i \in 0 .. Len(q) : h.prev[walk[i]] = Nth(L, q, i)
    BY <1>4 DEF IsList
  <2>2. Len(q) \in DOMAIN walk /\ walk[Len(q)] = TailOf(L)
    BY <1>1
  <2>3. h.prev[walk[0]] = HeadOf(L)
    BY <2>1, <1>1 DEF Nth
  <2>4. \A i \in 1 .. Len(q) : h.prev[walk[i]] = walk[i - 1]
    <3> SUFFICES ASSUME NEW i \in 1 .. Len(q) PROVE h.prev[walk[i]] = walk[i - 1]
      OBVIOUS
    <3>1. i \in 0 .. Len(q) /\ i - 1 \in 0 .. Len(q) /\ i - 1 + 1 = i
      BY <1>1
    <3> HIDE DEF walk
    <3>2. h.prev[walk[i]] = Nth(L, q, i)
      BY <2>1, <3>1
    <3>3. walk[i - 1] = Nth(L, q, i - 1 + 1)
      BY <1>4, <3>1
    <3> QED BY <3>1, <3>2, <3>3
  <2> QED BY <1>3, <2>2, <2>3, <2>4 DEF ListWellFormed
<1>6. ListContents(h, L) = q
  <2>1. q = [i \in 1 .. Len(q) |-> q[i]]
    BY DEF IsList
  <2>2. \A i \in 1 .. Len(q) : walk[i - 1] = q[i]
    BY <1>1
  <2>3. [i \in 1 .. Len(q) |-> walk[i - 1]] = q
    BY <2>1, <2>2
  <2> QED BY <1>3, <2>3 DEF ListContents
<1> QED BY <1>3, <1>5, <1>6

-----------------------------------------------------------------------------
(* q with t after its k-th thread, and q without its k-th thread. *)
Insert(q, k, t) == [i \in 1 .. Len(q) + 1 |->
                      IF i <= k THEN q[i] ELSE IF i = k + 1 THEN t ELSE q[i - 1]]
Delete(q, k)    == [i \in 1 .. Len(q) - 1 |-> IF i < k THEN q[i] ELSE q[i + 1]]

(* What the two are: sequences of different threads, counted as q is. *)
Inserted(L, q, k, t, r) ==
  /\ r \in Seq(Thread) /\ Len(r) = Len(q) + 1
  /\ \A i, j \in 1 .. Len(q) + 1 : r[i] = r[j] => i = j
  /\ Members(r) = Members(q) \cup {t}
  /\ \A i \in 0 .. Len(q) + 2 :
       Nth(L, r, i) = IF i <= k THEN Nth(L, q, i)
                      ELSE IF i = k + 1 THEN t ELSE Nth(L, q, i - 1)

Deleted(L, q, k, r) ==
  /\ r \in Seq(Thread) /\ Len(r) = Len(q) - 1
  /\ \A i, j \in 1 .. Len(q) - 1 : r[i] = r[j] => i = j
  /\ Members(r) = Members(q) \ {q[k]}
  /\ \A i \in 0 .. Len(q) : Nth(L, r, i) = IF i < k THEN Nth(L, q, i)
                                            ELSE Nth(L, q, i + 1)

(* The sequence with one thread more is such a sequence. *)
LEMMA InsertFacts ==
  ASSUME NEW h, NEW L \in ListId, NEW q, IsList(h, L, q),
         NEW k \in 0 .. Len(q), NEW t \in Thread \ Members(q)
  PROVE  Inserted(L, q, k, t, Insert(q, k, t))
<1>1. PICK n \in Nat : n = Len(q)
  BY NthFacts
<1>2. \A i \in 1 .. n : q[i] \in Thread /\ q[i] # t
  BY <1>1, NthFacts DEF Members
<1>3. \A i, j \in 1 .. n : q[i] = q[j] => i = j
  BY <1>1 DEF IsList
<1> DEFINE r == Insert(q, k, t)
<1>4. /\ \A i \in 1 .. n + 1 : r[i] = IF i <= k THEN q[i]
                                      ELSE IF i = k + 1 THEN t ELSE q[i - 1]
      /\ DOMAIN r = 1 .. n + 1
  BY <1>1 DEF Insert
<1>5. \A i \in 1 .. n + 1 : r[i] \in Thread
  BY <1>1, <1>2, <1>4
<1>6. r \in Seq(Thread) /\ Len(r) = n + 1
  <2>1. r = [i \in 1 .. n + 1 |-> r[i]]
    BY <1>1 DEF Insert
  <2> HIDE DEF r
  <2> QED BY <1>5, <2>1
<1>7. \A i, j \in 1 .. n + 1 : r[i] = r[j] => i = j
  <2> HIDE DEF r
  <2> QED BY <1>1, <1>2, <1>3, <1>4
<1>8. Members(r) = Members(q) \cup {t}
  <2>1. ASSUME NEW i \in 1 .. n PROVE \E j \in 1 .. n + 1 : r[j] = q[i]
    <3>1. i <= k => i \in 1 .. n + 1 /\ r[i] = q[i]
      BY <1>4
    <3>2. ~ (i <= k) => i + 1 \in 1 .. n + 1 /\ r[i + 1] = q[i]
      BY <1>1, <1>4
    <3> QED BY <3>1, <3>2
  <2>2. k + 1 \in 1 .. n + 1 /\ r[k + 1] = t
    BY <1>1, <1>4
  <2>3. \A j \in 1 .. n + 1 : r[j] = t \/ \E i \in 1 .. n : r[j] = q[i]
    <3> HIDE DEF r
    <3> SUFFICES ASSUME NEW j \in 1 .. n + 1 PROVE r[j] = t \/ \E i \in 1 .. n : r[j] = q[i]
      OBVIOUS
    <3>1. j <= k => j \in 1 .. n /\ r[j] = q[j]
      BY <1>1, <1>4
    <3>2. j > k + 1 => j - 1 \in 1 .. n /\ r[j] = q[j - 1]
      BY <1>1, <1>4
    <3>3. j = k + 1 => r[j] = t
      BY <1>1, <1>4
    <3> QED BY <1>1, <3>1, <3>2, <3>3
  <2>4. Members(r) = {r[j] : j \in 1 .. n + 1}
    BY <1>6 DEF Members
  <2>5. Members(q) = {q[i] : i \in 1 .. n}
    BY <1>1 DEF Members
  <2> HIDE DEF r
  <2> QED BY <2>1, <2>2, <2>3, <2>4, <2>5
<1>9. \A i \in 0 .. n + 2 : Nth(L, r, i) = IF i <= k THEN Nth(L, q, i)
                                           ELSE IF i = k + 1 THEN t ELSE Nth(L, q, i - 1)
  <2> HIDE DEF r
  <2> SUFFICES ASSUME NEW i \in 0 .. n + 2
               PROVE  Nth(L, r, i) = IF i <= k THEN Nth(L, q, i)
                                     ELSE IF i = k + 1 THEN t ELSE Nth(L, q, i - 1)
    OBVIOUS
  <2>1. CASE i \in 1 .. n + 1
    <3>1. Nth(L, r, i) = r[i]
      BY <1>1, <1>6, <2>1 DEF Nth
    <3>2. i <= k => Nth(L, q, i) = q[i]
      BY <1>1, <2>1 DEF Nth
    <3>3. i > k + 1 => Nth(L, q, i - 1) = q[i - 1]
      BY <1>1, <2>1 DEF Nth
    <3> QED BY <1>1, <1>4, <2>1, <3>1, <3>2, <3>3
  <2>2. CASE i = 0
    BY <1>1, <2>2 DEF Nth
  <2>3. CASE i = n + 2
    BY <1>1, <1>6, <2>3 DEF Nth
  <2> QED BY <1>1, <2>1, <2>2, <2>3
<1> QED BY <1>1, <1>6, <1>7, <1>8, <1>9 DEF Inserted

(* listInsertBefore puts a thread that is on no list where it says, and     *)
(* touches no other list.                                                  *)
LEMMA InsertList ==
  ASSUME NEW h, HeapOK(h), NEW L \in ListId, NEW q, IsList(h, L, q),
         NEW k \in 0 .. Len(q), NEW t \in Thread \ Members(q),
         NEW g, g = ListInsert(h, Nth(L, q, k + 1), t)
  PROVE  /\ HeapOK(g) /\ IsList(g, L, Insert(q, k, t))
         /\ \A M \in ListId \ {L} : \A r :
              IsList(h, M, r) /\ t \notin Members(r) /\ Members(r) \cap Members(q) = {}
                => IsList(g, M, r)
<1>1. PICK n \in Nat : n = Len(q)
  BY NthFacts
<1> DEFINE N(i) == Nth(L, q, i)
           a == N(k)
           b == N(k + 1)
<1>2. /\ \A i \in 0 .. n + 1 : N(i) \in Node
      /\ \A i, j \in 0 .. n + 1 : N(i) = N(j) => i = j
      /\ \A i \in 0 .. n + 1 : i = 0 \/ i = n + 1 \/ N(i) \in Members(q)
  <2>1. /\ \A i \in 0 .. n + 1 : N(i) \in Node
        /\ \A i, j \in 0 .. n + 1 : N(i) = N(j) => i = j
        /\ \A i \in 1 .. n : N(i) = q[i]
    BY <1>1, NthFacts
  <2> HIDE DEF N
  <2> QED BY <1>1, <2>1 DEF Members
<1>3. \A i \in 0 .. n + 1 : N(i) # t
  BY <1>1, <1>2, NthFacts, NodeFacts
<1>4. k \in 0 .. n /\ h.prev[b] = a /\ a \in Node /\ b \in Node /\ t \in Node
      /\ a # t /\ b # t
  BY <1>1, <1>2, <1>3, NodeFacts DEF IsList
<1>5. \A i \in 0 .. n : h.next[N(i)] = N(i + 1) /\ h.prev[N(i + 1)] = N(i)
  BY <1>1 DEF IsList
<1>6. /\ \A x \in Node : /\ g.next[x] = IF x = t THEN b ELSE IF x = a THEN t ELSE h.next[x]
                         /\ g.prev[x] = IF x = t THEN a ELSE IF x = b THEN t ELSE h.prev[x]
      /\ HeapOK(g)
  <2>1. /\ g.next = [h.next EXCEPT ![a] = t, ![t] = b]
        /\ g.prev = [h.prev EXCEPT ![t] = a, ![b] = t]
    BY <1>4 DEF ListInsert
  <2> HIDE DEF a, b
  <2> QED BY <1>4, <2>1 DEF HeapOK
<1>7. IsList(g, L, Insert(q, k, t))
  <2> DEFINE r == Insert(q, k, t)
             R(i) == Nth(L, r, i)
  <2>1. /\ r \in Seq(Thread) /\ Len(r) = n + 1
        /\ \A i, j \in 1 .. n + 1 : r[i] = r[j] => i = j
        /\ \A i \in 0 .. n + 2 : R(i) = IF i <= k THEN N(i) ELSE IF i = k + 1 THEN t
                                        ELSE N(i - 1)
    <3> HIDE DEF a, b
    <3>1. Inserted(L, q, k, t, r)
      BY InsertFacts
    <3> HIDE DEF r
    <3> QED BY <1>1, <3>1 DEF Inserted
  <2> HIDE DEF R, r, N, a, b
  <2>2. ASSUME NEW i \in 0 .. n + 1
        PROVE  g.next[R(i)] = R(i + 1) /\ g.prev[R(i + 1)] = R(i)
    <3>1. CASE i < k
      <4>1. R(i) = N(i) /\ R(i + 1) = N(i + 1) /\ i \in 0 .. n
        BY <1>1, <2>1, <3>1
      <4>2. N(i) # a /\ N(i) # t /\ N(i + 1) # b /\ N(i + 1) # t
        <5>1. i \in 0 .. n + 1 /\ i + 1 \in 0 .. n + 1 /\ k \in 0 .. n + 1
              /\ k + 1 \in 0 .. n + 1 /\ i # k /\ i + 1 # k + 1
          BY <1>1, <3>1
        <5> QED BY <1>2, <1>3, <5>1 DEF a, b
      <4> QED BY <4>1, <4>2, <1>2, <1>5, <1>6
    <3>2. CASE i = k
      <4>1. R(i) = a /\ R(i + 1) = t
        BY <1>1, <2>1, <3>2 DEF a
      <4> QED BY <4>1, <1>4, <1>6
    <3>3. CASE i = k + 1
      <4>1. R(i) = t /\ R(i + 1) = b
        BY <1>1, <2>1, <3>3 DEF b
      <4> QED BY <4>1, <1>4, <1>6
    <3>4. CASE i > k + 1
      <4>1. R(i) = N(i - 1) /\ R(i + 1) = N(i) /\ i - 1 \in 0 .. n /\ i \in 0 .. n + 1
        BY <1>1, <2>1, <3>4
      <4>2. N(i - 1) # a /\ N(i - 1) # t /\ N(i) # b /\ N(i) # t
        <5>1. i - 1 \in 0 .. n + 1 /\ k \in 0 .. n + 1 /\ k + 1 \in 0 .. n + 1
              /\ i - 1 # k /\ i # k + 1
          BY <1>1, <3>4
        <5> QED BY <1>2, <1>3, <4>1, <5>1 DEF a, b
      <4>3. h.next[N(i - 1)] = N(i) /\ h.prev[N(i)] = N(i - 1)
        BY <1>5, <4>1
      <4> QED BY <4>1, <4>2, <4>3, <1>2, <1>6
    <3> QED BY <1>1, <3>1, <3>2, <3>3, <3>4
  <2> QED BY <2>1, <2>2 DEF IsList, R, r
<1>8. ASSUME NEW M \in ListId \ {L}, NEW r, IsList(h, M, r), t \notin Members(r),
             Members(r) \cap Members(q) = {}
      PROVE  IsList(g, M, r)
  <2>1. PICK m \in Nat : m = Len(r)
    BY <1>8, NthFacts
  <2> DEFINE R(i) == Nth(M, r, i)
  <2>2. \A i \in 0 .. m + 1 : R(i) \in Node /\ R(i) # t /\ (i # m + 1 => R(i) # a)
                              /\ (i # 0 => R(i) # b)
    <3> SUFFICES ASSUME NEW i \in 0 .. m + 1
                 PROVE  R(i) \in Node /\ R(i) # t /\ (i # m + 1 => R(i) # a)
                        /\ (i # 0 => R(i) # b)
      OBVIOUS
    <3>1. a = HeadOf(L) \/ a \in Members(q)
      <4>1. N(0) = HeadOf(L)
        BY <1>1, NthFacts
      <4> QED BY <1>2, <1>4, <4>1
    <3>2. b = TailOf(L) \/ b \in Members(q)
      <4>1. N(n + 1) = TailOf(L)
        BY <1>1, NthFacts
      <4>2. k + 1 \in 0 .. n + 1 /\ k + 1 # 0
        BY <1>1
      <4> QED BY <1>2, <1>4, <4>1, <4>2
    <3>3. \/ R(i) = HeadOf(M) /\ i = 0
          \/ R(i) = TailOf(M) /\ i = m + 1
          \/ R(i) \in Members(r)
      <4>1. R(0) = HeadOf(M) /\ R(m + 1) = TailOf(M) /\ \A j \in 1 .. m : R(j) = r[j]
        BY <1>8, <2>1, NthFacts
      <4>2. i = 0 \/ i = m + 1 \/ i \in 1 .. m
        BY <2>1
      <4> HIDE DEF R
      <4> QED BY <2>1, <4>1, <4>2 DEF Members
    <3>4. Members(q) \subseteq Thread /\ Members(r) \subseteq Thread
      BY <1>8, MembersType
    <3> HIDE DEF R, a, b
    <3> QED BY <1>8, <2>1, <3>1, <3>2, <3>3, <3>4, NodeFacts
  <2>3. \A i \in 0 .. m : h.next[R(i)] = R(i + 1) /\ h.prev[R(i + 1)] = R(i)
    BY <1>8, <2>1 DEF IsList
  <2>4. \A i \in 0 .. m : g.next[R(i)] = R(i + 1) /\ g.prev[R(i + 1)] = R(i)
    <3> HIDE DEF R, a, b
    <3> QED BY <2>2, <2>3, <1>6
  <2> QED BY <1>8, <2>1, <2>4 DEF IsList
<1> QED BY <1>6, <1>7, <1>8

(* The sequence with one thread less is such a sequence. *)
LEMMA DeleteFacts ==
  ASSUME NEW h, NEW L \in ListId, NEW q, IsList(h, L, q), NEW k \in 1 .. Len(q)
  PROVE  Deleted(L, q, k, Delete(q, k))
<1>1. PICK n \in Nat : n = Len(q)
  BY NthFacts
<1>2. \A i \in 1 .. n : q[i] \in Thread
  BY <1>1, NthFacts
<1>3. \A i, j \in 1 .. n : q[i] = q[j] => i = j
  BY <1>1 DEF IsList
<1> DEFINE r == Delete(q, k)
<1>4. /\ \A i \in 1 .. n - 1 : r[i] = IF i < k THEN q[i] ELSE q[i + 1]
      /\ r = [i \in 1 .. n - 1 |-> r[i]]
  BY <1>1 DEF Delete
<1> HIDE DEF r
<1>5. \A i \in 1 .. n - 1 : r[i] \in Thread
  BY <1>1, <1>2, <1>4
<1>6. n - 1 \in Nat /\ r \in Seq(Thread) /\ Len(r) = n - 1
  BY <1>1, <1>4, <1>5
<1>7. \A i, j \in 1 .. n - 1 : r[i] = r[j] => i = j
  BY <1>1, <1>3, <1>4
<1>8. Members(r) = Members(q) \ {q[k]}
  <2>1. ASSUME NEW i \in 1 .. n, i # k PROVE \E j \in 1 .. n - 1 : r[j] = q[i]
    <3>1. i < k => i \in 1 .. n - 1 /\ r[i] = q[i]
      BY <1>1, <1>4
    <3>2. ~ (i < k) => i - 1 \in 1 .. n - 1 /\ r[i - 1] = q[i]
      BY <1>1, <1>4, <2>1
    <3> QED BY <3>1, <3>2
  <2>2. ASSUME NEW j \in 1 .. n - 1 PROVE \E i \in 1 .. n : i # k /\ r[j] = q[i]
    <3>1. j < k => j \in 1 .. n /\ j # k /\ r[j] = q[j]
      BY <1>1, <1>4
    <3>2. ~ (j < k) => j + 1 \in 1 .. n /\ j + 1 # k /\ r[j] = q[j + 1]
      BY <1>1, <1>4
    <3> QED BY <3>1, <3>2
  <2>3. \A i \in 1 .. n : q[i] = q[k] => i = k
    BY <1>1, <1>3
  <2>4. Members(r) = {r[j] : j \in 1 .. n - 1} /\ Members(q) = {q[i] : i \in 1 .. n}
    BY <1>1, <1>6 DEF Members
  <2>5. ASSUME NEW x \in Members(r) PROVE x \in Members(q) \ {q[k]}
    <3>1. PICK j \in 1 .. n - 1 : x = r[j]
      BY <2>4
    <3>2. PICK i \in 1 .. n : i # k /\ r[j] = q[i]
      BY <2>2
    <3> QED BY <2>3, <2>4, <3>1, <3>2
  <2>6. ASSUME NEW x \in Members(q) \ {q[k]} PROVE x \in Members(r)
    <3>1. PICK i \in 1 .. n : x = q[i] /\ i # k
      BY <2>4
    <3> QED BY <2>1, <2>4, <3>1
  <2> QED BY <2>5, <2>6
<1>9. \A i \in 0 .. n : Nth(L, r, i) = IF i < k THEN Nth(L, q, i) ELSE Nth(L, q, i + 1)
  <2> SUFFICES ASSUME NEW i \in 0 .. n
               PROVE  Nth(L, r, i) = IF i < k THEN Nth(L, q, i) ELSE Nth(L, q, i + 1)
    OBVIOUS
  <2>1. CASE i \in 1 .. n - 1
    <3>1. Nth(L, r, i) = r[i]
      BY <1>1, <1>6, <2>1 DEF Nth
    <3>2. Nth(L, q, i) = q[i] /\ Nth(L, q, i + 1) = q[i + 1]
      BY <1>1, <2>1 DEF Nth
    <3> QED BY <1>1, <1>4, <2>1, <3>1, <3>2
  <2>2. CASE i = 0
    BY <1>1, <1>6, <2>2 DEF Nth
  <2>3. CASE i = n
    BY <1>1, <1>6, <2>3 DEF Nth
  <2> QED BY <1>1, <2>1, <2>2, <2>3
<1> QED BY <1>1, <1>6, <1>7, <1>8, <1>9 DEF Deleted, r

(* listRemove takes a thread of the list out of it, and touches no other.  *)
LEMMA DeleteList ==
  ASSUME NEW h, HeapOK(h), NEW L \in ListId, NEW q, IsList(h, L, q),
         NEW k \in 1 .. Len(q), NEW g, g = ListRemove(h, q[k])
  PROVE  /\ HeapOK(g) /\ IsList(g, L, Delete(q, k))
         /\ \A M \in ListId \ {L} : \A r :
              IsList(h, M, r) /\ Members(r) \cap Members(q) = {} => IsList(g, M, r)
<1>1. PICK n \in Nat : n = Len(q)
  BY NthFacts
<1> DEFINE N(i) == Nth(L, q, i)
           a == N(k - 1)
           b == N(k + 1)
<1>2. /\ \A i \in 0 .. n + 1 : N(i) \in Node
      /\ \A i, j \in 0 .. n + 1 : N(i) = N(j) => i = j
      /\ \A i \in 1 .. n : N(i) = q[i] /\ N(i) \in Members(q)
  <2>1. /\ \A i \in 0 .. n + 1 : N(i) \in Node
        /\ \A i, j \in 0 .. n + 1 : N(i) = N(j) => i = j
        /\ \A i \in 1 .. n : N(i) = q[i]
    BY <1>1, NthFacts
  <2> HIDE DEF N
  <2> QED BY <1>1, <2>1 DEF Members
<1>3. \A i \in 0 .. n : h.next[N(i)] = N(i + 1) /\ h.prev[N(i + 1)] = N(i)
  BY <1>1 DEF IsList
<1>4. /\ k \in 1 .. n /\ a \in Node /\ b \in Node
      /\ h.prev[q[k]] = a /\ h.next[q[k]] = b
  <2>1. k - 1 \in 0 .. n /\ k \in 0 .. n /\ k \in 1 .. n /\ k + 1 \in 0 .. n + 1
        /\ k - 1 \in 0 .. n + 1 /\ (k - 1) + 1 = k
    BY <1>1
  <2> HIDE DEF N
  <2>2. h.prev[N(k)] = N(k - 1) /\ h.next[N(k)] = N(k + 1)
    BY <1>3, <2>1
  <2> QED BY <1>2, <2>1, <2>2
<1>5. /\ \A x \in Node : /\ g.next[x] = IF x = a THEN b ELSE h.next[x]
                         /\ g.prev[x] = IF x = b THEN a ELSE h.prev[x]
      /\ HeapOK(g)
  <2>1. /\ g.next = [h.next EXCEPT ![a] = b]
        /\ g.prev = [h.prev EXCEPT ![b] = a]
    BY <1>4 DEF ListRemove
  <2> HIDE DEF a, b
  <2> QED BY <1>4, <2>1 DEF HeapOK
<1>6. IsList(g, L, Delete(q, k))
  <2> DEFINE r == Delete(q, k)
             R(i) == Nth(L, r, i)
  <2>1. /\ r \in Seq(Thread) /\ Len(r) = n - 1
        /\ \A i, j \in 1 .. n - 1 : r[i] = r[j] => i = j
        /\ \A i \in 0 .. n : R(i) = IF i < k THEN N(i) ELSE N(i + 1)
    <3> HIDE DEF a, b
    <3>1. Deleted(L, q, k, r)
      BY DeleteFacts
    <3> HIDE DEF r
    <3> QED BY <1>1, <3>1 DEF Deleted
  <2> HIDE DEF R, r, N, a, b
  <2>2. ASSUME NEW i \in 0 .. n - 1
        PROVE  g.next[R(i)] = R(i + 1) /\ g.prev[R(i + 1)] = R(i)
    <3>1. CASE i < k - 1
      <4>1. R(i) = N(i) /\ R(i + 1) = N(i + 1) /\ i \in 0 .. n
        BY <1>1, <2>1, <3>1
      <4>2. i \in 0 .. n + 1 /\ i + 1 \in 0 .. n + 1 /\ k - 1 \in 0 .. n + 1
            /\ k + 1 \in 0 .. n + 1 /\ i # k - 1 /\ i + 1 # k + 1
        BY <1>1, <3>1
      <4>3. N(i) # a /\ N(i + 1) # b
        BY <1>2, <4>2 DEF a, b
      <4> QED BY <4>1, <4>2, <4>3, <1>2, <1>3, <1>5
    <3>2. CASE i = k - 1
      <4>1. R(i) = a /\ R(i + 1) = b
        BY <1>1, <2>1, <3>2 DEF a, b
      <4> QED BY <4>1, <1>4, <1>5
    <3>3. CASE i > k - 1
      <4>1. R(i) = N(i + 1) /\ R(i + 1) = N(i + 2) /\ i + 1 \in 0 .. n
        BY <1>1, <2>1, <3>3
      <4>2. i + 1 \in 0 .. n + 1 /\ i + 2 \in 0 .. n + 1 /\ k - 1 \in 0 .. n + 1
            /\ k + 1 \in 0 .. n + 1 /\ i + 1 # k - 1 /\ i + 2 # k + 1 /\ (i + 1) + 1 = i + 2
        BY <1>1, <3>3
      <4>3. N(i + 1) # a /\ N(i + 2) # b
        BY <1>2, <4>2 DEF a, b
      <4>4. h.next[N(i + 1)] = N(i + 2) /\ h.prev[N(i + 2)] = N(i + 1)
        BY <1>3, <4>1, <4>2
      <4> QED BY <4>1, <4>2, <4>3, <4>4, <1>2, <1>5
    <3> QED BY <1>1, <3>1, <3>2, <3>3
  <2>3. \A i \in 0 .. Len(r) : g.next[R(i)] = R(i + 1) /\ g.prev[R(i + 1)] = R(i)
    BY <1>1, <2>1, <2>2
  <2> QED BY <2>1, <2>3 DEF IsList, R, r
<1>7. ASSUME NEW M \in ListId \ {L}, NEW r, IsList(h, M, r),
             Members(r) \cap Members(q) = {}
      PROVE  IsList(g, M, r)
  <2>1. PICK m \in Nat : m = Len(r)
    BY <1>7, NthFacts
  <2> DEFINE R(i) == Nth(M, r, i)
  <2>2. \A i \in 0 .. m + 1 : R(i) \in Node /\ (i # m + 1 => R(i) # a)
                              /\ (i # 0 => R(i) # b)
    <3> SUFFICES ASSUME NEW i \in 0 .. m + 1
                 PROVE  R(i) \in Node /\ (i # m + 1 => R(i) # a)
                        /\ (i # 0 => R(i) # b)
      OBVIOUS
    <3>1. k - 1 \in 0 .. n /\ k + 1 \in 0 .. n + 1 /\ k + 1 # 0
          /\ \A j \in 0 .. n + 1 : j = 0 \/ j = n + 1 \/ j \in 1 .. n
      BY <1>1
    <3>2. a = HeadOf(L) \/ a \in Members(q)
      <4>1. N(0) = HeadOf(L)
        BY <1>1, NthFacts
      <4>2. k - 1 = 0 \/ k - 1 \in 1 .. n
        BY <1>1
      <4> QED BY <1>2, <4>1, <4>2
    <3>3. b = TailOf(L) \/ b \in Members(q)
      <4>1. N(n + 1) = TailOf(L)
        BY <1>1, NthFacts
      <4>2. k + 1 = n + 1 \/ k + 1 \in 1 .. n
        BY <1>1
      <4> QED BY <1>2, <4>1, <4>2
    <3>4. \/ R(i) = HeadOf(M) /\ i = 0
          \/ R(i) = TailOf(M) /\ i = m + 1
          \/ R(i) \in Members(r)
      <4>1. R(0) = HeadOf(M) /\ R(m + 1) = TailOf(M) /\ \A j \in 1 .. m : R(j) = r[j]
        BY <1>7, <2>1, NthFacts
      <4>2. i = 0 \/ i = m + 1 \/ i \in 1 .. m
        BY <2>1
      <4> HIDE DEF R
      <4> QED BY <2>1, <4>1, <4>2 DEF Members
    <3>5. Members(q) \subseteq Thread /\ Members(r) \subseteq Thread
      BY <1>7, MembersType
    <3> HIDE DEF R, a, b
    <3> QED BY <1>7, <2>1, <3>2, <3>3, <3>4, <3>5, NodeFacts
  <2>3. \A i \in 0 .. m : h.next[R(i)] = R(i + 1) /\ h.prev[R(i + 1)] = R(i)
    BY <1>7, <2>1 DEF IsList
  <2>4. \A i \in 0 .. m : g.next[R(i)] = R(i + 1) /\ g.prev[R(i + 1)] = R(i)
    <3> HIDE DEF R, a, b
    <3> QED BY <2>2, <2>3, <1>5
  <2> QED BY <1>7, <2>1, <2>4 DEF IsList
<1> QED BY <1>5, <1>6, <1>7

-----------------------------------------------------------------------------
(* All lists at once: no thread is on two of them. *)
Lists(h, Q) ==
  /\ HeapOK(h)
  /\ Q \in [ListId -> Seq(Thread)]
  /\ \A L \in ListId : IsList(h, L, Q[L])
  /\ \A L, M \in ListId : L # M => Members(Q[L]) \cap Members(Q[M]) = {}

OnNone(Q, t) == \A L \in ListId : t \notin Members(Q[L])

Gains(Q, R, L, t) == Members(R[L]) = Members(Q[L]) \cup {t}
Loses(Q, R, L, t) == Members(R[L]) = Members(Q[L]) \ {t}

(* listAppend, listPush and taking the first thread off, on sequences. *)
LEMMA SequenceForms ==
  ASSUME NEW q \in Seq(Thread), NEW t \in Thread
  PROVE  /\ Insert(q, Len(q), t) = Append(q, t)
         /\ Insert(q, 0, t) = <<t>> \o q
         /\ Len(q) # 0 => Delete(q, 1) = Tail(q)
<1>1. PICK n \in Nat : n = Len(q)
  OBVIOUS
<1>2. Insert(q, n, t) = Append(q, t)
  <2> DEFINE r == Append(q, t)
  <2>1. /\ r \in Seq(Thread) /\ Len(r) = n + 1
        /\ \A i \in 1 .. n + 1 : r[i] = IF i <= n THEN q[i] ELSE t
    BY <1>1
  <2> HIDE DEF r
  <2>2. r = [i \in 1 .. n + 1 |-> r[i]]
    BY <2>1
  <2>3. \A i \in 1 .. n + 1 : (IF i <= n THEN q[i] ELSE IF i = n + 1 THEN t ELSE q[i - 1])
                               = r[i]
    BY <1>1, <2>1
  <2> QED BY <1>1, <2>2, <2>3 DEF Insert, r
<1>3. Insert(q, 0, t) = <<t>> \o q
  <2> DEFINE r == <<t>> \o q
  <2>1. /\ r \in Seq(Thread) /\ Len(r) = n + 1
        /\ \A i \in 1 .. n + 1 : r[i] = IF i <= 1 THEN <<t>>[i] ELSE q[i - 1]
    BY <1>1, ConcatProperties, <<t>> \in Seq(Thread), Len(<<t>>) = 1
  <2> HIDE DEF r
  <2>2. r = [i \in 1 .. n + 1 |-> r[i]]
    BY <2>1
  <2>3. \A i \in 1 .. n + 1 : (IF i <= 0 THEN q[i] ELSE IF i = 0 + 1 THEN t ELSE q[i - 1])
                               = r[i]
    BY <1>1, <2>1
  <2> QED BY <1>1, <2>2, <2>3 DEF Insert, r
<1>4. ASSUME n # 0 PROVE Delete(q, 1) = Tail(q)
  <2> DEFINE r == Tail(q)
  <2>1. r \in Seq(Thread) /\ Len(r) = n - 1 /\ \A i \in 1 .. n - 1 : r[i] = q[i + 1]
    BY <1>1, <1>4
  <2> HIDE DEF r
  <2>2. r = [i \in 1 .. n - 1 |-> r[i]]
    BY <1>1, <1>4, <2>1
  <2>3. \A i \in 1 .. n - 1 : (IF i < 1 THEN q[i] ELSE q[i + 1]) = r[i]
    BY <1>1, <2>1
  <2> QED BY <1>1, <2>2, <2>3 DEF Delete, r
<1> QED BY <1>1, <1>2, <1>3, <1>4

(* g is h, and R is Q, with t inserted in list L after k threads. *)
Grown(h, Q, L, k, t, g, R) ==
  /\ g = ListInsert(h, Nth(L, Q[L], k + 1), t)
  /\ R = [Q EXCEPT ![L] = Insert(Q[L], k, t)]

(* A list to which a thread is added. *)
LEMMA InsertLists ==
  ASSUME NEW h, NEW Q, Lists(h, Q), NEW L \in ListId, NEW k \in 0 .. Len(Q[L]),
         NEW t \in Thread, OnNone(Q, t), NEW g, NEW R, Grown(h, Q, L, k, t, g, R)
  PROVE  Lists(g, R) /\ Gains(Q, R, L, t)
<1> DEFINE r == Insert(Q[L], k, t)
<1>1. R = [Q EXCEPT ![L] = r] /\ g = ListInsert(h, Nth(L, Q[L], k + 1), t)
  BY DEF Grown
<1>2. /\ HeapOK(h) /\ Q \in [ListId -> Seq(Thread)]
      /\ \A M \in ListId : IsList(h, M, Q[M])
      /\ \A M, N \in ListId : M # N => Members(Q[M]) \cap Members(Q[N]) = {}
  BY DEF Lists
<1>3. \A M \in ListId : t \notin Members(Q[M])
  BY DEF OnNone
<1>4. t \in Thread \ Members(Q[L])
  BY <1>3
<1>5. HeapOK(g) /\ IsList(g, L, r)
  BY <1>1, <1>2, <1>4, InsertList
<1>6. Inserted(L, Q[L], k, t, r)
  BY <1>2, <1>4, InsertFacts
<1>7. ASSUME NEW M \in ListId \ {L} PROVE IsList(g, M, Q[M])
  BY <1>1, <1>2, <1>3, <1>4, InsertList
<1> HIDE DEF r
<1>8. Members(r) = Members(Q[L]) \cup {t} /\ r \in Seq(Thread)
  BY <1>6 DEF Inserted
<1>9. R \in [ListId -> Seq(Thread)] /\ \A M \in ListId : R[M] = IF M = L THEN r ELSE Q[M]
  BY <1>1, <1>2, <1>8
<1>10. \A M, N \in ListId : M # N => Members(R[M]) \cap Members(R[N]) = {}
  <2> SUFFICES ASSUME NEW M \in ListId, NEW N \in ListId, M # N
               PROVE  Members(R[M]) \cap Members(R[N]) = {}
    OBVIOUS
  <2>1. \A K \in ListId : Members(R[K]) = IF K = L THEN Members(Q[L]) \cup {t}
                                          ELSE Members(Q[K])
    BY <1>8, <1>9
  <2>2. Members(Q[M]) \cap Members(Q[N]) = {} /\ t \notin Members(Q[M])
        /\ t \notin Members(Q[N])
    BY <1>2, <1>3
  <2> QED BY <2>1, <2>2
<1>11. \A M \in ListId : IsList(g, M, R[M])
  BY <1>5, <1>7, <1>9
<1> QED BY <1>5, <1>8, <1>9, <1>10, <1>11 DEF Lists, Gains

(* listAppend of a thread that is on no list. *)
LEMMA AppendLists ==
  ASSUME NEW h, NEW Q, Lists(h, Q), NEW L \in ListId, NEW t \in Thread, OnNone(Q, t)
  PROVE  /\ Lists(ListAppend(h, L, t), [Q EXCEPT ![L] = Append(Q[L], t)])
         /\ Gains(Q, [Q EXCEPT ![L] = Append(Q[L], t)], L, t)
<1>1. IsList(h, L, Q[L]) /\ Q[L] \in Seq(Thread)
  BY DEF Lists
<1>2. Len(Q[L]) \in 0 .. Len(Q[L]) /\ Nth(L, Q[L], Len(Q[L]) + 1) = TailOf(L)
  BY <1>1, NthFacts
<1>3. Append(Q[L], t) = Insert(Q[L], Len(Q[L]), t)
  BY <1>1, SequenceForms
<1>4. ListAppend(h, L, t) = ListInsert(h, Nth(L, Q[L], Len(Q[L]) + 1), t)
  BY <1>2 DEF ListAppend
<1> DEFINE R == [Q EXCEPT ![L] = Append(Q[L], t)]
           g == ListAppend(h, L, t)
<1>5. Grown(h, Q, L, Len(Q[L]), t, g, R) /\ R[L] = Append(Q[L], t)
  BY <1>3, <1>4 DEF Grown, Lists
<1> HIDE DEF R, g
<1>6. Lists(g, R) /\ Gains(Q, R, L, t)
  BY <1>2, <1>5, InsertLists
<1> QED BY <1>6 DEF R, g

(* listPush of a thread that is on no list. *)
LEMMA PushLists ==
  ASSUME NEW h, NEW Q, Lists(h, Q), NEW L \in ListId, NEW t \in Thread, OnNone(Q, t)
  PROVE  /\ Lists(ListPush(h, L, t), [Q EXCEPT ![L] = <<t>> \o Q[L]])
         /\ Gains(Q, [Q EXCEPT ![L] = <<t>> \o Q[L]], L, t)
<1>1. IsList(h, L, Q[L]) /\ Q[L] \in Seq(Thread)
  BY DEF Lists
<1>2. 0 \in 0 .. Len(Q[L]) /\ h.next[HeadOf(L)] = Nth(L, Q[L], 0 + 1)
  <2>1. 0 \in 0 .. Len(Q[L]) /\ Nth(L, Q[L], 0) = HeadOf(L)
    BY <1>1, NthFacts
  <2> QED BY <1>1, <2>1 DEF IsList
<1>3. <<t>> \o Q[L] = Insert(Q[L], 0, t)
  BY <1>1, SequenceForms
<1>4. ListPush(h, L, t) = ListInsert(h, Nth(L, Q[L], 0 + 1), t)
  BY <1>2 DEF ListPush
<1> DEFINE R == [Q EXCEPT ![L] = <<t>> \o Q[L]]
           g == ListPush(h, L, t)
<1>5. Grown(h, Q, L, 0, t, g, R) /\ R[L] = <<t>> \o Q[L]
  BY <1>3, <1>4 DEF Grown, Lists
<1> HIDE DEF R, g
<1>6. Lists(g, R) /\ Gains(Q, R, L, t)
  BY <1>2, <1>5, InsertLists
<1> QED BY <1>6 DEF R, g

(* g is h, and R is Q, with the k-th thread of list L removed. *)
Shrunk(h, Q, L, k, g, R) ==
  /\ g = ListRemove(h, Q[L][k])
  /\ R = [Q EXCEPT ![L] = Delete(Q[L], k)]

(* listRemove of a thread that is on the list. *)
LEMMA RemoveLists ==
  ASSUME NEW h, NEW Q, Lists(h, Q), NEW L \in ListId, NEW k \in 1 .. Len(Q[L]),
         NEW g, NEW R, Shrunk(h, Q, L, k, g, R)
  PROVE  Lists(g, R) /\ Loses(Q, R, L, Q[L][k])
<1> DEFINE r == Delete(Q[L], k)
<1>1. R = [Q EXCEPT ![L] = r] /\ g = ListRemove(h, Q[L][k])
  BY DEF Shrunk
<1>2. /\ HeapOK(h) /\ Q \in [ListId -> Seq(Thread)]
      /\ \A M \in ListId : IsList(h, M, Q[M])
      /\ \A M, N \in ListId : M # N => Members(Q[M]) \cap Members(Q[N]) = {}
  BY DEF Lists
<1>3. HeapOK(g) /\ IsList(g, L, r)
  BY <1>1, <1>2, DeleteList
<1>4. Deleted(L, Q[L], k, r)
  BY <1>2, DeleteFacts
<1>5. ASSUME NEW M \in ListId \ {L} PROVE IsList(g, M, Q[M])
  BY <1>1, <1>2, DeleteList
<1> HIDE DEF r
<1>6. Members(r) = Members(Q[L]) \ {Q[L][k]} /\ r \in Seq(Thread)
  BY <1>4 DEF Deleted
<1>7. R \in [ListId -> Seq(Thread)] /\ \A M \in ListId : R[M] = IF M = L THEN r ELSE Q[M]
  BY <1>1, <1>2, <1>6
<1>8. \A M, N \in ListId : M # N => Members(R[M]) \cap Members(R[N]) = {}
  BY <1>2, <1>6, <1>7
<1>9. \A M \in ListId : IsList(g, M, R[M])
  BY <1>3, <1>5, <1>7
<1> QED BY <1>3, <1>6, <1>7, <1>8, <1>9 DEF Lists, Loses

(* listPop of a list that is not empty. *)
LEMMA PopLists ==
  ASSUME NEW h, NEW Q, Lists(h, Q), NEW L \in ListId, Len(Q[L]) # 0
  PROVE  /\ ListFirst(h, L) = Q[L][1] /\ Q[L][1] \in Thread /\ Q[L][1] \in Members(Q[L])
         /\ Lists(ListRemove(h, Q[L][1]), [Q EXCEPT ![L] = Tail(Q[L])])
         /\ Loses(Q, [Q EXCEPT ![L] = Tail(Q[L])], L, Q[L][1])
<1>1. HeapOK(h) /\ IsList(h, L, Q[L]) /\ Q[L] \in Seq(Thread)
  BY DEF Lists
<1>2. 1 \in 1 .. Len(Q[L]) /\ ListFirst(h, L) = Q[L][1] /\ Q[L][1] \in Thread
  BY <1>1, TestsOfList
<1>3. Delete(Q[L], 1) = Tail(Q[L])
  BY <1>1, <1>2, SequenceForms
<1>4. Q[L][1] \in Members(Q[L])
  BY <1>2 DEF Members
<1> DEFINE R == [Q EXCEPT ![L] = Tail(Q[L])]
           g == ListRemove(h, Q[L][1])
<1>5. Shrunk(h, Q, L, 1, g, R) /\ R[L] = Tail(Q[L])
  BY <1>3 DEF Shrunk, Lists
<1> HIDE DEF R, g
<1>6. Lists(g, R) /\ Loses(Q, R, L, Q[L][1])
  BY <1>2, <1>5, RemoveLists
<1> QED BY <1>2, <1>4, <1>5, <1>6 DEF R, g

-----------------------------------------------------------------------------
(***************************************************************************)
(* Lists and statuses of threads agree: the ready list has those that are  *)
(* TASK_READY, and TASK_RUNNING is the thread on the CPU alone.            *)
(***************************************************************************)
Agree(Q) == /\ Lists(heap, Q)
            /\ status \in [Thread -> Status] /\ cur \in Thread
            /\ \A t \in Thread : status[t] = "ready" <=> t \in Members(Q[threadReadyList])
            /\ \A t \in Thread : status[t] = "running" => t = cur

(* Only the ready list differs: in R it is r. *)
OnlyReady(Q, R, r) == R = [Q EXCEPT ![threadReadyList] = r]

(* Then all the waiters lists are as they were. *)
LEMMA WaitListsKept ==
  ASSUME NEW h, NEW Q, Lists(h, Q), NEW r, NEW R, OnlyReady(Q, R, r)
  PROVE  R[threadReadyList] = r /\ \A L \in WaitList : R[L] = Q[L]
<1>1. Q \in [ListId -> Seq(Thread)] /\ threadReadyList \in ListId
      /\ \A L \in WaitList : L \in ListId /\ L # threadReadyList
  BY ThreadAssumption DEF Lists, ListId
<1> QED BY <1>1 DEF OnlyReady

(* The tests of a list, one among many. *)
LEMMA TestsOfLists ==
  ASSUME NEW h, NEW Q, Lists(h, Q), NEW L \in ListId
  PROVE  /\ \A t \in Thread : ListExist(h, L, t) <=> t \in Members(Q[L])
         /\ \A t \in Thread : ~ Stray(h, L, t)
         /\ ListEmpty(h, L) <=> Len(Q[L]) = 0
<1>1. HeapOK(h) /\ IsList(h, L, Q[L])
  BY DEF Lists
<1> QED BY <1>1, TestsOfList

(* The first thread of a list that is not empty. *)
LEMMA FirstOfLists ==
  ASSUME NEW h, NEW Q, Lists(h, Q), NEW L \in ListId, Len(Q[L]) # 0
  PROVE  ListFirst(h, L) = Q[L][1] /\ Q[L][1] \in Thread
<1>1. HeapOK(h) /\ IsList(h, L, Q[L])
  BY DEF Lists
<1> QED BY <1>1, TestsOfList

(* The end of schedule: the first thread of the ready list gets the CPU. *)
LEMMA SwitchLists ==
  ASSUME NEW h, NEW Q, Lists(h, Q), NEW st \in [Thread -> Status], cur \in Thread,
         \A t \in Thread : st[t] = "ready" <=> t \in Members(Q[threadReadyList]),
         \A t \in Thread : st[t] # "running",
         Len(Q[threadReadyList]) # 0, cur' = ListFirst(h, threadReadyList),
         heap' = ListRemove(h, cur'), status' = [st EXCEPT ![cur'] = "running"]
  PROVE  /\ \E R : Agree(R)' /\ OnlyReady(Q, R, Tail(Q[threadReadyList]))
         /\ cur' \in Thread /\ st[cur'] = "ready"
         /\ \A t \in Thread : status'[t] = IF t = cur' THEN "running" ELSE st[t]
<1> DEFINE L == threadReadyList
           R == [Q EXCEPT ![L] = Tail(Q[L])]
<1>1. /\ cur' = Q[L][1] /\ cur' \in Thread /\ Lists(heap', R)
      /\ Loses(Q, R, L, cur')
  <2>1. L \in ListId
    BY NodeFacts
  <2>2. ListFirst(h, L) = Q[L][1] /\ Q[L][1] \in Thread
    BY <2>1, FirstOfLists
  <2>3. Lists(ListRemove(h, Q[L][1]), R) /\ Loses(Q, R, L, Q[L][1])
    BY <2>1, PopLists
  <2> HIDE DEF R
  <2> QED BY <2>2, <2>3
<1>2. Q \in [ListId -> Seq(Thread)] /\ L \in ListId /\ L \notin WaitList
      /\ WaitList \subseteq ListId
  BY ThreadAssumption DEF Lists, ListId
<1>3. OnlyReady(Q, R, Tail(Q[L]))
  BY DEF OnlyReady
<1>4. /\ status' \in [Thread -> Status]
      /\ \A t \in Thread : status'[t] = IF t = cur' THEN "running" ELSE st[t]
  BY <1>1 DEF Status
<1> HIDE DEF R
<1>5. \A t \in Thread : status'[t] = "ready" <=> t \in Members(R[L])
  BY <1>1, <1>4 DEF Loses
<1>6. \A t \in Thread : status'[t] = "running" => t = cur'
  BY <1>4
<1>7. Agree(R)'
  BY <1>1, <1>4, <1>5, <1>6 DEF Agree
<1>8. st[cur'] = "ready"
  <2>1. Q[L][1] \in Members(Q[L])
    BY NodeFacts, PopLists
  <2> QED BY <1>1, <2>1
<1> QED BY <1>1, <1>3, <1>4, <1>7, <1>8

(* What schedule of the statuses st leaves behind.                         *)
Switched(Q, st) ==
  /\ panic' \in {"none", "readyListEmpty"}
  /\ panic' = "none" => cur' \in Thread /\ (cur' = cur \/ status[cur'] = "ready")
  /\ panic' # "none" => cur' = cur /\ Len(Q[threadReadyList]) = 0 /\ st[cur] # "running"
  /\ \A t \in Thread :
       status'[t] = IF panic' = "none" /\ t = cur' THEN "running"
                    ELSE IF t = cur /\ st[t] = "running" THEN "ready" ELSE st[t]

AfterSchedule(Q, st) ==
  LET ready == Q[threadReadyList]
  IN  IF panic' # "none" THEN ready
      ELSE IF st[cur] = "running" THEN Tail(Append(ready, cur)) ELSE Tail(ready)

(***************************************************************************)
(* schedule of the thread on the CPU, which yields or has just blocked:    *)
(* its assertions hold, except that nobody may be ready.                   *)
(***************************************************************************)
LEMMA ScheduleLists ==
  ASSUME NEW Q, Agree(Q), status[cur] # "ready",
         NEW st, \/ st = [status EXCEPT ![cur] = "blocked"]
                 \/ st = status /\ status[cur] = "running" /\ OnNone(Q, cur),
         schedule(heap, st)
  PROVE  Switched(Q, st) /\ \E R : Agree(R)' /\ OnlyReady(Q, R, AfterSchedule(Q, st))
<1> DEFINE L == threadReadyList
<1>1. /\ Lists(heap, Q) /\ cur \in Thread /\ status \in [Thread -> Status] /\ L \in ListId
      /\ \A t \in Thread : status[t] = "ready" <=> t \in Members(Q[L])
      /\ \A t \in Thread : status[t] = "running" => t = cur
      /\ Q \in [ListId -> Seq(Thread)]
  BY NodeFacts DEF Agree, Lists
<1>2. CASE st = [status EXCEPT ![cur] = "blocked"]
  <2>1. /\ st \in [Thread -> Status] /\ st[cur] = "blocked"
        /\ \A t \in Thread : st[t] = IF t = cur THEN "blocked" ELSE status[t]
    BY <1>1, <1>2 DEF Status
  <2>2. /\ \A t \in Thread : st[t] = "ready" <=> t \in Members(Q[L])
        /\ \A t \in Thread : st[t] # "running"
    BY <1>1, <2>1
  <2>3. CASE Len(Q[L]) = 0
    <3>1. ListEmpty(heap, L)
      BY <1>1, <2>3, TestsOfLists
    <3>2. panic' = "readyListEmpty" /\ heap' = heap /\ status' = st /\ cur' = cur
      BY <2>1, <3>1 DEF schedule
    <3>3. Agree(Q)'
      BY <1>1, <2>1, <2>2, <3>2 DEF Agree
    <3>4. st[cur] # "running"
      BY <2>1
    <3>5. Switched(Q, st)
      BY <1>2, <2>1, <2>3, <3>2, <3>4 DEF Switched
    <3>6. OnlyReady(Q, Q, AfterSchedule(Q, st))
      BY <1>1, <3>2 DEF OnlyReady, AfterSchedule
    <3> QED BY <3>3, <3>5, <3>6
  <2>4. CASE Len(Q[L]) # 0
    <3>1. ~ ListEmpty(heap, L) /\ ListFirst(heap, L) \in Thread
      <4>1. ~ ListEmpty(heap, L)
        BY <1>1, <2>4, TestsOfLists
      <4>2. ListFirst(heap, L) = Q[L][1] /\ Q[L][1] \in Thread
        BY <1>1, <2>4, FirstOfLists
      <4> QED BY <4>1, <4>2
    <3>2. /\ panic' = "none" /\ cur' = ListFirst(heap, L)
          /\ heap' = ListRemove(heap, cur') /\ status' = [st EXCEPT ![cur'] = "running"]
      BY <2>1, <3>1 DEF schedule
    <3>3. /\ \E R : Agree(R)' /\ OnlyReady(Q, R, Tail(Q[L]))
          /\ cur' \in Thread /\ st[cur'] = "ready"
          /\ \A t \in Thread : status'[t] = IF t = cur' THEN "running" ELSE st[t]
      BY <1>1, <2>1, <2>2, <2>4, <3>2, SwitchLists
    <3>4. st[cur] # "running"
      BY <2>1
    <3>5. Switched(Q, st)
      BY <2>1, <3>2, <3>3, <3>4 DEF Switched
    <3>6. AfterSchedule(Q, st) = Tail(Q[L])
      BY <3>2, <3>4 DEF AfterSchedule
    <3> QED BY <3>3, <3>5, <3>6
  <2> QED BY <2>3, <2>4
<1>3. CASE st = status /\ status[cur] = "running" /\ OnNone(Q, cur)
  <2> DEFINE h1 == ListAppend(heap, L, cur)
             Q1 == [Q EXCEPT ![L] = Append(Q[L], cur)]
             st1 == [status EXCEPT ![cur] = "ready"]
  <2>1. Lists(h1, Q1) /\ Gains(Q, Q1, L, cur)
    BY <1>1, <1>3, AppendLists
  <2>2. /\ Q1[L] = Append(Q[L], cur) /\ Len(Q1[L]) # 0
        /\ \A M \in WaitList : Q1[M] = Q[M]
    BY <1>1, ThreadAssumption DEF ListId
  <2>3. /\ st1 \in [Thread -> Status]
        /\ \A t \in Thread : st1[t] = IF t = cur THEN "ready" ELSE status[t]
    BY <1>1 DEF Status
  <2>4. ~ ListExist(heap, L, cur) /\ ~ Stray(heap, L, cur)
    BY <1>1, <1>3, TestsOfLists DEF OnNone
  <2> HIDE DEF h1, Q1
  <2>5. ~ ListEmpty(h1, L) /\ ListFirst(h1, L) \in Thread
    <3>1. ~ ListEmpty(h1, L)
      BY <1>1, <2>1, <2>2, TestsOfLists
    <3>2. ListFirst(h1, L) = Q1[L][1] /\ Q1[L][1] \in Thread
      BY <1>1, <2>1, <2>2, FirstOfLists
    <3> QED BY <3>1, <3>2
  <2>6. /\ panic' = "none" /\ cur' = ListFirst(h1, L)
        /\ heap' = ListRemove(h1, cur') /\ status' = [st1 EXCEPT ![cur'] = "running"]
    BY <1>3, <2>4, <2>5 DEF schedule, h1
  <2> HIDE DEF st1
  <2>7. /\ \A t \in Thread : st1[t] = "ready" <=> t \in Members(Q1[L])
        /\ \A t \in Thread : st1[t] # "running"
    BY <1>1, <2>1, <2>3 DEF Gains
  <2>8. /\ \E R : Agree(R)' /\ OnlyReady(Q1, R, Tail(Q1[L]))
        /\ cur' \in Thread /\ st1[cur'] = "ready"
        /\ \A t \in Thread : status'[t] = IF t = cur' THEN "running" ELSE st1[t]
    BY <1>1, <2>1, <2>2, <2>3, <2>6, <2>7, SwitchLists
  <2>9. Switched(Q, st)
    BY <1>3, <2>3, <2>6, <2>8 DEF Switched
  <2>10. AfterSchedule(Q, st) = Tail(Q1[L])
    BY <1>3, <2>2, <2>6 DEF AfterSchedule
  <2>11. ASSUME NEW R, OnlyReady(Q1, R, Tail(Q1[L])) PROVE OnlyReady(Q, R, Tail(Q1[L]))
    BY <2>11 DEF OnlyReady, Q1
  <2> QED BY <2>8, <2>9, <2>10, <2>11
<1> QED BY <1>2, <1>3

(* A thread that is blocked does not get the CPU back from schedule at once. *)
LEMMA LeavesCpu ==
  ASSUME NEW Q, Agree(Q), status[cur] # "ready", NEW st, st[cur] # "running",
         schedule(heap, st), panic' = "none"
  PROVE  cur' # cur
<1>1. Lists(heap, Q) /\ threadReadyList \in ListId
  BY NodeFacts DEF Agree
<1>2. ~ ListEmpty(heap, threadReadyList) /\ cur' = ListFirst(heap, threadReadyList)
  BY DEF schedule
<1>3. Len(Q[threadReadyList]) # 0
  BY <1>1, <1>2, TestsOfLists
<1>4. cur' \in Thread /\ cur' \in Members(Q[threadReadyList])
  BY <1>1, <1>2, <1>3, PopLists
<1> QED BY <1>4 DEF Agree

(* threadStart: a new thread is on no list, and is appended. *)
LEMMA StartLists ==
  ASSUME NEW Q, Agree(Q), NEW t \in Thread, OnNone(Q, t), threadStart(t)
  PROVE  /\ panic' = "none" /\ cur' = cur /\ status'[t] = "ready" /\ status[t] = "unborn"
         /\ \A u \in Thread : u # t => status'[u] = status[u]
         /\ \E R : Agree(R)' /\ OnlyReady(Q, R, Append(Q[threadReadyList], t))
<1> DEFINE L == threadReadyList
           R == [Q EXCEPT ![L] = Append(Q[L], t)]
<1>1. /\ Lists(heap, Q) /\ cur \in Thread /\ status \in [Thread -> Status] /\ L \in ListId
      /\ \A u \in Thread : status[u] = "ready" <=> u \in Members(Q[L])
      /\ \A u \in Thread : status[u] = "running" => u = cur
      /\ Q \in [ListId -> Seq(Thread)]
  BY NodeFacts DEF Agree, Lists
<1>2. ~ ListExist(heap, L, t)
  BY <1>1, TestsOfLists DEF OnNone
<1>3. /\ panic' = "none" /\ heap' = ListAppend(heap, L, t) /\ cur' = cur
      /\ status' = [status EXCEPT ![t] = "ready"] /\ status[t] = "unborn"
  BY <1>2 DEF threadStart
<1>4. Lists(heap', R) /\ Gains(Q, R, L, t)
  BY <1>1, <1>3, AppendLists
<1>5. OnlyReady(Q, R, Append(Q[L], t))
  BY DEF OnlyReady
<1>6. /\ status' \in [Thread -> Status]
      /\ \A u \in Thread : status'[u] = IF u = t THEN "ready" ELSE status[u]
  BY <1>1, <1>3 DEF Status
<1> HIDE DEF R
<1>7. \A u \in Thread : status'[u] = "ready" <=> u \in Members(R[L])
  BY <1>1, <1>4, <1>6 DEF Gains
<1>8. \A u \in Thread : status'[u] = "running" => u = cur'
  BY <1>1, <1>3, <1>6
<1>9. Agree(R)'
  BY <1>1, <1>3, <1>4, <1>6, <1>7, <1>8 DEF Agree
<1> QED BY <1>3, <1>5, <1>6, <1>9

AfterUnblock(Q, p) ==
  IF panic' = "none" THEN <<p>> \o Q[threadReadyList] ELSE Q[threadReadyList]

(* threadUnblock of a thread that its waker has taken off all lists: the   *)
(* assertions hold if it is blocked.                                       *)
LEMMA UnblockLists ==
  ASSUME NEW Q, Agree(Q), NEW p \in Thread, OnNone(Q, p), threadUnblock(p)
  PROVE  /\ panic' = IF status[p] = "blocked" THEN "none" ELSE "notBlocked"
         /\ cur' = cur
         /\ \A u \in Thread : u # p => status'[u] = status[u]
         /\ \E R : Agree(R)' /\ OnlyReady(Q, R, AfterUnblock(Q, p))
<1> DEFINE L == threadReadyList
           R == [Q EXCEPT ![L] = <<p>> \o Q[L]]
<1>1. /\ Lists(heap, Q) /\ cur \in Thread /\ status \in [Thread -> Status] /\ L \in ListId
      /\ \A u \in Thread : status[u] = "ready" <=> u \in Members(Q[L])
      /\ \A u \in Thread : status[u] = "running" => u = cur
      /\ Q \in [ListId -> Seq(Thread)]
  BY NodeFacts DEF Agree, Lists
<1>2. ~ ListExist(heap, L, p) /\ ~ Stray(heap, L, p)
  BY <1>1, TestsOfLists DEF OnNone
<1>3. CASE status[p] # "blocked"
  <2>1. panic' = "notBlocked" /\ heap' = heap /\ status' = status /\ cur' = cur
    BY <1>3 DEF threadUnblock
  <2>2. Agree(Q)'
    BY <2>1, <1>1 DEF Agree
  <2>3. OnlyReady(Q, Q, AfterUnblock(Q, p))
    BY <1>1, <2>1 DEF OnlyReady, AfterUnblock
  <2> QED BY <1>3, <2>1, <2>2, <2>3
<1>4. CASE status[p] = "blocked"
  <2>1. /\ panic' = "none" /\ heap' = ListPush(heap, L, p) /\ cur' = cur
        /\ status' = [status EXCEPT ![p] = "ready"]
    BY <1>2, <1>4 DEF threadUnblock
  <2>2. Lists(heap', R) /\ Gains(Q, R, L, p)
    BY <1>1, <2>1, PushLists
  <2>3. OnlyReady(Q, R, AfterUnblock(Q, p))
    BY <2>1 DEF OnlyReady, AfterUnblock
  <2>4. /\ status' \in [Thread -> Status]
        /\ \A u \in Thread : status'[u] = IF u = p THEN "ready" ELSE status[u]
    BY <1>1, <2>1 DEF Status
  <2> HIDE DEF R
  <2>5. \A u \in Thread : status'[u] = "ready" <=> u \in Members(R[L])
    BY <1>1, <2>2, <2>4 DEF Gains
  <2>6. \A u \in Thread : status'[u] = "running" => u = cur'
    BY <1>1, <2>1, <2>4
  <2>7. Agree(R)'
    BY <1>1, <2>1, <2>2, <2>4, <2>5, <2>6 DEF Agree
  <2> QED BY <1>4, <2>1, <2>3, <2>4, <2>7
<1> QED BY <1>3, <1>4

(* threadSupportInit leaves the lists empty. *)
LEMMA InitLists ==
  ASSUME heap = ListInit(ListId, Thread), cur = Main,
         status = [t \in Thread |-> IF t = Main THEN "running" ELSE "unborn"]
  PROVE  Agree([L \in ListId |-> <<>>])
<1> DEFINE Q == [L \in ListId |-> <<>>]
<1>1. /\ heap.next = [n \in Node |-> IF \E L \in ListId : n = HeadOf(L)
                                     THEN TailOf(n[1]) ELSE NULL]
      /\ heap.prev = [n \in Node |-> IF \E L \in ListId : n = TailOf(L)
                                     THEN HeadOf(n[1]) ELSE NULL]
  BY DEF ListInit, Node, HeadOf, TailOf
<1>2. ASSUME NEW L \in ListId
      PROVE  /\ HeadOf(L) \in Node /\ TailOf(L) \in Node
             /\ HeadOf(L)[1] = L /\ TailOf(L)[1] = L
  BY DEF Node, Sentinels, HeadOf, TailOf
<1>3. HeapOK(heap)
  <2>1. ASSUME NEW n \in Node
        PROVE  heap.next[n] \in Node \cup {NULL} /\ heap.prev[n] \in Node \cup {NULL}
    BY <1>1, <1>2
  <2> QED BY <1>1, <2>1 DEF HeapOK
<1>4. ASSUME NEW L \in ListId PROVE IsList(heap, L, <<>>)
  <2>1. heap.next[HeadOf(L)] = TailOf(L) /\ heap.prev[TailOf(L)] = HeadOf(L)
    BY <1>1, <1>2
  <2>2. Nth(L, <<>>, 0) = HeadOf(L) /\ Nth(L, <<>>, 1) = TailOf(L)
    BY DEF Nth
  <2>3. <<>> \in Seq(Thread) /\ Len(<<>>) = 0
    OBVIOUS
  <2> HIDE DEF Nth
  <2> QED BY <2>1, <2>2, <2>3 DEF IsList
<1>5. Q \in [ListId -> Seq(Thread)] /\ \A L \in ListId : Q[L] = <<>>
  OBVIOUS
<1>6. Members(<<>>) = {}
  BY DEF Members
<1> HIDE DEF Q
<1>7. Lists(heap, Q)
  BY <1>3, <1>4, <1>5, <1>6 DEF Lists
<1>8. threadReadyList \in ListId /\ Main \in Thread
  BY NodeFacts, ThreadAssumption
<1>9. Agree(Q)
  BY <1>5, <1>6, <1>7, <1>8 DEF Agree, Status
<1> QED BY <1>9 DEF Q
=============================================================================
