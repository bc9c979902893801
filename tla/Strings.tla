-------------------------------- MODULE Strings --------------------------------
(***************************************************************************)
(* lib/string.c.  Memory is a sequence of bytes and a pointer a place in   *)
(* it; a C string ends at the first 0.  Strings and memory are compared as *)
(* the code compares them: char is signed, uint8 is not.                   *)
(***************************************************************************)
EXTENDS Integers, Sequences, FiniteSets, FiniteSetsExt

CONSTANTS Byte,          \* bound: the bytes that strings are made of
          MaxLength      \* bound: characters of a string

ASSUME StringsAssumption == /\ Byte \subseteq 0 .. 255 /\ 0 \in Byte
                            /\ MaxLength \in Nat

NoPlace == 0     \* NULL: no place in a sequence

char(byte) == IF byte >= 128 THEN byte - 256 ELSE byte

(* for (; *str; ++str): the place of the terminator. *)
End(m, str) == LET end[p \in str .. Len(m)] == IF m[p] = 0 THEN p ELSE end[p + 1]
               IN  end[str]

strlen(m, str) == End(m, str) - str

memset(m, dst, val, size) ==
  [p \in DOMAIN m |-> IF p \in dst .. dst + size - 1 THEN val ELSE m[p]]

memcpy(m, dst, s, src, size) ==
  [p \in DOMAIN m |-> IF p \in dst .. dst + size - 1 THEN s[src + p - dst] ELSE m[p]]

(* Mutant: the comparison goes on after a difference. *)
memcmpLast(m, a, b, size) ==
  LET cmp[i \in 0 .. size] ==
        IF i = 0 THEN 0
        ELSE IF m[a + i - 1] > m[b + i - 1] THEN 1
        ELSE IF m[a + i - 1] < m[b + i - 1] THEN -1 ELSE cmp[i - 1]
  IN  cmp[size]

memcmp(m, a, b, size) ==
  LET cmp[i \in 0 .. size] ==
        IF i = size THEN 0
        ELSE IF m[a + i] > m[b + i] THEN 1
        ELSE IF m[a + i] < m[b + i] THEN -1 ELSE cmp[i + 1]
  IN  cmp[0]

(* "not include '\0'": the terminator is not copied. *)
strcpy(m, dst, s, src) == memcpy(m, dst, s, src, strlen(s, src))

strcat(m, dst, s, src) ==
  LET joined == strcpy(m, End(m, dst), s, src)
  IN  [joined EXCEPT ![End(m, dst) + strlen(s, src)] = 0]

strcmp(m, str1, str2) ==
  LET stop[i \in 0 .. Len(m) - str2] ==
        IF m[str1 + i] # 0 /\ m[str1 + i] = m[str2 + i] THEN stop[i + 1] ELSE i
      c1 == m[str1 + stop[0]]
      c2 == m[str2 + stop[0]]
  IN  IF c1 = 0 /\ c2 = 0 THEN 0 ELSE IF char(c1) > char(c2) THEN 1 ELSE -1

(* *str == ch compares a signed char with a uint8. *)
strchr(m, str, ch) ==
  LET at[p \in str .. Len(m)] == IF m[p] = 0 THEN NoPlace
                                 ELSE IF char(m[p]) = ch THEN p ELSE at[p + 1]
  IN  at[str]

strrchr(m, str, ch) ==
  LET last[p \in str - 1 .. Len(m)] ==
        IF p < str THEN NoPlace ELSE IF char(m[p]) = ch THEN p ELSE last[p - 1]
  IN  last[End(m, str) - 1]

strchrs(m, str, ch) ==
  LET cnt[p \in str - 1 .. Len(m)] ==
        IF p < str THEN 0 ELSE cnt[p - 1] + (IF char(m[p]) = ch THEN 1 ELSE 0)
  IN  cnt[End(m, str) - 1]

-----------------------------------------------------------------------------
Text == UNION {[1 .. n -> Byte \ {0}] : n \in 0 .. MaxLength}

C(text) == Append(text, 0)

(* The text that a C string holds. *)
Held(m, str) == SubSeq(m, str, Min({p \in str .. Len(m) : m[p] = 0}) - 1)

FirstDifference(s, t) == Min({i \in DOMAIN s \cap DOMAIN t : s[i] # t[i]})

(* Places of ch in a text, if it is one that a char can have. *)
Places(s, ch) == {i \in DOMAIN s : s[i] = ch /\ ch < 128}

(***************************************************************************)
(* The comments of string.c, of every two strings, next to each other in   *)
(* memory: strcmp is 0 of equal strings only, else it tells which is less  *)
(* as signed characters go, a string before its continuations if those are *)
(* ASCII; memcmp goes by the first different byte, unsigned; the others    *)
(* find the first and the last place and the number of an ASCII character; *)
(* strcat leaves one string, whatever was behind the first.                *)
(***************************************************************************)
ComparesRight(s, t) ==
  LET m == C(s) \o C(t)
      r == strcmp(m, 1, Len(s) + 2)
      n == IF Len(s) < Len(t) THEN Len(s) ELSE Len(t)
  IN  /\ r = 0 <=> s = t
      /\ r = - strcmp(C(t) \o C(s), 1, Len(t) + 2)
      /\ s # t => LET i == FirstDifference(C(s), C(t))
                  IN  r = IF char(C(s)[i]) < char(C(t)[i]) THEN -1 ELSE 1
      /\ LET p == SubSeq(s, 1, n)
             q == SubSeq(t, 1, n)
         IN  memcmp(m, 1, Len(s) + 2, n) =
               IF p = q THEN 0
               ELSE IF s[FirstDifference(p, q)] < t[FirstDifference(p, q)]
               THEN -1 ELSE 1

FindsRight(s, ch) ==
  LET places == Places(s, ch)
  IN  /\ strchr(C(s), 1, ch)  = IF places = {} THEN NoPlace ELSE Min(places)
      /\ strrchr(C(s), 1, ch) = IF places = {} THEN NoPlace ELSE Max(places)
      /\ strchrs(C(s), 1, ch) = Cardinality(places)

JoinsRight(s, t, byte) ==
  LET room == memset(C(s) \o C(t), Len(s) + 2, byte, Len(t))
  IN  /\ Held(strcat(room, 1, C(t), 1), 1) = s \o t
      /\ strlen(strcat(room, 1, C(t), 1), 1) = Len(s) + Len(t)

StringsRight == \A s \in Text : /\ \A t \in Text : ComparesRight(s, t)
                                /\ \A t \in Text, byte \in Byte : JoinsRight(s, t, byte)
                                /\ \A ch \in Byte \ {0} : FindsRight(s, ch)
=============================================================================
