--------------------------------- MODULE Stdio ---------------------------------
(***************************************************************************)
(* lib/stdio.c and lib/kernel/printC.c: the formatting of printf and       *)
(* sprintf, and putint.  An int has Nibbles hexadecimal digits; what is    *)
(* printed goes to a buffer whose bytes are whatever they were.            *)
(***************************************************************************)
EXTENDS Strings, SequencesExt

CONSTANTS Nibbles,       \* 8
          MaxItems       \* bound: directives and other characters of a format

ASSUME StdioAssumption == Nibbles \in Nat \ {0} /\ MaxItems \in Nat

Word  == 16^Nibbles
uint32(n) == n % Word

PLAIN == 0
PERCENT == 37
MINUS == 45
ZERO == 48
UPPER_A == 65
LETTER_c == 99
LETTER_d == 100
LETTER_s == 115
LETTER_x == 120

Digit(digit, ten) == IF digit < 10 THEN digit + ZERO ELSE digit - 10 + ten

(* itoa calls itself for all digits but the last. *)
itoa(v, base) ==
  LET text[n \in 0 .. v] ==
        LET rest == n \div base
            last == <<Digit(n % base, UPPER_A)>>
        IN  IF rest # 0 THEN text[rest] \o last ELSE last
  IN  text[v]

(* putint: eight digits, of which those before the first that is not 0 *)
(* are left out, unless all are; here the letters are small.           *)
putint(num) ==
  LET digit(i) == (num \div 16^(Nibbles - i)) % 16
      leading  == {i \in 1 .. Nibbles : \A k \in 1 .. i : digit(k) = 0}
      shown    == Nibbles - Cardinality(leading)
  IN  IF shown = 0 THEN <<ZERO>>
      ELSE [i \in 1 .. shown |-> Digit(digit(Nibbles - shown + i), 97)]

-----------------------------------------------------------------------------
(***************************************************************************)
(* The state of vsprintf: where it is in the format, the arguments that    *)
(* are left, the buffer and where it goes on in it.  An int argument is a  *)
(* number, one of %s a C string.                                           *)
(***************************************************************************)
Write(buf, at, text) == memcpy(buf, at, text, 1, Len(text))

Put(s, text, skip) == [s EXCEPT !.buf = Write(@, s.at, text), !.at = @ + Len(text),
                                !.format = @ + skip]

PutArg(s, text) == [Put(s, text, 2) EXCEPT !.ap = Tail(@)]

Signed(n) == IF n < 0 THEN <<MINUS>> \o itoa(uint32(-n), 10) ELSE itoa(n, 10)

(* One turn of the loop.  After % and a character that is no directive,    *)
(* the loop goes on at that character.                                     *)
Turn(format, s) ==
  LET here == format[s.format]
      next == format[s.format + 1]
      arg  == Head(s.ap)
  IN  CASE here # PERCENT    -> Put(s, <<here>>, 1)
        [] here = PERCENT /\ next = LETTER_x -> PutArg(s, itoa(uint32(arg), 16))
        [] here = PERCENT /\ next = LETTER_d -> PutArg(s, Signed(arg))
        [] here = PERCENT /\ next = LETTER_c -> PutArg(s, <<arg>>)
        [] here = PERCENT /\ next = LETTER_s ->
             [s EXCEPT !.buf = strcpy(@, s.at, arg, 1), !.at = @ + strlen(arg, 1),
                       !.format = @ + 2, !.ap = Tail(@)]
        [] OTHER -> Put(s, <<>>, 1)

(* Mutant: the string is not ended. *)
vsprintfNoEnd(buf, format, ap) ==
  LET turns[n \in 0 .. Len(format)] ==
        IF n = 0 THEN [format |-> 1, ap |-> ap, buf |-> buf, at |-> 1]
        ELSE LET s == turns[n - 1]
             IN  IF format[s.format] = 0 THEN s ELSE Turn(format, s)
      last == turns[Len(format)]
  IN  [buf |-> last.buf, ret |-> last.at - 1, ap |-> last.ap]

(* The loop ends at the terminator of the format. *)
vsprintf(buf, format, ap) ==
  LET turns[n \in 0 .. Len(format)] ==
        IF n = 0 THEN [format |-> 1, ap |-> ap, buf |-> buf, at |-> 1]
        ELSE LET s == turns[n - 1]
             IN  IF format[s.format] = 0 THEN s ELSE Turn(format, s)
      last == turns[Len(format)]
  IN  [buf |-> [last.buf EXCEPT ![last.at] = 0], ret |-> last.at - 1, ap |-> last.ap]

-----------------------------------------------------------------------------
(* The number that digits of a base stand for. *)
DigitValue(byte) == IF byte >= 97 THEN byte - 87
                    ELSE IF byte >= UPPER_A THEN byte - 55 ELSE byte - ZERO
Value(text, base) == FoldLeft(LAMBDA v, byte : v * base + DigitValue(byte), 0, text)

(***************************************************************************)
(* itoa and putint write every number once: the digits stand for it, are   *)
(* those of the base, and do not begin with a 0 that is not the only one.  *)
(***************************************************************************)
Numeral(text, v, base) ==
  /\ Value(text, base) = v
  /\ \A i \in DOMAIN text : DigitValue(text[i]) \in 0 .. base - 1
  /\ text[1] = ZERO => Len(text) = 1

NumbersRight == \A v \in 0 .. Word - 1 : /\ Numeral(itoa(v, 10), v, 10)
                                         /\ Numeral(itoa(v, 16), v, 16)
                                         /\ Numeral(putint(v), v, 16)

(* What a format is made of: a character, or a directive with its argument. *)
Sample == {- (Word \div 2), -1, 0, 9, 10, Word \div 2 - 1}
Item == [is : {PLAIN}, arg : Byte \ {0, PERCENT}]
          \cup [is : {LETTER_x, LETTER_d}, arg : Sample]
          \cup [is : {LETTER_c}, arg : Byte \ {0}]
          \cup [is : {LETTER_s}, arg : {C(text) : text \in Text}]

Source(item) == IF item.is = PLAIN THEN <<item.arg>> ELSE <<PERCENT, item.is>>

Expected(item) ==
  CASE item.is = LETTER_s -> Front(item.arg)
    [] item.is = LETTER_x -> itoa(item.arg % Word, 16)
    [] item.is = LETTER_d -> IF item.arg < 0 THEN <<MINUS>> \o itoa(- item.arg, 10)
                             ELSE itoa(item.arg, 10)
    [] OTHER              -> <<item.arg>>

(***************************************************************************)
(* vsprintf, "formats format to str": the text is that of the items in     *)
(* their order, each directive takes its own argument, the string ends     *)
(* where the count says, also in a buffer that was not clear, and nothing  *)
(* is left out, the least integer included.                                *)
(***************************************************************************)
FormatRight ==
  \A n \in 0 .. MaxItems : \A items \in [1 .. n -> Item] :
    LET format == C(FlattenSeq([i \in 1 .. n |-> Source(items[i])]))
        takes  == SelectSeq(items, LAMBDA item : item.is # PLAIN)
        text   == FlattenSeq([i \in 1 .. n |-> Expected(items[i])])
        buf    == C([p \in 1 .. Len(text) + 2 |-> MINUS])
        result == vsprintf(buf, format, [i \in 1 .. Len(takes) |-> takes[i].arg])
    IN  /\ Held(result.buf, 1) = text
        /\ result.ret = Len(text)
        /\ result.buf[Len(text) + 2] = MINUS
=============================================================================
