-------------------------------- MODULE Screen --------------------------------
(***************************************************************************)
(* lib/kernel/print.S: putchar on the text screen.  The cursor is kept by  *)
(* the graphics controller in two byte registers behind one index port, so *)
(* that putchar reads and writes it in eight steps.  A thread that prints  *)
(* holds the console lock, but the keyboard handler, which prints of keys  *)
(* it does not know, takes no lock and may come between any two steps.     *)
(***************************************************************************)
EXTENDS Integers, Sequences

CONSTANTS COLS, ROWS,      \* 80 and 25
          BASE,            \* values of a byte: 256
          SEGMENT,         \* cells in the video segment: 8192
          Char, Blank,     \* printable characters, and 0
          LF, BS,          \* line feed (or carriage return), backspace
          Unknown,         \* what the handler prints: "\nunknown key."
          MaxRows          \* bound: rows of text that are printed

SIZE == COLS * ROWS
Wide == BASE * BASE        \* values of bx
Half == Wide \div 2        \* shl bx, 1 drops the highest bit of bx

(* 2048: no cursor whose high byte is that of a cell of the screen is beyond. *)
Limit == (SIZE \div BASE + 1) * BASE

ASSUME ScreenAssumption == /\ COLS \in Nat \ {0}
                           /\ ROWS \in Nat \ {0, 1}
                           /\ BASE \in Nat \ {0, 1}
                           /\ BASE % 2 = 0
                           /\ SEGMENT \in Nat /\ Limit <= SEGMENT
                           /\ SEGMENT < Half /\ Limit + COLS < Half
                           /\ {Blank, LF, BS} \cap Char = {}
                           /\ LF # BS
                           /\ Unknown \in Seq(Char \cup {LF})

VARIABLES cells,       \* the characters in video memory
          index,       \* the register selected at port 0x3d4: 14 or 15
          cursor,      \* registers 14 and 15, the high and the low byte
          stage,       \* where putchar is, in a thread that prints
          cl, ah, bx,  \* its argument and registers
          fault,       \* a store beyond the segment, and of what
          hit,         \* history: where a handler has interrupted putchar
          paper,       \* history: all rows of the text, as on paper
          place        \* history: the row and column where it goes on

video      == <<cells, index, cursor, fault>>
screenVars == <<video, stage, cl, ah, bx, hit, paper, place>>

Cursor   == cursor[14] * BASE + cursor[15]
BlankRow == [i \in 1 .. COLS |-> Blank]

(* clearScreen, which main calls first. *)
ScreenInit == /\ cells = [i \in 0 .. SEGMENT - 1 |-> Blank]
              /\ index = 15 /\ cursor = [r \in {14, 15} |-> 0]
              /\ stage = "idle" /\ cl = Blank /\ ah = 0 /\ bx = 0
              /\ fault = "none"
              /\ hit = "nowhere"
              /\ paper = <<BlankRow>>
              /\ place = <<1, 1>>

-----------------------------------------------------------------------------
(* What putchar does to the cells c with the cursor at p.                  *)

(* Mutant: the new bottom line keeps its old characters. *)
scrollUpDirty(c) ==
  [i \in DOMAIN c |-> IF i < SIZE - COLS THEN c[i + COLS] ELSE c[i]]

scrollUp(c) ==
  [i \in DOMAIN c |-> IF i < SIZE - COLS THEN c[i + COLS]
                      ELSE IF i < SIZE THEN Blank ELSE c[i]]

(* cmp bx, 2000 and jl: as signed numbers. *)
OnScreen(p) == p < SIZE \/ p >= Half

Below(p) == (p - (p % COLS) + COLS) % Wide

(* Mutant: a line feed at the end of the screen is not noticed. *)
LineFeedPastEnd(c, p) == [cells |-> c, pos |-> Below(p)]

(* .isLineFeed: CR and LF both begin a new line. *)
LineFeed(c, p) == IF OnScreen(Below(p)) THEN [cells |-> c, pos |-> Below(p)]
                  ELSE [cells |-> scrollUp(c), pos |-> SIZE - COLS]

(* The cell that is stored to: before 0, it is the one of 65535. *)
Target(p, char) == (IF char = BS THEN p - 1 ELSE p) % Half

Putchar(c, p, char) ==
  LET t == Target(p, char)
  IN  CASE char = LF -> LineFeed(c, p)
        [] char = BS -> [cells |-> [c EXCEPT ![t] = Blank], pos |-> t]
        [] OTHER     -> LET d == [c EXCEPT ![t] = char]
                        IN  IF OnScreen(t + 1) THEN [cells |-> d, pos |-> t + 1]
                            ELSE LineFeed(d, t + 1)

Outside(p, char) == char # LF /\ Target(p, char) >= SEGMENT

(* The same text on paper. *)
Down(text) == IF text.at[1] = Len(text.rows)
              THEN [rows |-> Append(text.rows, BlankRow), at |-> <<text.at[1] + 1, 1>>]
              ELSE [text EXCEPT !.at = <<@[1] + 1, 1>>]

Typed(text, char) ==
  LET row    == text.at[1]
      column == text.at[2]
      before == IF column > 1 THEN <<row, column - 1>> ELSE <<row - 1, COLS>>
      put    == [text EXCEPT !.rows[row][column] = char]
  IN  CASE char = LF -> Down(text)
        [] char = BS -> [rows |-> [text.rows EXCEPT ![before[1]][before[2]] = Blank],
                         at |-> before]
        [] OTHER     -> IF column < COLS THEN [put EXCEPT !.at = <<row, column + 1>>]
                        ELSE Down(put)

TypedAll(text, string) ==
  LET typed[i \in 0 .. Len(string)] ==
        IF i = 0 THEN text ELSE Typed(typed[i - 1], string[i])
  IN  typed[Len(string)]

Printed       == [rows |-> paper, at |-> place]
OnPaper(text) == paper' = text.rows /\ place' = text.at

-----------------------------------------------------------------------------
(* putchar in a thread. *)
Go(from, to) == stage = from /\ fault = "none" /\ stage' = to

Begin == /\ Go("idle", "readHigh")
         /\ place[1] < MaxRows
         /\ cl' \in Char \cup {LF, BS}
         /\ index' = 14
         /\ UNCHANGED <<cells, cursor, fault, ah, bx, hit, paper, place>>

ReadHigh == /\ Go("readHigh", "selectLow")
            /\ ah' = cursor[index]
            /\ UNCHANGED <<video, cl, bx, hit, paper, place>>

Select(from, to, register) == /\ Go(from, to)
                              /\ index' = register
                              /\ UNCHANGED <<cells, cursor, fault, cl, ah, bx, hit,
                                             paper, place>>

(* ah is put together with the low byte, and not needed any more. *)
ReadLow == /\ Go("readLow", "store")
           /\ bx' = ah * BASE + cursor[index]
           /\ ah' = 0
           /\ UNCHANGED <<video, cl, hit, paper, place>>

(* The cell, and the scrolling: the loops are not split. *)
Store ==
  /\ Go("store", "selectHigh")
  /\ IF Outside(bx, cl)
     THEN /\ fault' = IF cl = BS /\ bx = 0 THEN "backspace" ELSE "beyond"
          /\ UNCHANGED <<cells, bx>>
     ELSE LET new == Putchar(cells, bx, cl)
          IN  cells' = new.cells /\ bx' = new.pos /\ UNCHANGED fault
  /\ UNCHANGED <<index, cursor, cl, ah, hit, paper, place>>

WriteHigh == /\ Go("writeHigh", "selectLowAgain")
             /\ cursor' = [cursor EXCEPT ![index] = bx \div BASE]
             /\ UNCHANGED <<cells, index, fault, cl, ah, bx, hit, paper, place>>

WriteLow == /\ Go("writeLow", "idle")
            /\ cursor' = [cursor EXCEPT ![index] = bx % BASE]
            /\ IF hit = "nowhere" THEN OnPaper(Typed(Printed, cl))
               ELSE UNCHANGED <<paper, place>>
            /\ cl' = Blank /\ bx' = 0
            /\ UNCHANGED <<cells, index, fault, ah, hit>>

-----------------------------------------------------------------------------
(* The whole of putchar at once, of callers with interrupts off. *)
PutAtOnce(v, char) ==
  IF v.fault # "none" THEN v
  ELSE IF Outside(v.pos, char) THEN [v EXCEPT !.fault = "beyond"]
  ELSE LET new == Putchar(v.cells, v.pos, char)
       IN  [cells |-> new.cells, pos |-> new.pos, fault |-> "none"]

(* puts: putchar of each character in turn. *)
PutAll(v, string) ==
  LET shown[i \in 0 .. Len(string)] ==
        IF i = 0 THEN v ELSE PutAtOnce(shown[i - 1], string[i])
  IN  shown[Len(string)]

(***************************************************************************)
(* intrKeyboardHandler puts its text.  If it has interrupted putchar, what *)
(* the text should be is nobody's business any more; only the worst place  *)
(* of interruption is remembered.                                          *)
(***************************************************************************)
unknownKey ==
  LET new == PutAll([cells |-> cells, pos |-> Cursor, fault |-> fault], Unknown)
  IN  /\ fault = "none"
      /\ place[1] < MaxRows
      /\ cells' = new.cells /\ fault' = new.fault
      /\ cursor' = [r \in {14, 15} |-> IF r = 14 THEN new.pos \div BASE
                                       ELSE new.pos % BASE]
      /\ index' = 15
      /\ hit' = IF stage = "idle" \/ hit = "readHigh" THEN hit
                ELSE IF stage = "readHigh" THEN stage ELSE "elsewhere"
      /\ IF hit' = "nowhere" THEN OnPaper(TypedAll(Printed, Unknown))
         ELSE paper' = <<BlankRow>> /\ place' = <<1, 1>>
      /\ UNCHANGED <<stage, cl, ah, bx>>

ScreenNext == \/ Begin \/ ReadHigh \/ ReadLow \/ Store \/ WriteHigh \/ WriteLow
              \/ Select("selectLow", "readLow", 15)
              \/ Select("selectHigh", "writeHigh", 14)
              \/ Select("selectLowAgain", "writeLow", 15)
              \/ unknownKey

ScreenSpec == ScreenInit /\ [][ScreenNext]_screenVars

-----------------------------------------------------------------------------
(***************************************************************************)
(* The screen shows the last ROWS rows of the text and the cursor is where *)
(* it goes on: wrapping, scrolling and erasing backwards over the end of a *)
(* line keep the two together, as long as no putchar was interrupted.      *)
(***************************************************************************)
Top == IF Len(paper) > ROWS THEN Len(paper) - ROWS ELSE 0

ShowsLastRows ==
  stage = "idle" /\ hit = "nowhere" =>
    /\ Cursor = (place[1] - Top - 1) * COLS + place[2] - 1
    /\ \A i \in 0 .. SIZE - 1 :
         cells[i] = IF Top + i \div COLS < Len(paper)
                    THEN paper[Top + i \div COLS + 1][(i % COLS) + 1] ELSE Blank

(***************************************************************************)
(* What an interrupted putchar can do.  It mixes bytes of two cursors and  *)
(* writes over text, but stays in the video segment and scrolls back from  *)
(* beyond the screen.  Only between the selection of register 14 and its   *)
(* reading is the handler fatal: it leaves 15 selected, putchar takes the  *)
(* low byte for the high one, and the store may be outside the segment.    *)
(***************************************************************************)
InterruptedStaysInside == fault = "beyond" => hit = "readHigh"
=============================================================================
