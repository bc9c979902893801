------------------------------ MODULE Keyboard ------------------------------
(***************************************************************************)
(* device/keyboard.c: intrKeyboardHandler takes one byte of the keyboard   *)
(* per interrupt and keeps in five flags what it has to remember between   *)
(* two of them.  The keyboard and its user are the environment.  A key is  *)
(* named by its make code, with 0xe000 (57344) added for a key with an     *)
(* extended code; what happens to the characters is in IoQueue.  The two   *)
(* modules share no name: one proof module extends both.                   *)
(***************************************************************************)
EXTENDS Integers, Sequences, FiniteSets

CONSTANTS Key,        \* the make codes of the keys that are used
          MaxHeld,    \* bound: keys held down at a time
          None

(* Make codes are below 0x80, and not 0x60: its break code would be 0xe0. *)
MakeByte == (1 .. 127) \ {96}

ASSUME KeyAssumption ==
  /\ Key \subseteq MakeByte \cup {57344 + byte : byte \in MakeByte}
  /\ None \notin Nat \cup (Nat \X Nat)

VARIABLES ctrlStatus, shiftStatus, altStatus, capslockStatus, extScancode,
          typed,      \* what the last byte put into keyboardBuf, if anything
          wire,       \* environment: bytes of the current key event to come
          held,       \* environment: keys held down
          pressed     \* environment: the key of the last event if it was a press

flags        == <<ctrlStatus, shiftStatus, altStatus, capslockStatus, extScancode>>
keyboardVars == <<flags, typed, wire, held, pressed>>

E0 == 224                  \* 0xe0
CTRL_L_MAKE == 29          \* 0x1d
CTRL_R_MAKE == 57373       \* 0xe01d
SHIFT_L_MAKE == 42         \* 0x2a
SHIFT_R_MAKE == 54         \* 0x36
ALT_L_MAKE == 56           \* 0x38
ALT_R_MAKE == 57400        \* 0xe038
CAPS_LOCK_MAKE == 58       \* 0x3a

Ctrl  == {CTRL_L_MAKE, CTRL_R_MAKE}
Shift == {SHIFT_L_MAKE, SHIFT_R_MAKE}
Alt   == {ALT_L_MAKE, ALT_R_MAKE}

(* keymap: the character of a row and column, <<row, 0>> if the columns are *)
(* alike, None where the table has CHAR_INVISIBLE.                         *)
keymap(idx, column) ==
  IF idx \in {0, CTRL_L_MAKE, SHIFT_L_MAKE, SHIFT_R_MAKE, ALT_L_MAKE, CAPS_LOCK_MAKE}
  THEN None
  ELSE IF idx \in {1, 14, 15, 28, 55, 57} THEN <<idx, 0>>
  ELSE <<idx, column>>

(* Keys whose two characters Caps Lock does not exchange. *)
Symbol == (0 .. 13) \cup {41, 26, 27, 43, 39, 40, 51, 52, 53}

InKeymap(scancode) == scancode >= 1 /\ scancode <= 58

(* Mutant: Caps Lock works like Shift. *)
columnCapsShift(scancode) == IF shiftStatus \/ capslockStatus THEN 1 ELSE 0

column(scancode) ==
  LET shift == IF scancode \in Symbol THEN shiftStatus
               ELSE shiftStatus # capslockStatus
  IN  IF shift THEN 1 ELSE 0

KeyboardInit ==
  /\ ctrlStatus = FALSE /\ shiftStatus = FALSE /\ altStatus = FALSE
  /\ capslockStatus = FALSE /\ extScancode = FALSE
  /\ typed = None /\ wire = <<>> /\ held = {} /\ pressed = None

-----------------------------------------------------------------------------
(* The code a byte stands for, after an 0xe0 and without. *)
scancodeOf(byte) == IF extScancode THEN 57344 + byte ELSE byte

Received == wire # <<>> /\ wire' = Tail(wire) /\ UNCHANGED <<held, pressed>>

Prefix == /\ Received
          /\ Head(wire) = E0
          /\ extScancode' = TRUE
          /\ typed' = None
          /\ UNCHANGED <<ctrlStatus, shiftStatus, altStatus, capslockStatus>>

(* Mutant: the right Shift is forgotten among the break codes. *)
BreakLeftShift ==
  LET makecode == scancodeOf(Head(wire)) - 128
  IN  /\ Received
      /\ Head(wire) # E0 /\ Head(wire) >= 128
      /\ ctrlStatus'  = (ctrlStatus /\ makecode \notin Ctrl)
      /\ shiftStatus' = (shiftStatus /\ makecode # SHIFT_L_MAKE)
      /\ altStatus'   = (altStatus /\ makecode \notin Alt)
      /\ extScancode' = FALSE
      /\ typed' = None
      /\ UNCHANGED capslockStatus

Break ==
  LET makecode == scancodeOf(Head(wire)) - 128
  IN  /\ Received
      /\ Head(wire) # E0 /\ Head(wire) >= 128
      /\ ctrlStatus'  = (ctrlStatus /\ makecode \notin Ctrl)
      /\ shiftStatus' = (shiftStatus /\ makecode \notin Shift)
      /\ altStatus'   = (altStatus /\ makecode \notin Alt)
      /\ extScancode' = FALSE
      /\ typed' = None
      /\ UNCHANGED capslockStatus

Make ==
  LET scancode == scancodeOf(Head(wire))
      ch       == IF InKeymap(scancode) THEN keymap(scancode, column(scancode))
                  ELSE None
      control  == InKeymap(scancode) /\ ch = None
  IN  /\ Received
      /\ Head(wire) < 128
      /\ ctrlStatus'     = (ctrlStatus \/ (control /\ scancode \in Ctrl))
      /\ shiftStatus'    = (shiftStatus \/ (control /\ scancode \in Shift))
      /\ altStatus'      = (altStatus \/ (control /\ scancode \in Alt))
      /\ capslockStatus' = (capslockStatus # (control /\ scancode = CAPS_LOCK_MAKE))
      /\ extScancode' = FALSE
      /\ typed' = ch

intrKeyboardHandler == Prefix \/ Break \/ Make

-----------------------------------------------------------------------------
(* The bytes a key sends: set 1 codes, with 0xe0 before an extended one.   *)
Bytes(key, bit) == IF key > 255 THEN <<E0, key - 57344 + bit>> ELSE <<key + bit>>

Press(key) == /\ wire = <<>>
              /\ key \notin held /\ Cardinality(held) < MaxHeld
              /\ held' = held \cup {key}
              /\ pressed' = key
              /\ wire' = Bytes(key, 0)
              /\ UNCHANGED <<flags, typed>>

(* The key that was pressed last repeats as long as it is held. *)
Repeat == /\ wire = <<>>
          /\ pressed \in held
          /\ wire' = Bytes(pressed, 0)
          /\ UNCHANGED <<flags, typed, held, pressed>>

LetGo(key) == /\ wire = <<>>
              /\ held' = held \ {key}
              /\ pressed' = None
              /\ wire' = Bytes(key, 128)
              /\ UNCHANGED <<flags, typed>>

(* Pause sends a make and a break of six bytes with 0xe1 before them:  *)
(* 0xe1 0x1d 0x45, then 0xe1 0x9d 0xc5; nothing when it is released.   *)
PauseBytes == <<225, 29, 69, 225, 157, 197>>

Pause == /\ wire = <<>>
         /\ pressed' = None
         /\ wire' = PauseBytes
         /\ UNCHANGED <<flags, typed, held>>

KeyboardNext ==
  \/ intrKeyboardHandler
  \/ \E key \in Key : Press(key)
  \/ \E key \in held : LetGo(key)
  \/ Repeat
  \/ Pause

KeyboardSpec == KeyboardInit /\ [][KeyboardNext]_keyboardVars

-----------------------------------------------------------------------------
(***************************************************************************)
(* Nothing gets stuck: when all bytes of an event were handled, no 0xe0 is *)
(* left over, and a flag is set only while a key of the kind is held.  The *)
(* left key, that is: the make codes of the right Ctrl and Alt are out of  *)
(* the keymap's range.                                                     *)
(***************************************************************************)
NothingStuck == wire = <<>> => /\ ~ extScancode
                               /\ ctrlStatus => CTRL_L_MAKE \in held
                               /\ shiftStatus => held \cap Shift # {}
                               /\ altStatus => ALT_L_MAKE \in held

(***************************************************************************)
(* The handler types what the user means: a key of the keymap its own      *)
(* character, any other key nothing, also if its last byte is that of a    *)
(* key of the keymap; shifted only if Shift is held or, for letters, Caps  *)
(* Lock is on, which changes no other key.                                 *)
(***************************************************************************)
TypesWhatIsPressed ==
  wire = <<>> =>
    /\ typed # None => typed[1] = pressed
    /\ pressed # None => (typed = None <=> pressed > 58 \/ keymap(pressed, 0) = None)
    /\ typed # None /\ held \cap Shift = {} =>
         typed = keymap(pressed, IF pressed \notin Symbol /\ capslockStatus THEN 1 ELSE 0)
=============================================================================
