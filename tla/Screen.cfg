CONSTANTS
  COLS = 2
  ROWS = 4
  BASE = 6
  SEGMENT = 12
  a = a
  Char = {a}
  Blank = blank
  LF = LF
  BS = BS
  Unknown <- MCUnknown
  MaxRows = 6
  Byte = {0, 37, 65, 128, 255}
  MaxLength = 2
  Nibbles = 3
  MaxItems = 3
SPECIFICATION ScreenSpec
INVARIANTS ShowsLastRows InterruptedStaysInside StringsKept FormatKept
CHECK_DEADLOCK FALSE
