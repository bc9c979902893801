CONSTANTS
  Key = {2, 30, 42, 54, 29, 57373, 56, 57400, 58, 28, 57372, 69}
  MaxHeld = 3
  None = None
SPECIFICATION KeyboardSpec
INVARIANTS NothingStuck TypesWhatIsPressed
