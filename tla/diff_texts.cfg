CONSTANTS
  NL = NL
  Chars = {a, b}
  MaxChars = 3
  MaxTexts = 2
SPECIFICATION Spec
INVARIANT Reconstructs
CHECK_DEADLOCK FALSE
