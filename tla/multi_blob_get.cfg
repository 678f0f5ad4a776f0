CONSTANTS
  NL = NL
  Chars = {a, b}
  MaxChars = 3
  MaxTexts = 2
SPECIFICATION Spec
INVARIANT EveryTextFound
CHECK_DEADLOCK FALSE
