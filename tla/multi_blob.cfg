CONSTANTS
  NL = NL
  Chars = {a, b}
  MaxChars = 3
  MaxTexts = 3
SPECIFICATION Spec
INVARIANTS
  ReconstructsIfEndIsSame
  ReadsWhatWasWritten
  Chained
  FoundOnlyAlone
CHECK_DEADLOCK FALSE
