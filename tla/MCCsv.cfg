\* Both readers on any text, and the writer on what they return.
CONSTANTS
  Tokens = {"int", "plus", "dbl", "bool", "lat", "word"}
  MaxWidth = 2
  MaxLines = 2
SPECIFICATION Spec
INVARIANTS TableHoldsRows WrittenReadsBack
CHECK_DEADLOCK FALSE
