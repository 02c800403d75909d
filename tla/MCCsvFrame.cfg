\* Every text of up to three lines, read with given or detected types.
CONSTANTS
  Tokens = {"int", "dbl", "blank"}
  MaxWidth = 2
  MaxLines = 3
SPECIFICATION Spec
INVARIANTS FrameHoldsText BareTextReadsBack
PROPERTY ReaderEnds
CHECK_DEADLOCK FALSE
