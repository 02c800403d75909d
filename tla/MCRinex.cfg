\* Headers of up to three lines, then up to two records of two lines.
CONSTANTS
  TrimmedKeys = {"BDSA", "date", "T", "a0"}
  FiveCharacters = {"BDSA "}
  SubLines = 1
  MaxHeader = 3
  MaxRecords = 2
SPECIFICATION Spec
INVARIANTS HeaderKept GettersAccept RecordsAligned
CHECK_DEADLOCK FALSE
