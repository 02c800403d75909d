\* Columns with any names, filled in any order.
CONSTANTS
  Names = {a, b}
  UsedFlags = {"Tab_String", "Tab_Integer", "Tab_Vector_Double"}
  MaxColumns = 2
  MaxCells = 2
SPECIFICATION TableSpec
INVARIANTS FlagsMatch RowsReadable
PROPERTY InsertReturnsNewColumn
