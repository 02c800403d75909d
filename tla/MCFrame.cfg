\* Every public operation in any order; columns differ by their lengths.
CONSTANTS
  Names = {a, b}
  Cells = {c}
  Rows = 1
  MaxSize = 3
SPECIFICATION SpecUse
SYMMETRY Symmetry
INVARIANTS NeverThrows Rectangular ColumnsNumbered
PROPERTY GcKeepsColumns
