\* Every public operation in any order.
CONSTANTS
  Keys = {a, b}
  Values = {u}
  Null = null
  Absent = absent
  MaxSize = 3
SPECIFICATION Spec
SYMMETRY KeySymmetry
INVARIANTS IndicesOrdered NextIndexFree SlotsBacked
PROPERTIES GcKeepsEntries InsertKeepsOthers
