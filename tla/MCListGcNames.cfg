CONSTANTS
  Keys = {a, b}
  Values = {u}
  Null = null
  Absent = absent
  MaxSize = 3
SPECIFICATION SpecByKey
INVARIANT NamesResolve
