\* The calls for which a list is a dictionary.
CONSTANTS
  Keys = {a, b, c}
  Values = {u}
  Null = null
  Absent = absent
  MaxSize = 3
SPECIFICATION SpecDict
INVARIANT JsonHoldsDictionary
PROPERTY ImplementsDictionary
