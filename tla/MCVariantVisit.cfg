\* Expected to fail: a copy without an enumerator is visited.
CONSTANTS
  Anys = {a1, a2}
  AnyTypes = {"int", "vector of int"}
  Plugins = {p}
  MaxLength = 1
  Variants = {v1, v2}
  Alternatives <- SomeAlternatives
SPECIFICATION ValuesSpec
PROPERTY DefaultUnreachable
CHECK_DEADLOCK FALSE
