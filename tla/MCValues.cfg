\* Two objects of each kind; Double and Vec_Integer as alternatives.
CONSTANTS
  Anys = {a1, a2}
  AnyTypes = {"int", "vector of int"}
  Plugins = {p}
  MaxLength = 1
  Variants = {v1, v2}
  Alternatives <- SomeAlternatives
SPECIFICATION ValuesSpec
INVARIANTS AnyTold PluginsReach VariantTold VisitsFit
SYMMETRY Symmetry
CHECK_DEADLOCK FALSE
