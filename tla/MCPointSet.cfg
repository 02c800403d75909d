\* Every public operation in any order.
CONSTANTS
  Coordinates = {p, q}
  MapNames = {m, n}
  Properties = {v}
  Default = default
  MaxPoints = 3
SPECIFICATION PointSetSpec
SYMMETRY PointSymmetry
INVARIANT NumPointsCounts
PROPERTIES GcKeepsPoints StaysLabelled
CHECK_DEADLOCK FALSE
