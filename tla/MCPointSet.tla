----------------------------- MODULE MCPointSet -----------------------------
(* Model-checking instances of PointSet. *)
EXTENDS PointSet, TLC
PointSymmetry == Permutations(Coordinates) \cup Permutations(MapNames)
=============================================================================
