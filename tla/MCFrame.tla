------------------------------ MODULE MCFrame ------------------------------
(* Model-checking instances of FrameUse. *)
EXTENDS FrameUse, TLC

Symmetry == Permutations(Names)
=============================================================================
