---------------------------- MODULE MCAlgorithms ----------------------------
(* Algorithms, with a negative number of iterations among those a program  *)
(* asks an adjustment for.                                                 *)
EXTENDS Algorithms

MCLimits == {-1, 0, 1, 3}

=============================================================================
