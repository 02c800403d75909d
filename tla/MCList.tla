------------------------------- MODULE MCList -------------------------------
(* Model-checking instances of List and ListDictionary. *)
EXTENDS ListDictionary, TLC

KeySymmetry == Permutations(Keys)
=============================================================================
