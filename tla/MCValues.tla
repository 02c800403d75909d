------------------------------ MODULE MCValues ------------------------------
(* Values with the alternatives used in model checking. *)
EXTENDS Values, TLC

SomeAlternatives == {[form |-> 1, base |-> 1], [form |-> 2, base |-> 3]}

Symmetry == Permutations(Anys) \union Permutations(Variants)

=============================================================================
