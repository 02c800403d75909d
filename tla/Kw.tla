--------------------------------- MODULE Kw ---------------------------------
(***************************************************************************)
(* Keyword arguments (core/kw.hpp): a chain of setters, kw{}.a(x).b(y),    *)
(* fills a map from tags to values, and the function that is called reads  *)
(* those it knows and has a default for.                                   *)
(*                                                                         *)
(* Most arguments are kept by value, a few by reference.  An argument      *)
(* records whether the program passed a named object or a temporary, which *)
(* is gone at the end of the statement that made it.                       *)
(***************************************************************************)

ByReference == {"weight_matrix", "collinearity_condition_solver"}

Argument(value, named) == [value |-> value, named |-> named]

NoArgs == [tag \in {} |-> Argument(0, TRUE)]

(* _has, and the assertion of _set that no tag is set twice *)
Has(args, tag) == tag \in DOMAIN args

(* _set, for a tag not set before *)
WithArg(args, tag, argument) ==
  [t \in DOMAIN args \union {tag} |-> IF t = tag THEN argument ELSE args[t]]

(* Reading the argument in another statement than it was made in follows a *)
(* reference to a temporary that is gone.                                  *)
Dangles(args, tag, later) ==
  /\ Has(args, tag)
  /\ tag \in ByReference
  /\ later /\ ~args[tag].named

(* GAA_ARG_OR *)
ArgOr(args, tag, default) == IF Has(args, tag) THEN args[tag].value ELSE default

=============================================================================
