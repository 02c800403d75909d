----------------------------- MODULE Vectorize -----------------------------
(***************************************************************************)
(* gaa::vectorize (wrap/std/vectorize): arithmetic on whole containers by  *)
(* expressions that refer to them and are evaluated element by element.    *)
(* What an operator computes is left out.                                  *)
(*                                                                         *)
(* An expression is the sequence of the objects a statement makes for it,  *)
(* each before those that refer to it; the last is the expression itself.  *)
(***************************************************************************)
EXTENDS Integers, Sequences

CONSTANT Containers   (* the containers of the program *)

(* A leaf wraps a container or an arithmetic value, a node applies a       *)
(* binary operator to two objects made before.  (Unary operators pass      *)
(* everything through.)                                                    *)
Leaf(c) == [leaf |-> c, args |-> <<>>]
Scalar == Leaf("scalar")
Node(i, j) == [leaf |-> "none", args |-> <<i, j>>]

(* numeric_limits<size_t>::quiet_NaN(), which is zero. *)
QuietNaN == 0
ValidSize(n) == n # QuietNaN

(* size(), of every object: that of the first operand that has one.        *)
(* len: container -> size()                                                *)
SizesIn(e, len) ==
  LET size[k \in 1..Len(e)] ==
        IF e[k] = Scalar THEN QuietNaN
        ELSE IF e[k].args = <<>> THEN len[e[k].leaf]
        ELSE IF ValidSize(size[e[k].args[1]]) THEN size[e[k].args[1]]
        ELSE size[e[k].args[2]]
  IN  size

(* Wrong variant: the second operand may be shorter. *)
FitsShorter(x, y) == ~(ValidSize(x) /\ ValidSize(y)) \/ x >= y

(* The assertion of Expr_binary_op. *)
Fits(x, y) == ~(ValidSize(x) /\ ValidSize(y)) \/ x = y

(* Every node passes it when it is made. *)
Accepts(e, len) ==
  \A k \in DOMAIN e :
    e[k].args # <<>> =>
      Fits(SizesIn(e, len)[e[k].args[1]], SizesIn(e, len)[e[k].args[2]])

(* The containers that operator[] of every object reads. *)
ReadBy(e) ==
  LET reads[k \in 1..Len(e)] ==
        IF e[k].args = <<>> THEN {e[k].leaf} \ {"scalar"}
        ELSE reads[e[k].args[1]] \union reads[e[k].args[2]]
  IN  reads

Reads(e) == ReadBy(e)[Len(e)]

(* eval(): the length of the result, or "undefined" when an element is     *)
(* read that a container does not have.                                    *)
Evaluated(e, len) ==
  LET n == SizesIn(e, len)[Len(e)] IN
  IF ~Accepts(e, len) THEN [end |-> "aborts"]
  ELSE IF \E c \in Reads(e), i \in 0..(n - 1) : i >= len[c] THEN [end |-> "undefined"]
  ELSE [end |-> "returns", length |-> n]

=============================================================================
