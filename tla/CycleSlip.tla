----------------------------- MODULE CycleSlip -----------------------------
(***************************************************************************)
(* gaa::diff_detect (gnss/cycle_slip_edit.cpp) and the functions of        *)
(* core/math.cpp it uses, over integers: jumps in a series are found by    *)
(* the binomial pattern they leave in its differences.                     *)
(***************************************************************************)
EXTENDS Integers, Sequences, StdContainers

(* difference(vals, degree) *)
Difference(vals, degree) ==
  LET d[n \in 0..degree] ==
        IF n = 0 THEN vals
        ELSE [j \in 1..(Len(d[n - 1]) - 1) |-> d[n - 1][j + 1] - d[n - 1][j]]
  IN  d[degree]

(* result = 1, multiplied by n factors one after the other. *)
Product(n, factor) ==
  LET result[i \in 0..n] == IF i = 0 THEN 1 ELSE result[i - 1] * factor[i]
  IN  result[n]

Factorial(n) == Product(n, [i \in 1..n |-> i])

Arrangement(n, m) == Product(m, [i \in 1..m |-> n - i + 1])

Combination(n, m) ==
  LET k == IF m > n - m THEN n - m ELSE m
  IN  Arrangement(n, k) \div Factorial(k)

(* Wrong variant: the row after that. *)
PatternNextRow(degree) ==
  [j \in 1..degree |->
     (IF j % 2 = 0 THEN -1 ELSE 1) * Combination(degree, j - 1)]

(* pascal_triangle_row(degree - 1), every other entry negated. *)
Pattern(degree) ==
  [j \in 1..degree |->
     (IF j % 2 = 0 THEN -1 ELSE 1) * Combination(degree - 1, j - 1)]

AbsOf(a) == IF a < 0 THEN -a ELSE a

(* within_abs_pct(x, v / head), 1 - |min| / |max| <= 0.05, both sides of    *)
(* it multiplied by |head|.  Where max is zero the quotient is infinite;    *)
(* where head is, the first entry is 0 / 0, which compares with nothing.    *)
WithinPct(x, v, head) ==
  LET X == x * AbsOf(head)
      Y == IF head < 0 THEN -v ELSE v
      max == IF X > Y THEN X ELSE Y
      min == IF X < Y THEN X ELSE Y
  IN  /\ head # 0
      /\ IF max = 0 THEN min # 0
         ELSE 20 * (AbsOf(max) - AbsOf(min)) <= AbsOf(max)

(* The window of degree differences from position i (from 0) on is the     *)
(* pattern, scaled to its first entry.                                     *)
IsSlip(diff, degree, i) ==
  \A j \in 1..degree : WithinPct(Pattern(degree)[j], diff[i + j], diff[i + 1])

(* The bounds of the intervals of boost::icl::interval_set<int> that cover *)
(* the given integers: those that touch have been joined.                  *)
Joined(covered) ==
  {b \in covered \X covered :
     /\ b[1] <= b[2] /\ b[1]..b[2] \subseteq covered
     /\ b[1] - 1 \notin covered /\ b[2] + 1 \notin covered}

(* diff_detect(vals, degree): the intervals [first, second) and the sizes, *)
(* or "undefined" where it reads diff[-1].                                 *)
DiffDetect(vals, degree) ==
  LET diff == Difference(vals, degree)
      slips == {i \in 0..(Len(diff) - degree) : IsSlip(diff, degree, i)}
      joined == Joined(UNION {i..(i + degree) : i \in slips})
      firsts == {b[1] : b \in joined}
      found == [j \in 1..Cardinality(firsts) |->
                  CHOOSE b \in joined : b[1] = Nth(firsts, j)]
  IN  IF \E j \in DOMAIN found : found[j][1] = 0
      THEN [end |-> "undefined"]
      ELSE [end |-> "returns",
            intervals |-> [j \in DOMAIN found |->
                             <<found[j][1] + degree, found[j][2] + degree + 1>>],
            cycle_slips |-> [j \in DOMAIN found |->
                               diff[found[j][1] + 1] - diff[found[j][1]]]]

=============================================================================
