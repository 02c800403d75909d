---------------------------- MODULE StdContainers ----------------------------
(***************************************************************************)
(* The operations of the C++ standard library that the containers of GAA  *)
(* call: std::map as a function whose DOMAIN is the set of its keys,       *)
(* std::set as a set, std::vector and the filter view as sequences.  Each  *)
(* is modelled from how the code uses it.                                  *)
(***************************************************************************)
EXTENDS Naturals, Sequences, FiniteSets

(* std::map<K, V>{} *)
EmptyMap == [x \in {} |-> x]

(* m.insert_or_assign(k, v) *)
Put(m, k, v) == [x \in DOMAIN m \cup {k} |-> IF x = k THEN v ELSE m[x]]

(* m.insert_or_assign(k, n[k]) for every key k of n *)
PutAll(m, n) ==
  [x \in DOMAIN m \cup DOMAIN n |-> IF x \in DOMAIN n THEN n[x] ELSE m[x]]

(* m.erase(k), which does nothing when k is not a key of m *)
Drop(m, k) == [x \in DOMAIN m \ {k} |-> m[x]]

(* *s.begin() of a non-empty std::set of numbers *)
Least(S) == CHOOSE x \in S : \A y \in S : x <= y

(***************************************************************************)
(* s | std::views::filter(not in out) | std::ranges::to<std::vector>().    *)
(* Kept is the set of positions that pass the filter, and the m-th element *)
(* of the result is the one with exactly m - 1 kept positions before it.   *)
(* (SelectSeq is recursive, and no prover could say anything of it.)       *)
(***************************************************************************)
Kept(s, out) == {p \in DOMAIN s : s[p] \notin out}

Before(P, p) == {q \in P : q < p}

Nth(P, m) == CHOOSE p \in P : Cardinality(Before(P, p)) = m - 1

Filtered(s, out) ==
  LET P == Kept(s, out) IN [m \in 1..Cardinality(P) |-> s[Nth(P, m)]]

RangeOf(s) == {s[p] : p \in DOMAIN s}
=============================================================================
