-------------------------------- MODULE Pool --------------------------------
(***************************************************************************)
(* gaa::Pool (container/pool.hpp): hands out indices, preferring the       *)
(* smallest one given back.  A pool is a record of its two members,        *)
(* m_deprecated and m_size.                                                *)
(***************************************************************************)
EXTENDS StdContainers

EmptyPool == [deprecated |-> {}, size |-> 0]

HasDeprecated(p) == p.deprecated # {}

IsDeprecated(p, i) == i \in p.deprecated

(* The index that get() returns: the least deprecated one, or a new one. *)
NextIndex(p) == IF HasDeprecated(p) THEN Least(p.deprecated) ELSE p.size

(* Wrong variant of AfterGet: a new index is not counted. *)
AfterGetUncounted(p) ==
  IF HasDeprecated(p)
  THEN [p EXCEPT !.deprecated = @ \ {Least(p.deprecated)}]
  ELSE p

(* The pool that get() leaves. *)
AfterGet(p) ==
  IF HasDeprecated(p)
  THEN [p EXCEPT !.deprecated = @ \ {Least(p.deprecated)}]
  ELSE [p EXCEPT !.size = @ + 1]

(* deprecate(i) takes any index, one that was never handed out included. *)
Deprecate(p, i) == [p EXCEPT !.deprecated = @ \cup {i}]

(* Wrong variant of Clear: nothing is forgotten. *)
ClearNothing(p) == p

(* clear() forgets the deprecated indices and keeps m_size. *)
Clear(p) == [p EXCEPT !.deprecated = {}]

IsPool(p) == p \in [deprecated : SUBSET Nat, size : Nat]
=============================================================================
