-------------------------- MODULE BidirectionalMap --------------------------
(***************************************************************************)
(* gaa::Bidirectional_map (container/bidirectional_map.hpp): two std::maps *)
(* kv and vk that are meant to be inverses of one another.  Nothing in the *)
(* class removes the entries an assignment makes out of date.              *)
(***************************************************************************)
EXTENDS StdContainers

EmptyBimap == [kv |-> EmptyMap, vk |-> EmptyMap]

(* Wrong variant of Assign: emplace() for the second map keeps an old entry. *)
AssignKeepsOld(b, k, v) ==
  [kv |-> Put(b.kv, k, v),
   vk |-> IF v \in DOMAIN b.vk THEN b.vk ELSE Put(b.vk, v, k)]

(* insert_or_assign(k, v): the old value of k stays a key of vk, the old   *)
(* key of v stays a key of kv.                                             *)
Assign(b, k, v) == [kv |-> Put(b.kv, k, v), vk |-> Put(b.vk, v, k)]

(* erase(k): vk loses whatever entry the value of k has there by now. *)
EraseKeyOf(b, k) == [kv |-> Drop(b.kv, k), vk |-> Drop(b.vk, b.kv[k])]
=============================================================================
