--------------------------- MODULE ListDictionary ---------------------------
(***************************************************************************)
(* gaa::List used as the dictionary its class comment describes.  SpecDict *)
(* restricts the calls to those for which the code keeps the promise:      *)
(* insert a key only while no entry has it, reach entries by keys and      *)
(* indices in use, never write through an erased key, and collect only     *)
(* when no entry would move.  Every action is an action of List under a    *)
(* guard of the caller; the list itself checks none of this.               *)
(***************************************************************************)
EXTENDS List

CONSTANT Absent  (* stands for "no entry" in the abstract dictionary *)

ASSUME AbsentAssumption == Absent \notin Contents

(* Some entry in use has the name k: what a loop over valid_indices sees. *)
Present(k) == \E i \in RangeOf(ValidIndices) : name.kv[i] = k

(* The entries in use already sit in slots 0, 1, 2, ... *)
NothingMoves == \A m \in DOMAIN ValidIndices : ValidIndices[m] = m - 1

NextDict ==
  \/ \E k \in Keys, v \in Values : ~Present(k) /\ InsertOrAssign(k, v)
  \/ \E k \in Keys, v \in Contents :
       (HasKey(k) => Present(k)) /\ SubscriptKey(k, v)
  \/ \E i \in AnyIndex, v \in Contents : IsValid(i) /\ SubscriptIndex(i, v)
  \/ \E i \in AnyIndex, v \in Values : IsValid(i) /\ AssignAt(i, v)
  \/ \E i \in AnyIndex : IsValid(i) /\ EraseIndex(i)
  \/ \E k \in Keys : Present(k) /\ EraseKey(k)
  \/ NothingMoves /\ GcBegin
  \/ GcKeep
  \/ GcEnd

SpecDict == Init /\ [][NextDict]_vars

(* "name-to-index bidirectional lookup" (list.hpp:16): the name of an      *)
(* entry in use leads back to that entry, also when the slot or the name   *)
(* were used before (bidirectional_map.hpp:21-24, 38-42).                  *)
NamesResolve ==
  pc = "idle" =>
    \A i \in RangeOf(ValidIndices) :
      name.kv[i] \in DOMAIN name.vk /\ name.vk[name.kv[i]] = i

(* write_json(os, list), for a list with an entry in use: the pairs of     *)
(* key and value it writes.  list[i] goes from the index to the name and   *)
(* from the name back to an index.  (Without such an entry the first       *)
(* element of an empty range is read.)                                     *)
Json ==
  LET Written(i) ==
        [key |-> name.kv[i],
         value |-> IF HasKey(name.kv[i]) THEN data[name.vk[name.kv[i]]] ELSE Absent]
  IN  [m \in DOMAIN ValidIndices |-> Written(ValidIndices[m])]

(* What is written has the keys in use, every one once, each with the      *)
(* value of the entry itself, however slots and names were used before     *)
(* (json.cpp:25-38, list.cpp:41-44).                                       *)
JsonHoldsDictionary ==
  pc = "idle" =>
    /\ {Json[m].key : m \in DOMAIN Json} = {k \in Keys : Present(k)}
    /\ \A m \in DOMAIN Json :
         /\ Json[m].value = data[ValidIndices[m]]
         /\ \A l \in DOMAIN Json : Json[l].key = Json[m].key => l = m

(* The dictionary a caller sees: presence by iteration, the value by the   *)
(* key lookup at(k).                                                       *)
dictView == [k \in Keys |-> IF Present(k) THEN data[name.vk[k]] ELSE Absent]

Dict == INSTANCE Dictionary WITH dict <- dictView

(* Under SpecDict the list implements a dictionary: every call changes the *)
(* value of at most the one key it names, and collecting changes nothing.  *)
ImplementsDictionary == Dict!Spec

-----------------------------------------------------------------------------
(* A program that stays within the calls the class comment advertises and  *)
(* for which the lookup of NamesResolve fails: it inserts every key once,  *)
(* erases keys it inserted and collects whenever it likes.                 *)
NextByKey ==
  \/ \E k \in Keys, v \in Values : ~HasKey(k) /\ InsertOrAssign(k, v)
  \/ \E k \in Keys : pc = "idle" /\ Present(k) /\ EraseKey(k)
  \/ GarbageCollect

SpecByKey == Init /\ [][NextByKey]_vars

=============================================================================
