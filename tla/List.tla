-------------------------------- MODULE List --------------------------------
(***************************************************************************)
(* gaa::List (container/list.hpp, container/list.cpp): a dictionary of     *)
(* named values kept in numbered slots.                                    *)
(*                                                                         *)
(*   pool      m_idx_pool  which slots are erased, how many were handed    *)
(*                         out                                             *)
(*   indices   m_indices   the slots in use, erased ones included          *)
(*   data      m_data      slot -> value                                   *)
(*   name      m_name      slot <-> key                                    *)
(*                                                                         *)
(* Every public operation that changes a list is an action, except         *)
(* garbage_collect(), whose loop is one action per iteration so that what  *)
(* holds between two moves can be stated; pc, alive and new_i are its      *)
(* program counter and locals, and no other call starts while it runs.  A  *)
(* call that throws (std::map::at on a missing key) changes nothing and is *)
(* not a step.                                                             *)
(***************************************************************************)
EXTENDS Pool, BidirectionalMap

CONSTANTS
  Keys,     (* the strings used as names                              *)
  Values,   (* the values a program stores                            *)
  Null,     (* the value operator[] inserts by default: Any{nullptr}  *)
  MaxSize   (* bound: how many slots a pool may hand out              *)

ASSUME ListAssumption == Null \notin Values /\ MaxSize \in Nat

VARIABLES pool, indices, data, name, pc, alive, new_i

listVars == <<pool, indices, data, name>>
gcVars   == <<pc, alive, new_i>>
vars     == <<pool, indices, data, name, pc, alive, new_i>>

Contents == Values \cup {Null}

(* Bound on the arguments of the calls that take an index. *)
AnyIndex == 0..MaxSize

Init ==
  /\ pool = EmptyPool
  /\ indices = <<>>
  /\ data = EmptyMap
  /\ name = EmptyBimap
  /\ pc = "idle"
  /\ alive = <<>>
  /\ new_i = 0

(* valid_indices() *)
ValidIndices == Filtered(indices, pool.deprecated)

IsValid(i) == i \in RangeOf(indices) /\ ~IsDeprecated(pool, i)

(* has_key(k) *)
HasKey(k) == k \in DOMAIN name.vk

-----------------------------------------------------------------------------

(* Bound: the pool hands out at most MaxSize slots. *)
CanGet == HasDeprecated(pool) \/ pool.size < MaxSize

(* Wrong variant of Store: a slot used again is appended again. *)
StoreAppendsAlways(k, v) ==
  LET i == NextIndex(pool) IN
  /\ CanGet
  /\ pool' = AfterGet(pool)
  /\ indices' = Append(indices, i)
  /\ name' = Assign(name, i, k)
  /\ data' = Put(data, i, v)

(* A slot from the pool takes the key and the value; only a new slot is    *)
(* appended to m_indices.  Nothing looks whether the key is already there. *)
Store(k, v) ==
  LET i == NextIndex(pool) IN
  /\ CanGet
  /\ pool' = AfterGet(pool)
  /\ indices' = IF HasDeprecated(pool) THEN indices ELSE Append(indices, i)
  /\ name' = Assign(name, i, k)
  /\ data' = Put(data, i, v)

(* list.insert_or_assign(k, v) *)
InsertOrAssign(k, v) ==
  /\ pc = "idle"
  /\ Store(k, v)
  /\ UNCHANGED gcVars

(* list[k] = v: writes through at(k) when the key is known, erased or not, *)
(* and otherwise first inserts nullptr under it.                           *)
SubscriptKey(k, v) ==
  /\ pc = "idle"
  /\ \/ /\ HasKey(k)
        /\ name.vk[k] \in DOMAIN data
        /\ data' = [data EXCEPT ![name.vk[k]] = v]
        /\ UNCHANGED <<pool, indices, name>>
     \/ /\ ~HasKey(k)
        /\ Store(k, v)
  /\ UNCHANGED gcVars

(* list[i] = v: the index is turned into a name and the name looked up. *)
SubscriptIndex(i, v) ==
  /\ i \in DOMAIN name.kv
  /\ SubscriptKey(name.kv[i], v)

(* list.at(i) = v, and list.at(k) = v once k is resolved *)
AssignAt(i, v) ==
  /\ pc = "idle"
  /\ i \in DOMAIN data
  /\ data' = [data EXCEPT ![i] = v]
  /\ UNCHANGED <<pool, indices, name, pc, alive, new_i>>

(* list.erase(i): no check that i is, or ever was, an index of the list *)
EraseIndex(i) ==
  /\ pc = "idle"
  /\ pool' = Deprecate(pool, i)
  /\ UNCHANGED <<indices, data, name, pc, alive, new_i>>

(* list.erase(k) *)
EraseKey(k) ==
  /\ HasKey(k)
  /\ EraseIndex(name.vk[k])

-----------------------------------------------------------------------------
(* garbage_collect() *)

GcBegin ==
  /\ pc = "idle"
  /\ pc' = "gc"
  /\ alive' = ValidIndices
  /\ new_i' = 0
  /\ UNCHANGED listVars

(* One iteration of the loop for an entry already in its place. *)
GcKeep ==
  /\ pc = "gc"
  /\ new_i < Len(alive)
  /\ alive[new_i + 1] = new_i
  /\ new_i' = new_i + 1
  /\ UNCHANGED <<pool, indices, data, name, pc, alive>>

(* Wrong variants of GcMove: the new slot is erased instead of the old;    *)
(* the name stays behind.                                                  *)
GcMoveErasesNew ==
  LET old_i == alive[new_i + 1] IN
  /\ pc = "gc" /\ new_i < Len(alive) /\ old_i # new_i
  /\ indices' = [indices EXCEPT ![new_i + 1] = new_i]
  /\ data' = Drop(Put(data, new_i, data[old_i]), new_i)
  /\ new_i' = new_i + 1
  /\ UNCHANGED <<pool, name, pc, alive>>

GcMoveLeavesName ==
  LET old_i == alive[new_i + 1] IN
  /\ pc = "gc" /\ new_i < Len(alive) /\ old_i # new_i
  /\ indices' = [indices EXCEPT ![new_i + 1] = new_i]
  /\ data' = Drop(Put(data, new_i, data[old_i]), old_i)
  /\ new_i' = new_i + 1
  /\ UNCHANGED <<pool, name, pc, alive>>

(* One iteration for an entry that moves from slot old_i down to new_i.    *)
(* The name is assigned to new_i first and erased from old_i afterwards.   *)
GcMove ==
  LET old_i == alive[new_i + 1] IN
  /\ pc = "gc"
  /\ new_i < Len(alive)
  /\ old_i # new_i
  /\ indices' = [indices EXCEPT ![new_i + 1] = new_i]
  /\ data' = Drop(Put(data, new_i, data[old_i]), old_i)
  /\ name' = EraseKeyOf(Assign(name, new_i, name.kv[old_i]), old_i)
  /\ new_i' = new_i + 1
  /\ UNCHANGED <<pool, pc, alive>>

GcEnd ==
  /\ pc = "gc"
  /\ new_i = Len(alive)
  /\ indices' = SubSeq(indices, 1, Len(alive))
  /\ pool' = Clear(pool)
  /\ pc' = "idle"
  /\ alive' = <<>>
  /\ new_i' = 0
  /\ UNCHANGED <<data, name>>

GarbageCollect == GcBegin \/ GcKeep \/ GcMove \/ GcEnd

Next ==
  \/ \E k \in Keys, v \in Values : InsertOrAssign(k, v)
  \/ \E k \in Keys, v \in Contents : SubscriptKey(k, v)
  \/ \E i \in AnyIndex, v \in Contents : SubscriptIndex(i, v)
  \/ \E i \in AnyIndex, v \in Values : AssignAt(i, v)
  \/ \E i \in AnyIndex : EraseIndex(i)
  \/ \E k \in Keys : EraseKey(k)
  \/ GarbageCollect

Spec == Init /\ [][Next]_vars

-----------------------------------------------------------------------------
(* Properties *)

(* "a sorted list of indices" (list.hpp:18): through any mix of reuse,     *)
(* stray erase() calls and collections m_indices stays strictly            *)
(* increasing, below the pool's counter, and no entry sits below its own   *)
(* position, which is what makes the collector move entries only downward. *)
IndicesOrdered ==
  /\ \A p \in DOMAIN indices : p - 1 <= indices[p] /\ indices[p] < pool.size
  /\ \A p, q \in DOMAIN indices : p < q => indices[p] < indices[q]

(* The slot the pool hands out next never belongs to an entry in use, even *)
(* after collections renumber the entries under an unchanged m_size: an    *)
(* insertion overwrites nobody (pool.hpp:35-43, list.hpp:65-73).           *)
NextIndexFree == pc = "idle" => ~IsValid(NextIndex(pool))

(* Every slot a loop over the indices visits has a value and a name, so    *)
(* at(i) and name_of(i) do not throw there, even for slots that collections *)
(* freed and later insertions took again (list.cpp:54-58).                 *)
SlotsBacked ==
  pc = "idle" =>
    \A p \in DOMAIN indices :
      indices[p] \in DOMAIN data /\ indices[p] \in DOMAIN name.kv

(* The collector never writes into the slot of an entry it has yet to move *)
(* (list.cpp:12-16).                                                       *)
GcTargetFree ==
  pc = "gc" =>
    \A m \in DOMAIN alive : new_i + 1 < m => alive[m] # new_i

(* The slots of the entries in use, in order: while collecting, the first  *)
(* new_i of them are already renumbered.                                   *)
Slots ==
  IF pc = "gc"
  THEN [m \in DOMAIN alive |-> IF m <= new_i THEN m - 1 ELSE alive[m]]
  ELSE ValidIndices

(* The entries in use, in order, as <<name, value>>. *)
Entries == [m \in DOMAIN Slots |-> <<name.kv[Slots[m]], data[Slots[m]]>>]

(* garbage_collect() keeps every entry in use, its name by index, its      *)
(* value and the order, at every iteration of the loop (list.cpp:6-24).    *)
GcKeepsEntries == [][GarbageCollect => Entries' = Entries]_vars

(* An insertion leaves the name and the value of every entry in use as     *)
(* they were, whatever slot it gets (list.hpp:65-82).                      *)
InsertKeepsOthers ==
  [][\A k \in Keys, v \in Values :
       InsertOrAssign(k, v) =>
         \A i \in RangeOf(ValidIndices) :
           /\ IsValid(i)'
           /\ data'[i] = data[i]
           /\ name'.kv[i] = name.kv[i]]_vars

=============================================================================
