----------------------------- MODULE ListProofs -----------------------------
(***************************************************************************)
(* gaa::List, any number of keys, values and slots: m_indices stays        *)
(* sorted, every index in it has a value and a name, an insertion never    *)
(* takes a slot in use, and garbage_collect() never writes over an entry   *)
(* it has yet to move.  For the calls of ListDictionary it implements the  *)
(* dictionary its class comment promises.                                  *)
(***************************************************************************)
EXTENDS ListDictionary, ContainerProofs

(* Types of the members and locals (list.hpp:28-42). *)
Types ==
  /\ IsPool(pool)
  /\ indices \in Seq(Nat)
  /\ \A i \in DOMAIN data : i \in Nat /\ data[i] \in Contents
  /\ \A i \in DOMAIN name.kv : i \in Nat /\ name.kv[i] \in Keys
  /\ \A k \in DOMAIN name.vk : k \in Keys /\ name.vk[k] \in Nat
  /\ pc \in {"idle", "gc"}
  /\ alive \in Seq(Nat)
  /\ new_i \in Nat

(* Slot i has a value and a name. *)
Backed(i) == i \in DOMAIN data /\ i \in DOMAIN name.kv

(* What garbage_collect() knows at the head of its loop: the entries done  *)
(* are in the first slots and renumbered, the others still in their old    *)
(* slots, which the indices list at or behind their new positions.         *)
LoopInv ==
  pc = "gc" =>
    /\ new_i <= Len(alive)
    /\ Len(alive) <= Len(indices)
    /\ Increasing(alive)
    /\ \A m \in DOMAIN alive :
         /\ alive[m] < pool.size
         /\ m <= new_i => Backed(m - 1) /\ indices[m] = m - 1
         /\ new_i < m => /\ Backed(alive[m])
                         /\ \E p \in DOMAIN indices :
                              m <= p /\ indices[p] = alive[m]

(* Types alone is not inductive: the value that garbage_collect() moves    *)
(* has a type because its slot is backed, and that it is backed follows    *)
(* from the order of the indices.                                          *)
ListInv == Types /\ IndicesOrdered /\ SlotsBacked /\ LoopInv
-----------------------------------------------------------------------------
(* What ListInv says of m_indices, in the form the steps use it: strictly  *)
(* increasing numbers below m_size, each backed between two calls.         *)
LEMMA IndicesFacts ==
  ASSUME ListInv
  PROVE  /\ Increasing(indices)
         /\ Len(indices) \in Nat
         /\ DOMAIN indices = 1..Len(indices)
         /\ \A p \in DOMAIN indices : indices[p] \in Nat
         /\ pool.size \in Nat
         /\ Len(indices) <= pool.size
<1>1. /\ indices \in Seq(Nat)
      /\ Len(indices) \in Nat
      /\ DOMAIN indices = 1..Len(indices)
      /\ \A p \in DOMAIN indices : indices[p] \in Nat
  BY DEF ListInv, Types
<1>2. pool.size \in Nat
  BY DEF ListInv, Types, IsPool
<1>3. Increasing(indices)
  BY <1>1 DEF ListInv, IndicesOrdered, Increasing
<1>4. Len(indices) <= pool.size
  <2>1. CASE Len(indices) = 0
    BY <1>2, <2>1
  <2>2. CASE Len(indices) # 0
    <3>1. Len(indices) \in DOMAIN indices
      BY <1>1, <2>2
    <3>2. /\ Len(indices) - 1 <= indices[Len(indices)]
          /\ indices[Len(indices)] < pool.size
      BY <3>1 DEF ListInv, IndicesOrdered
    <3>3. QED
      BY <1>1, <1>2, <3>1, <3>2
  <2>3. QED
    BY <2>1, <2>2
<1>5. QED
  BY <1>1, <1>2, <1>3, <1>4

(* A list starts out empty (list.hpp:36-39), and so satisfies ListInv. *)
LEMMA InitInv == Init => ListInv
<1> SUFFICES ASSUME Init PROVE ListInv
  OBVIOUS
<1>1. Types
  BY DEF Init, Types, EmptyPool, EmptyBimap, EmptyMap, IsPool
<1>2. IndicesOrdered /\ SlotsBacked /\ LoopInv
  BY DEF Init, IndicesOrdered, SlotsBacked, LoopInv
<1>3. QED
  BY <1>1, <1>2 DEF ListInv

-----------------------------------------------------------------------------
(* The steps of the operations *)

(* A slot from the pool gets a key and a value. *)
LEMMA StoreKeeps ==
  ASSUME ListInv, NEW k \in Keys, NEW v \in Contents,
         pc = "idle", Store(k, v), UNCHANGED gcVars
  PROVE  ListInv'
<1> DEFINE i == NextIndex(pool)
<1>1. /\ i \in Nat
      /\ IsPool(pool)
      /\ IsPool(pool')
      /\ HasDeprecated(pool) => pool'.size = pool.size
      /\ ~HasDeprecated(pool) => i = pool.size /\ pool'.size = pool.size + 1
  BY PoolGet DEF ListInv, Types, Store
<1>2. /\ indices' = IF HasDeprecated(pool) THEN indices ELSE Append(indices, i)
      /\ pc' = "idle" /\ alive' = alive /\ new_i' = new_i
  BY DEF Store, gcVars
<1>data. data' = Put(data, i, v)
  BY DEF Store
<1>kv. name'.kv = Put(name.kv, i, k)
  BY DEF Store, Assign
<1>vk. name'.vk = Put(name.vk, k, i)
  BY DEF Store, Assign
<1> HIDE DEF i
<1>3. /\ DOMAIN data' = DOMAIN data \cup {i}
      /\ DOMAIN name'.kv = DOMAIN name.kv \cup {i}
  BY <1>data, <1>kv DEF Put
<1>4. Types'
  <2>1. indices' \in Seq(Nat)
    BY <1>1, <1>2 DEF ListInv, Types
  <2>2. \A j \in DOMAIN data' : j \in Nat /\ data'[j] \in Contents
    BY <1>1, <1>data DEF ListInv, Types, Put
  <2>3. \A j \in DOMAIN name'.kv : j \in Nat /\ name'.kv[j] \in Keys
    BY <1>1, <1>kv DEF ListInv, Types, Put
  <2>4. \A l \in DOMAIN name'.vk : l \in Keys /\ name'.vk[l] \in Nat
    BY <1>1, <1>vk DEF ListInv, Types, Put
  <2>5. QED
    BY <1>1, <1>2, <2>1, <2>2, <2>3, <2>4 DEF ListInv, Types
<1>5. IndicesOrdered' /\ SlotsBacked'
  <2>1. CASE HasDeprecated(pool)
    BY <1>1, <1>2, <1>3, <2>1
    DEF ListInv, IndicesOrdered, SlotsBacked
  <2>2. CASE ~HasDeprecated(pool)
    <3>1. /\ indices' = Append(indices, pool.size)
          /\ pool'.size = pool.size + 1
          /\ i = pool.size
      BY <1>1, <1>2, <2>2
    <3>2. /\ DOMAIN indices' = 1..(Len(indices) + 1)
          /\ \A p \in DOMAIN indices : indices'[p] = indices[p]
          /\ indices'[Len(indices) + 1] = pool.size
      BY <3>1, IndicesFacts DEF ListInv, Types
    <3>3. \A p \in DOMAIN indices' :
            p \in DOMAIN indices \/ p = Len(indices) + 1
      BY <3>2, IndicesFacts
    <3>4. \A p \in DOMAIN indices' :
            p - 1 <= indices'[p] /\ indices'[p] < pool'.size
      BY <3>1, <3>2, <3>3, IndicesFacts DEF ListInv, IndicesOrdered
    <3>5. \A p, q \in DOMAIN indices' : p < q => indices'[p] < indices'[q]
      BY <3>1, <3>2, <3>3, IndicesFacts DEF ListInv, IndicesOrdered
    <3>6. \A p \in DOMAIN indices' :
            indices'[p] \in DOMAIN data' /\ indices'[p] \in DOMAIN name'.kv
      BY <1>3, <3>1, <3>2, <3>3 DEF ListInv, SlotsBacked
    <3>7. QED
      BY <3>4, <3>5, <3>6 DEF IndicesOrdered, SlotsBacked
  <2>3. QED
    BY <2>1, <2>2
<1>6. LoopInv'
  BY <1>2 DEF LoopInv
<1>7. QED
  BY <1>4, <1>5, <1>6 DEF ListInv

(* A value is written into a slot that has one. *)
LEMMA AssignKeeps ==
  ASSUME ListInv, NEW i \in DOMAIN data, NEW v \in Contents,
         pc = "idle", data' = [data EXCEPT ![i] = v],
         UNCHANGED <<pool, indices, name, pc, alive, new_i>>
  PROVE  ListInv'
<1>1. /\ DOMAIN data' = DOMAIN data
      /\ \A j \in DOMAIN data' : j \in Nat /\ data'[j] \in Contents
  BY DEF ListInv, Types
<1>2. QED
  BY <1>1 DEF ListInv, Types, IndicesOrdered, SlotsBacked, LoopInv

(* list[k] = v writes into a slot that has a value, or stores anew         *)
(* (list.cpp:26-40).                                                       *)
LEMMA SubscriptKeyKeeps ==
  ASSUME ListInv, NEW k \in Keys, NEW v \in Contents, SubscriptKey(k, v)
  PROVE  ListInv'
<1>1. CASE HasKey(k)
  BY <1>1, AssignKeeps DEF SubscriptKey, gcVars
<1>2. CASE ~HasKey(k)
  BY <1>2, StoreKeeps DEF SubscriptKey
<1>3. QED
  BY <1>1, <1>2

(* erase(i) of any number keeps ListInv (list.cpp:67). *)
LEMMA EraseIndexKeeps ==
  ASSUME ListInv, NEW i \in Nat, EraseIndex(i)
  PROVE  ListInv'
<1>1. IsPool(pool') /\ pool'.size = pool.size
  BY DEF ListInv, Types, EraseIndex, Deprecate, IsPool
<1>2. QED
  BY <1>1
  DEF EraseIndex, ListInv, Types, IndicesOrdered, SlotsBacked, LoopInv

-----------------------------------------------------------------------------
(* The steps of garbage_collect() *)

(* The loop of garbage_collect() starts in a state that satisfies LoopInv. *)
LEMMA GcBeginKeeps ==
  ASSUME ListInv, GcBegin
  PROVE  ListInv'
<1>1. /\ pc = "idle" /\ pc' = "gc"
      /\ alive' = Filtered(indices, pool.deprecated)
      /\ new_i' = 0
      /\ pool' = pool /\ indices' = indices /\ data' = data /\ name' = name
  BY DEF GcBegin, ValidIndices, listVars
<1>2. /\ Increasing(alive')
      /\ Len(alive') <= Len(indices)
  BY <1>1, IndicesFacts, FilteredGives
<1>3. \A m \in DOMAIN alive' :
        \E p \in DOMAIN indices : m <= p /\ indices[p] = alive'[m]
  BY <1>1, IndicesFacts, FilteredGives
<1>4. \A m \in DOMAIN alive' :
        /\ alive'[m] < pool.size
        /\ alive'[m] \in DOMAIN data /\ alive'[m] \in DOMAIN name.kv
  BY <1>1, <1>3 DEF ListInv, IndicesOrdered, SlotsBacked
<1>5. /\ alive' \in Seq(Nat)
      /\ \A m \in DOMAIN alive' : m \in Nat /\ ~ (m <= 0)
      /\ 0 <= Len(alive')
  BY <1>2 DEF Increasing
<1>6. LoopInv'
  BY <1>1, <1>2, <1>3, <1>4, <1>5 DEF LoopInv, Backed
<1>7. QED
  BY <1>1, <1>5, <1>6 DEF ListInv, Types, IndicesOrdered, SlotsBacked

(* What the head of the loop knows when there is an entry left. *)
LEMMA LoopFacts ==
  ASSUME ListInv, pc = "gc", new_i < Len(alive)
  PROVE  /\ new_i \in Nat
         /\ new_i + 1 \in DOMAIN alive
         /\ new_i + 1 \in DOMAIN indices
         /\ alive[new_i + 1] \in Nat
         /\ new_i <= alive[new_i + 1]
         /\ Backed(alive[new_i + 1])
         /\ \A m \in DOMAIN alive :
              /\ m \in Nat
              /\ alive[m] \in Nat
              /\ new_i + 1 < m => alive[new_i + 1] < alive[m]
         /\ \E p \in DOMAIN indices :
              new_i + 1 <= p /\ indices[p] = alive[new_i + 1]
<1>1. /\ new_i \in Nat
      /\ alive \in Seq(Nat)
      /\ Len(alive) \in Nat
      /\ DOMAIN alive = 1..Len(alive)
      /\ \A m \in DOMAIN alive : m \in Nat /\ alive[m] \in Nat
  BY DEF ListInv, Types
<1>2. new_i + 1 \in DOMAIN alive
  BY <1>1
<1>3. /\ Len(alive) <= Len(indices)
      /\ \A m \in DOMAIN alive : m - 1 <= alive[m]
      /\ \A m, n \in DOMAIN alive : m < n => alive[m] < alive[n]
      /\ \A m \in DOMAIN alive :
           new_i < m => /\ Backed(alive[m])
                        /\ \E p \in DOMAIN indices :
                             m <= p /\ indices[p] = alive[m]
  BY DEF ListInv, LoopInv, Increasing
<1>4. new_i + 1 \in DOMAIN indices
  BY <1>1, <1>3, IndicesFacts
<1> DEFINE m1 == new_i + 1
<1>5. /\ m1 \in DOMAIN alive
      /\ new_i < m1
      /\ m1 - 1 = new_i
  BY <1>1, <1>2
<1> HIDE DEF m1
<1>6. /\ new_i <= alive[m1]
      /\ Backed(alive[m1])
      /\ \E p \in DOMAIN indices : m1 <= p /\ indices[p] = alive[m1]
  BY <1>3, <1>5
<1>7. \A m \in DOMAIN alive : m1 < m => alive[m1] < alive[m]
  BY <1>3, <1>5
<1>8. QED
  BY <1>1, <1>2, <1>4, <1>6, <1>7 DEF m1

(* An entry that is already in its place stays there (list.cpp:9-11). *)
LEMMA GcKeepKeeps ==
  ASSUME ListInv, GcKeep
  PROVE  ListInv'
<1>1. /\ pc = "gc" /\ pc' = "gc"
      /\ new_i < Len(alive) /\ alive[new_i + 1] = new_i
      /\ new_i' = new_i + 1
      /\ UNCHANGED <<pool, indices, data, name, alive>>
  BY DEF GcKeep
<1>2. /\ indices[new_i + 1] = new_i
      /\ Backed(new_i)
  <2>1. PICK p \in DOMAIN indices : new_i + 1 <= p /\ indices[p] = new_i
    BY <1>1, LoopFacts
  <2>2. p - 1 <= new_i /\ p \in Nat
    BY <2>1, IndicesFacts DEF Increasing
  <2>3. p = new_i + 1
    BY <1>1, <2>1, <2>2, LoopFacts
  <2>4. QED
    BY <1>1, <2>1, <2>3, LoopFacts
<1>3. LoopInv'
  BY <1>1, <1>2, LoopFacts DEF ListInv, LoopInv, Backed
<1>4. QED
  BY <1>1, <1>3, LoopFacts
  DEF ListInv, Types, IndicesOrdered, SlotsBacked

(* An entry moves down: no entry that has yet to move is in its new slot,  *)
(* and every later one is above the slot it leaves.                        *)
LEMMA GcMoveKeeps ==
  ASSUME ListInv, GcMove
  PROVE  ListInv'
<1> DEFINE old_i == alive[new_i + 1]
<1>1. /\ pc = "gc" /\ pc' = "gc"
      /\ new_i < Len(alive) /\ old_i # new_i
      /\ indices' = [indices EXCEPT ![new_i + 1] = new_i]
      /\ new_i' = new_i + 1
      /\ pool' = pool /\ alive' = alive
  BY DEF GcMove
<1>data. data' = Drop(Put(data, new_i, data[old_i]), old_i)
  BY DEF GcMove
<1>kv. name'.kv = Drop(Put(name.kv, new_i, name.kv[old_i]), old_i)
  BY DEF GcMove, EraseKeyOf, Assign
<1>vk. name'.vk = Drop(Put(name.vk, name.kv[old_i], new_i),
                       Put(name.kv, new_i, name.kv[old_i])[old_i])
  BY DEF GcMove, EraseKeyOf, Assign
<1>2. /\ new_i \in Nat /\ old_i \in Nat /\ new_i < old_i
      /\ old_i \in DOMAIN data /\ old_i \in DOMAIN name.kv
  BY <1>1, LoopFacts DEF Backed
<1> HIDE DEF old_i
<1>3. /\ DOMAIN data' = (DOMAIN data \cup {new_i}) \ {old_i}
      /\ DOMAIN name'.kv = (DOMAIN name.kv \cup {new_i}) \ {old_i}
  BY <1>data, <1>kv DEF Drop, Put
<1>4. /\ Len(indices') = Len(indices) /\ indices' \in Seq(Nat)
      /\ DOMAIN indices' = DOMAIN indices
      /\ indices'[new_i + 1] = new_i
      /\ \A p \in DOMAIN indices : p # new_i + 1 => indices'[p] = indices[p]
  BY <1>1, <1>2, LoopFacts, IndicesFacts DEF ListInv, Types
<1>5. Types'
  <2>1. \A j \in DOMAIN data' : j \in Nat /\ data'[j] \in Contents
    BY <1>2, <1>data DEF ListInv, Types, Put, Drop
  <2>2. \A j \in DOMAIN name'.kv : j \in Nat /\ name'.kv[j] \in Keys
    BY <1>2, <1>kv DEF ListInv, Types, Put, Drop
  <2>3. \A l \in DOMAIN name'.vk : l \in Keys /\ name'.vk[l] \in Nat
    BY <1>2, <1>vk DEF ListInv, Types, Put, Drop
  <2>4. QED
    BY <1>1, <1>2, <1>4, <2>1, <2>2, <2>3 DEF ListInv, Types
<1>6. IndicesOrdered'
  <2>1. new_i < pool.size
    BY <1>1, <1>2, LoopFacts, IndicesFacts DEF ListInv, LoopInv, old_i
  <2>2. \A p \in DOMAIN indices : p \in Nat /\ p - 1 <= indices[p]
    BY IndicesFacts DEF Increasing
  <2>3. \A p \in DOMAIN indices : p < new_i + 1 => indices[p] = p - 1
    <3>1. \A p \in DOMAIN indices : p < new_i + 1 => p \in DOMAIN alive
      BY <1>1, <1>2, IndicesFacts DEF ListInv, Types
    <3>2. \A m \in DOMAIN alive : m <= new_i => indices[m] = m - 1
      BY <1>1 DEF ListInv, LoopInv
    <3>3. QED
      BY <1>2, <2>2, <3>1, <3>2
  <2>4. \A p \in DOMAIN indices' :
          p - 1 <= indices'[p] /\ indices'[p] < pool'.size
    BY <1>1, <1>2, <1>4, <2>1, <2>2 DEF ListInv, IndicesOrdered
  <2>5. ASSUME NEW p \in DOMAIN indices, NEW q \in DOMAIN indices, p < q
        PROVE  indices'[p] < indices'[q]
    <3>1. p \in Nat /\ q \in Nat /\ indices[p] < indices[q]
      BY <2>2, <2>5 DEF ListInv, IndicesOrdered
    <3>2. CASE p = new_i + 1
      BY <1>2, <1>4, <2>2, <2>5, <3>1, <3>2, IndicesFacts
    <3>3. CASE q = new_i + 1
      BY <1>2, <1>4, <2>3, <2>5, <3>1, <3>3
    <3>4. CASE p # new_i + 1 /\ q # new_i + 1
      BY <1>4, <3>1, <3>4
    <3>5. QED
      BY <3>2, <3>3, <3>4
  <2>6. QED
    BY <1>4, <2>4, <2>5 DEF IndicesOrdered
<1>7. LoopInv'
  <2>1. ASSUME NEW m \in DOMAIN alive
        PROVE  /\ alive[m] < pool.size
               /\ m <= new_i + 1 =>
                    /\ m - 1 \in DOMAIN data' /\ m - 1 \in DOMAIN name'.kv
                    /\ indices'[m] = m - 1
               /\ new_i + 1 < m =>
                    /\ alive[m] \in DOMAIN data' /\ alive[m] \in DOMAIN name'.kv
                    /\ \E p \in DOMAIN indices' : m <= p /\ indices'[p] = alive[m]
    <3>1. m \in Nat /\ alive[m] < pool.size
      BY <1>1, LoopFacts DEF ListInv, LoopInv
    <3>2. CASE m <= new_i
      <4>1. /\ m - 1 \in DOMAIN data /\ m - 1 \in DOMAIN name.kv
            /\ indices[m] = m - 1
        BY <1>1, <3>2 DEF ListInv, LoopInv, Backed
      <4>2. m \in DOMAIN indices
        <5>1. DOMAIN alive = 1..Len(alive) /\ Len(alive) \in Nat
          BY DEF ListInv, Types
        <5>2. Len(alive) <= Len(indices)
          BY <1>1 DEF ListInv, LoopInv
        <5>3. QED
          BY <5>1, <5>2, IndicesFacts
      <4>3. m - 1 # old_i /\ m # new_i + 1
        BY <1>2, <3>1, <3>2
      <4>4. QED
        BY <1>2, <1>3, <1>4, <3>1, <3>2, <4>1, <4>2, <4>3
    <3>3. CASE m = new_i + 1
      BY <1>2, <1>3, <1>4, <3>1, <3>3
    <3>4. CASE new_i + 1 < m
      <4>1. /\ old_i < alive[m] /\ alive[m] \in Nat
            /\ Backed(alive[m])
            /\ \E p \in DOMAIN indices : m <= p /\ indices[p] = alive[m]
        BY <1>1, <1>2, <3>1, <3>4, LoopFacts DEF ListInv, LoopInv, old_i
      <4>2. \E p \in DOMAIN indices' : m <= p /\ indices'[p] = alive[m]
        <5>1. PICK p \in DOMAIN indices : m <= p /\ indices[p] = alive[m]
          BY <4>1
        <5>2. p # new_i + 1
          BY <1>2, <3>1, <3>4, <5>1, IndicesFacts
        <5>3. QED
          BY <1>4, <5>1, <5>2
      <4>3. QED
        BY <1>2, <1>3, <3>1, <3>4, <4>1, <4>2 DEF Backed
    <3>5. QED
      BY <1>2, <3>1, <3>2, <3>3, <3>4
  <2>2. new_i + 1 <= Len(alive)
    BY <1>1, <1>2 DEF ListInv, Types
  <2>3. QED
    BY <1>1, <1>4, <2>1, <2>2 DEF ListInv, LoopInv, Backed
<1>8. QED
  BY <1>1, <1>5, <1>6, <1>7 DEF ListInv, SlotsBacked

(* The end of the loop cuts the indices to the entries kept, which by then *)
(* are numbered by position.                                               *)
LEMMA GcEndKeeps ==
  ASSUME ListInv, GcEnd
  PROVE  ListInv'
<1>1. /\ pc = "gc" /\ pc' = "idle"
      /\ new_i = Len(alive)
      /\ indices' = SubSeq(indices, 1, Len(alive))
      /\ pool' = Clear(pool)
      /\ alive' = <<>> /\ new_i' = 0
      /\ data' = data /\ name' = name
  BY DEF GcEnd
<1>2. /\ Len(alive) \in Nat
      /\ DOMAIN alive = 1..Len(alive)
      /\ \A m \in DOMAIN alive : alive[m] \in Nat
  BY DEF ListInv, Types
<1>3. /\ Len(alive) <= Len(indices)
      /\ \A m \in DOMAIN alive :
           /\ m - 1 <= alive[m] /\ alive[m] < pool.size
           /\ m - 1 \in DOMAIN data /\ m - 1 \in DOMAIN name.kv
           /\ indices[m] = m - 1
  <2>1. \A m \in DOMAIN alive : m <= new_i
    BY <1>1, <1>2
  <2>2. QED
    BY <1>1, <2>1 DEF ListInv, LoopInv, Increasing, Backed
<1>4. IsPool(pool') /\ pool'.size = pool.size
  BY <1>1 DEF ListInv, Types, Clear, IsPool
<1>5. /\ indices' \in Seq(Nat)
      /\ DOMAIN indices' = DOMAIN alive
      /\ \A m \in DOMAIN alive : indices'[m] = m - 1
  <2>1. \A m \in 1..Len(alive) : indices[m] \in Nat
    BY <1>2, <1>3, IndicesFacts
  <2>2. /\ indices' \in Seq(Nat)
        /\ Len(indices') = Len(alive)
        /\ \A m \in 1..Len(alive) : indices'[m] = indices[m]
    BY <1>1, <1>2, <2>1, SubSeqProperties
  <2>3. QED
    BY <1>2, <1>3, <2>2
<1>6. Types'
  BY <1>1, <1>4, <1>5 DEF ListInv, Types
<1>7. IndicesOrdered'
  BY <1>2, <1>3, <1>4, <1>5, IndicesFacts DEF IndicesOrdered
<1>8. SlotsBacked' /\ LoopInv'
  BY <1>1, <1>3, <1>5 DEF SlotsBacked, LoopInv
<1>9. QED
  BY <1>6, <1>7, <1>8 DEF ListInv

-----------------------------------------------------------------------------
(* The next slot is none in use: it is a deprecated one or lies above all  *)
(* indices.                                                                *)
LEMMA NextIndexIsFree == ListInv => NextIndexFree
<1> SUFFICES ASSUME ListInv, IsValid(NextIndex(pool))
             PROVE  FALSE
  BY DEF NextIndexFree
<1>1. IsPool(pool)
  BY DEF ListInv, Types
<1>2. CASE HasDeprecated(pool)
  BY <1>1, <1>2, PoolGet DEF IsValid, IsDeprecated
<1>3. CASE ~HasDeprecated(pool)
  <2>1. pool.size \in RangeOf(indices)
    BY <1>1, <1>3, PoolGet DEF IsValid
  <2>2. PICK p \in DOMAIN indices : indices[p] = pool.size
    BY <2>1 DEF RangeOf
  <2>3. indices[p] < pool.size
    BY DEF ListInv, IndicesOrdered
  <2>4. QED
    BY <2>2, <2>3, IndicesFacts
<1>4. QED
  BY <1>2, <1>3

(* Every step keeps ListInv. *)
LEMMA NextKeeps ==
  ASSUME ListInv, [Next]_vars
  PROVE  ListInv'
<1>1. AnyIndex \subseteq Nat
  BY ListAssumption DEF AnyIndex
<1>2. CASE \E k \in Keys, v \in Values : InsertOrAssign(k, v)
  BY <1>2, StoreKeeps DEF InsertOrAssign, Contents
<1>3. CASE \E k \in Keys, v \in Contents : SubscriptKey(k, v)
  BY <1>3, SubscriptKeyKeeps
<1>4. CASE \E i \in AnyIndex, v \in Contents : SubscriptIndex(i, v)
  <2>1. PICK i \in AnyIndex, v \in Contents : SubscriptIndex(i, v)
    BY <1>4
  <2>2. name.kv[i] \in Keys /\ SubscriptKey(name.kv[i], v)
    BY <2>1 DEF SubscriptIndex, ListInv, Types
  <2>3. QED
    BY <2>2, SubscriptKeyKeeps
<1>5. CASE \E i \in AnyIndex, v \in Values : AssignAt(i, v)
  BY <1>5, AssignKeeps DEF AssignAt, Contents
<1>6. CASE \E i \in AnyIndex : EraseIndex(i)
  BY <1>1, <1>6, EraseIndexKeeps
<1>7. CASE \E k \in Keys : EraseKey(k)
  <2>1. PICK k \in Keys : EraseKey(k)
    BY <1>7
  <2>2. name.vk[k] \in Nat /\ EraseIndex(name.vk[k])
    BY <2>1 DEF EraseKey, HasKey, ListInv, Types
  <2>3. QED
    BY <2>2, EraseIndexKeeps
<1>8. CASE GarbageCollect
  BY <1>8, GcBeginKeeps, GcKeepKeeps, GcMoveKeeps, GcEndKeeps
  DEF GarbageCollect
<1>9. CASE UNCHANGED vars
  BY <1>9
  DEF vars, ListInv, Types, IndicesOrdered, SlotsBacked, LoopInv, Backed
<1>10. QED
  BY <1>2, <1>3, <1>4, <1>5, <1>6, <1>7, <1>8, <1>9 DEF Next

(* ListInv holds in every state of every program that uses one list. *)
THEOREM Invariance == Spec => []ListInv
BY InitInv, NextKeeps, PTL DEF Spec

-----------------------------------------------------------------------------
(* The theorems *)

(* m_indices is sorted, without repetition, below the pool's counter, and  *)
(* never below position (list.hpp:18).                                     *)
THEOREM OrderKept == Spec => []IndicesOrdered
BY Invariance, PTL DEF ListInv

(* Between calls every index in m_indices has a value and a name: a loop   *)
(* over the indices can use at() and name_of() (list.cpp:54-58).           *)
THEOREM SlotsAreBacked == Spec => []SlotsBacked
BY Invariance, PTL DEF ListInv

(* The pool never hands out the slot of an entry in use (pool.hpp:35-43).  *)
THEOREM InsertionsTakeFreeSlots == Spec => []NextIndexFree
BY NextIndexIsFree, Invariance, PTL

(* garbage_collect() never writes into the slot of an entry that it has    *)
(* yet to move (list.cpp:12-16).                                           *)
THEOREM CollectorTargetsFree == Spec => []GcTargetFree
<1>1. ListInv => GcTargetFree
  <2> SUFFICES ASSUME ListInv, pc = "gc", NEW m \in DOMAIN alive,
                      new_i + 1 < m
               PROVE  alive[m] # new_i
    BY DEF GcTargetFree
  <2>1. m \in Nat /\ new_i \in Nat /\ alive[m] \in Nat
    BY DEF ListInv, Types
  <2>2. m - 1 <= alive[m]
    BY DEF ListInv, LoopInv, Increasing
  <2>3. QED
    BY <2>1, <2>2
<1>2. QED
  BY <1>1, Invariance, PTL

(* Inserting changes neither the value nor the name of an entry in use,    *)
(* whatever slot it gets (list.hpp:65-82).                                 *)
THEOREM InsertionsKeepOthers == Spec => InsertKeepsOthers
<1>1. ASSUME ListInv, NEW k \in Keys, NEW v \in Values, InsertOrAssign(k, v),
             NEW i \in RangeOf(ValidIndices)
      PROVE  /\ IsValid(i)'
             /\ data'[i] = data[i]
             /\ name'.kv[i] = name.kv[i]
  <2>1. i \in RangeOf(indices) /\ i \notin pool.deprecated
    BY <1>1, IndicesFacts, FilteredGives DEF ValidIndices
  <2>2. PICK p \in DOMAIN indices : indices[p] = i
    BY <2>1 DEF RangeOf
  <2>3. /\ pc = "idle"
        /\ i \in DOMAIN data /\ i \in DOMAIN name.kv
    BY <1>1, <2>2 DEF InsertOrAssign, ListInv, SlotsBacked
  <2> DEFINE n == NextIndex(pool)
  <2>4. n # i
    BY <1>1, <2>1, <2>3, NextIndexIsFree
    DEF NextIndexFree, IsValid, IsDeprecated
  <2>5. /\ data' = Put(data, n, v)
        /\ name'.kv = Put(name.kv, n, k)
        /\ indices' = IF HasDeprecated(pool) THEN indices ELSE Append(indices, n)
        /\ pool' = AfterGet(pool)
    BY <1>1 DEF InsertOrAssign, Store, Assign
  <2>6. data'[i] = data[i] /\ name'.kv[i] = name.kv[i]
    <3> HIDE DEF n
    <3>1. QED
      BY <2>3, <2>4, <2>5 DEF Put
  <2>7. i \in RangeOf(indices')
    <3> HIDE DEF n
    <3>1. p \in DOMAIN indices' /\ indices'[p] = i
      BY <1>1, <2>2, <2>5, IndicesFacts DEF ListInv, Types
    <3>2. QED
      BY <3>1 DEF RangeOf
  <2>8. i \notin pool'.deprecated
    BY <1>1, <2>1, <2>5, PoolGet DEF ListInv, Types
  <2>9. QED
    BY <2>6, <2>7, <2>8 DEF IsValid, IsDeprecated
<1>2. ListInv /\ [Next]_vars =>
        [\A k \in Keys, v \in Values :
           InsertOrAssign(k, v) =>
             \A i \in RangeOf(ValidIndices) :
               /\ IsValid(i)'
               /\ data'[i] = data[i]
               /\ name'.kv[i] = name.kv[i]]_vars
  BY <1>1
<1>3. QED
  BY <1>2, Invariance, PTL DEF Spec, InsertKeepsOthers

(* Collecting changes neither which entries are in use, nor their order,   *)
(* nor the name and the value of any of them: not in the course of the     *)
(* loop, and not when it is done (list.cpp:6-24).                          *)
THEOREM CollectingKeepsEntries == Spec => GcKeepsEntries
<1>1. ASSUME ListInv, GcBegin
      PROVE  Entries' = Entries
  <2>1. /\ pc = "idle" /\ pc' = "gc"
        /\ alive' = ValidIndices /\ new_i' = 0
        /\ data' = data /\ name' = name
    BY <1>1 DEF GcBegin, listVars
  <2>2. /\ alive' \in Seq(Nat)
        /\ \A m \in DOMAIN alive' : m \in Nat /\ ~ (m <= 0)
    <3>1. Increasing(alive')
      BY <1>1, <2>1, IndicesFacts, FilteredGives DEF ValidIndices
    <3>2. QED
      BY <3>1 DEF Increasing
  <2>3. Slots = alive' /\ DOMAIN Slots' = DOMAIN alive'
    BY <2>1 DEF Slots
  <2>4. \A m \in DOMAIN alive' : Slots'[m] = alive'[m]
    BY <2>1, <2>2 DEF Slots
  <2>5. QED
    BY <2>1, <2>3, <2>4 DEF Entries
<1>2. ASSUME ListInv, GcKeep
      PROVE  Entries' = Entries
  <2>1. /\ pc = "gc" /\ pc' = "gc"
        /\ new_i < Len(alive) /\ alive[new_i + 1] = new_i
        /\ new_i' = new_i + 1
        /\ alive' = alive /\ data' = data /\ name' = name
    BY <1>2 DEF GcKeep
  <2>2. \A m \in DOMAIN alive : m \in Nat /\ new_i \in Nat
    BY <1>2 DEF ListInv, Types
  <2>3. DOMAIN Slots = DOMAIN alive /\ DOMAIN Slots' = DOMAIN alive
    BY <2>1 DEF Slots
  <2>4. \A m \in DOMAIN alive : Slots'[m] = Slots[m]
    BY <2>1, <2>2 DEF Slots
  <2>5. QED
    BY <2>1, <2>3, <2>4 DEF Entries
<1>3. ASSUME ListInv, GcMove
      PROVE  Entries' = Entries
  <2> DEFINE old_i == alive[new_i + 1]
  <2>1. /\ pc = "gc" /\ pc' = "gc"
        /\ new_i < Len(alive) /\ old_i # new_i
        /\ new_i' = new_i + 1 /\ alive' = alive
        /\ data' = Drop(Put(data, new_i, data[old_i]), old_i)
        /\ name'.kv = Drop(Put(name.kv, new_i, name.kv[old_i]), old_i)
    BY <1>3 DEF GcMove, EraseKeyOf, Assign
  <2>2. /\ new_i \in Nat /\ old_i \in Nat /\ new_i < old_i
        /\ \A m \in DOMAIN alive : m \in Nat /\ alive[m] \in Nat
        /\ \A m \in DOMAIN alive : new_i + 1 < m => old_i < alive[m]
    BY <1>3, <2>1, LoopFacts
  <2>3. DOMAIN Slots = DOMAIN alive /\ DOMAIN Slots' = DOMAIN alive
    BY <2>1 DEF Slots
  <2>4. \A m \in DOMAIN alive :
          /\ m <= new_i => m - 1 \in DOMAIN data /\ m - 1 \in DOMAIN name.kv
          /\ new_i < m => alive[m] \in DOMAIN data /\ alive[m] \in DOMAIN name.kv
    BY <1>3, <2>1 DEF ListInv, LoopInv, Backed
  <2> HIDE DEF old_i
  <2>5. ASSUME NEW m \in DOMAIN alive
        PROVE  /\ name'.kv[Slots'[m]] = name.kv[Slots[m]]
               /\ data'[Slots'[m]] = data[Slots[m]]
    <3>1. CASE m = new_i + 1
      <4>1. Slots[m] = old_i /\ Slots'[m] = new_i
        BY <2>1, <2>2, <3>1 DEF Slots, old_i
      <4>2. QED
        BY <2>1, <2>2, <4>1 DEF Put, Drop
    <3>2. CASE m # new_i + 1
      <4>1. Slots'[m] = Slots[m]
        BY <2>1, <2>2, <3>2 DEF Slots
      <4>2. /\ Slots[m] # new_i /\ Slots[m] # old_i
            /\ Slots[m] \in DOMAIN data /\ Slots[m] \in DOMAIN name.kv
        <5>1. CASE m <= new_i
          BY <2>1, <2>2, <2>4, <5>1 DEF Slots
        <5>2. CASE new_i + 1 < m
          BY <2>1, <2>2, <2>4, <5>2 DEF Slots
        <5>3. QED
          BY <2>2, <3>2, <5>1, <5>2
      <4>3. QED
        BY <2>1, <4>1, <4>2 DEF Put, Drop
    <3>3. QED
      BY <3>1, <3>2
  <2>6. QED
    BY <2>3, <2>5 DEF Entries
<1>4. ASSUME ListInv, GcEnd
      PROVE  Entries' = Entries
  <2>1. /\ pc = "gc" /\ pc' = "idle"
        /\ new_i = Len(alive)
        /\ indices' = SubSeq(indices, 1, Len(alive))
        /\ pool' = Clear(pool)
        /\ data' = data /\ name' = name
    BY <1>4 DEF GcEnd
  <2>2. /\ Len(alive) \in Nat
        /\ DOMAIN alive = 1..Len(alive)
    BY <1>4 DEF ListInv, Types
  <2>3. \A m \in DOMAIN alive : m <= new_i /\ indices[m] = m - 1
    BY <1>4, <2>1, <2>2 DEF ListInv, LoopInv
  <2>4. Len(alive) <= Len(indices)
    BY <1>4, <2>1 DEF ListInv, LoopInv
  <2>5. /\ DOMAIN indices' = 1..Len(alive)
        /\ \A m \in DOMAIN alive : indices'[m] = m - 1
    <3>1. \A m \in 1..Len(alive) : indices[m] \in Nat
      BY <1>4, <2>2, <2>4, IndicesFacts
    <3>2. /\ indices' \in Seq(Nat)
          /\ Len(indices') = Len(alive)
          /\ \A m \in 1..Len(alive) : indices'[m] = indices[m]
      BY <2>1, <2>2, <3>1, SubSeqProperties
    <3>3. QED
      BY <2>2, <2>3, <3>2
  <2>6. Increasing(indices')
    <3>1. ListInv'
      BY <1>4, GcEndKeeps
    <3>2. indices' \in Seq(Nat)
      BY <3>1 DEF ListInv, Types
    <3>3. QED
      BY <3>1, <3>2 DEF ListInv, IndicesOrdered, Increasing
  <2>7. pool'.deprecated = {}
    BY <1>4, <2>1 DEF Clear, ListInv, Types, IsPool
  <2>8. Slots' = indices'
    BY <2>1, <2>6, <2>7, FilteredNothing DEF Slots, ValidIndices
  <2>9. /\ DOMAIN Slots = DOMAIN alive
        /\ \A m \in DOMAIN alive : Slots[m] = m - 1
    BY <2>1, <2>3 DEF Slots
  <2>10. DOMAIN Slots' = DOMAIN Slots /\ \A m \in DOMAIN Slots : Slots'[m] = Slots[m]
    BY <2>2, <2>5, <2>8, <2>9
  <2>11. QED
    BY <2>1, <2>10 DEF Entries
<1>5. ListInv /\ [Next]_vars => [GarbageCollect => Entries' = Entries]_vars
  BY <1>1, <1>2, <1>3, <1>4 DEF GarbageCollect
<1>6. QED
  BY <1>5, Invariance, PTL DEF Spec, GcKeepsEntries

-----------------------------------------------------------------------------
(* The list as a dictionary *)

(* The slots of the entries in use. *)
Used == RangeOf(indices) \ pool.deprecated

(* Every entry in use is reached by its name. *)
Reached ==
  \A i \in Used : name.kv[i] \in DOMAIN name.vk /\ name.vk[name.kv[i]] = i

(* For the calls of ListDictionary names lead back to their entries at any *)
(* time, and a collection finds every entry in its place.  This is what    *)
(* ListInv lacks: an entry that is overwritten in vk, or moved, would be   *)
(* out of reach.                                                           *)
DictInv ==
  /\ ListInv
  /\ Reached
  /\ pc = "gc" => /\ RangeOf(alive) = Used
                  /\ \A m \in DOMAIN alive : alive[m] = m - 1

(* Key k leads to an entry in use, and back. *)
Leads(k) ==
  k \in DOMAIN name.vk /\ name.vk[k] \in Used /\ name.kv[name.vk[k]] = k

LEMMA ValidAreUsed == ListInv => RangeOf(ValidIndices) = Used
  BY IndicesFacts, FilteredGives DEF ValidIndices, Used

(* Between two calls an entry in use has a key and a value. *)
LEMMA UsedFacts ==
  ASSUME ListInv, pc = "idle", NEW i \in Used
  PROVE  /\ i \in Nat
         /\ i \in DOMAIN data /\ data[i] \in Contents
         /\ i \in DOMAIN name.kv /\ name.kv[i] \in Keys
<1>1. PICK p \in DOMAIN indices : indices[p] = i
  BY DEF Used, RangeOf
<1>2. i \in DOMAIN data /\ i \in DOMAIN name.kv
  BY <1>1 DEF ListInv, SlotsBacked
<1> QED
  BY <1>2 DEF ListInv, Types

(* What a caller sees, by the keys that lead to an entry. *)
LEMMA ViewGives ==
  DictInv =>
    \A k \in Keys :
      /\ Present(k) <=> Leads(k)
      /\ dictView[k] = IF Leads(k) THEN data[name.vk[k]] ELSE Absent
<1> SUFFICES ASSUME DictInv, NEW k \in Keys
             PROVE  /\ Present(k) <=> Leads(k)
                    /\ dictView[k] = IF Leads(k) THEN data[name.vk[k]] ELSE Absent
  OBVIOUS
<1>1. Present(k) <=> \E i \in Used : name.kv[i] = k
  BY ValidAreUsed DEF Present, DictInv
<1>2. Present(k) <=> Leads(k)
  BY <1>1 DEF Leads, DictInv, Reached
<1> QED
  BY <1>2 DEF dictView

LEMMA ViewGivesNext ==
  DictInv' =>
    \A k \in Keys :
      dictView'[k] = IF Leads(k)' THEN data'[name'.vk[k]] ELSE Absent
<1>1. (DictInv =>
         \A k \in Keys :
           /\ Present(k) <=> Leads(k)
           /\ dictView[k] = IF Leads(k) THEN data[name.vk[k]] ELSE Absent)'
  BY ViewGives, PTL
<1> QED
  BY <1>1

(* One key changes its value, and one loses it, in the abstract.           *)
LEMMA SetsKey ==
  ASSUME NEW k \in Keys, NEW v \in Contents, dictView'[k] = v,
         \A l \in Keys : l # k => dictView'[l] = dictView[l]
  PROVE  Dict!Next
<1>1. dictView' = [dictView EXCEPT ![k] = v]
  BY DEF dictView
<1>2. Dict!Set(k, v)
  BY <1>1 DEF Dict!Set
<1> QED
  BY <1>2 DEF Dict!Next

LEMMA RemovesKey ==
  ASSUME NEW k \in Keys, dictView[k] # Absent, dictView'[k] = Absent,
         \A l \in Keys : l # k => dictView'[l] = dictView[l]
  PROVE  Dict!Next
<1>1. dictView' = [dictView EXCEPT ![k] = Absent]
  BY DEF dictView
<1>2. Dict!Remove(k)
  BY <1>1 DEF Dict!Remove
<1> QED
  BY <1>2 DEF Dict!Next

LEMMA SameView ==
  ASSUME \A l \in Keys : dictView'[l] = dictView[l]
  PROVE  dictView' = dictView
  BY DEF dictView

(* A key that no entry has gets a slot and a value (list.hpp:65-82).       *)
LEMMA StoreSets ==
  ASSUME DictInv, NEW k \in Keys, NEW v \in Contents, ~Present(k),
         pc = "idle", Store(k, v), UNCHANGED gcVars
  PROVE  DictInv' /\ [Dict!Next]_dictView
<1> DEFINE i == NextIndex(pool)
<1>1. /\ data' = Put(data, i, v)
      /\ name'.kv = Put(name.kv, i, k)
      /\ name'.vk = Put(name.vk, k, i)
      /\ indices' = IF HasDeprecated(pool) THEN indices ELSE Append(indices, i)
      /\ pool' = AfterGet(pool)
      /\ pc' = "idle"
  BY DEF Store, Assign, gcVars
<1>2. ListInv'
  BY StoreKeeps DEF DictInv
<1>3. i \notin Used
  BY NextIndexIsFree DEF DictInv, NextIndexFree, IsValid, IsDeprecated, Used
<1>4. Used \subseteq Used' /\ Used' \subseteq Used \cup {i}
  <2>1. IsPool(pool) /\ indices \in Seq(Nat)
    BY DEF DictInv, ListInv, Types
  <2>2. CASE HasDeprecated(pool)
    <3>1. indices' = indices /\ pool'.deprecated = pool.deprecated \ {i}
      BY <1>1, <2>1, <2>2 DEF AfterGet, NextIndex, IsPool
    <3> QED
      BY <3>1 DEF Used
  <2>3. CASE ~HasDeprecated(pool)
    <3>1. indices' = Append(indices, i) /\ pool'.deprecated = pool.deprecated
      BY <1>1, <2>1, <2>3 DEF AfterGet, IsPool
    <3>2. i \in Nat
      BY <2>1, PoolGet
    <3> HIDE DEF i
    <3>3. RangeOf(indices') = RangeOf(indices) \cup {i}
      BY <2>1, <3>1, <3>2 DEF RangeOf
    <3> QED
      BY <3>1, <3>3 DEF Used
  <2> QED
    BY <2>2, <2>3
<1> HIDE DEF i
<1>5. \A j \in Used :
        /\ j \in DOMAIN data /\ j \in DOMAIN name.kv
        /\ name.kv[j] \in DOMAIN name.vk /\ name.vk[name.kv[j]] = j
  BY UsedFacts DEF DictInv, Reached
<1>6. \A j \in Used : name.kv[j] # k
  BY ValidAreUsed DEF DictInv, Present
<1>7. \A j \in Used :
        /\ name'.kv[j] = name.kv[j] /\ data'[j] = data[j]
        /\ name'.vk[name.kv[j]] = j /\ name.kv[j] \in DOMAIN name'.vk
  BY <1>1, <1>3, <1>5, <1>6 DEF Put
<1>8. /\ name'.kv[i] = k /\ data'[i] = v
      /\ k \in DOMAIN name'.vk /\ name'.vk[k] = i
  BY <1>1 DEF Put
<1>9. DictInv'
  <2>1. \A j \in Used' : name'.kv[j] \in DOMAIN name'.vk /\ name'.vk[name'.kv[j]] = j
    BY <1>4, <1>7, <1>8
  <2> QED
    BY <1>1, <1>2, <2>1 DEF DictInv, Reached
<1>10. ASSUME NEW l \in Keys, l # k
       PROVE  dictView'[l] = dictView[l]
  <2>1. l \in DOMAIN name'.vk <=> l \in DOMAIN name.vk
    BY <1>1, <1>10 DEF Put
  <2>2. l \in DOMAIN name.vk => name'.vk[l] = name.vk[l]
    BY <1>1, <1>10 DEF Put
  <2>3. Leads(l) => Leads(l)' /\ data'[name'.vk[l]] = data[name.vk[l]]
    BY <1>4, <1>7, <2>1, <2>2 DEF Leads
  <2>4. Leads(l)' => Leads(l)
    BY <1>4, <1>7, <1>8, <1>10, <2>1, <2>2 DEF Leads
  <2> QED
    BY <1>9, <2>3, <2>4, ViewGives, ViewGivesNext
<1>11. CASE i \in Used'
  <2>1. dictView'[k] = v
    BY <1>8, <1>9, <1>11, ViewGivesNext DEF Leads
  <2> QED
    BY <1>9, <1>10, <2>1, SetsKey
<1>12. CASE i \notin Used'
  <2>1. dictView'[k] = Absent /\ dictView[k] = Absent
    BY <1>8, <1>9, <1>12, ViewGives, ViewGivesNext DEF Leads
  <2> QED
    BY <1>9, <1>10, <2>1, SameView
<1> QED
  BY <1>11, <1>12

(* A value is written to an entry in use (list.cpp:26-52).                 *)
LEMMA WriteSets ==
  ASSUME DictInv, NEW i \in Used, NEW v \in Contents, pc = "idle",
         data' = [data EXCEPT ![i] = v],
         UNCHANGED <<pool, indices, name, pc, alive, new_i>>
  PROVE  DictInv' /\ [Dict!Next]_dictView
<1>1. /\ i \in DOMAIN data
      /\ name.kv[i] \in Keys
  BY UsedFacts DEF DictInv
<1>2. ListInv'
  BY <1>1, AssignKeeps DEF DictInv
<1>3. Used' = Used
  BY DEF Used
<1>4. DictInv'
  BY <1>2, <1>3 DEF DictInv, Reached
<1>5. \A l \in Keys : Leads(l)' <=> Leads(l)
  BY <1>3 DEF Leads
<1>6. Leads(name.kv[i]) /\ name.vk[name.kv[i]] = i
  BY DEF DictInv, Reached, Leads
<1>7. dictView'[name.kv[i]] = v
  BY <1>1, <1>4, <1>5, <1>6, ViewGivesNext
<1>8. ASSUME NEW l \in Keys, l # name.kv[i]
      PROVE  dictView'[l] = dictView[l]
  <2>1. Leads(l) => name.vk[l] # i
    BY <1>8 DEF Leads
  <2> QED
    BY <1>4, <1>5, <2>1, ViewGives, ViewGivesNext
<1> QED
  BY <1>1, <1>4, <1>7, <1>8, SetsKey

(* An entry in use is erased (list.cpp:67-68). *)
LEMMA EraseRemoves ==
  ASSUME DictInv, NEW i \in Used, EraseIndex(i)
  PROVE  DictInv' /\ [Dict!Next]_dictView
<1>1. /\ pc = "idle" /\ pc' = "idle"
      /\ pool' = Deprecate(pool, i)
      /\ indices' = indices /\ data' = data /\ name' = name
  BY DEF EraseIndex
<1>2. i \in Nat /\ data[i] \in Contents /\ name.kv[i] \in Keys
  BY <1>1, UsedFacts DEF DictInv
<1>3. ListInv'
  BY <1>2, EraseIndexKeeps DEF DictInv
<1>4. Used' = Used \ {i}
  <2>1. pool'.deprecated = pool.deprecated \cup {i}
    BY <1>1 DEF Deprecate, DictInv, ListInv, Types, IsPool
  <2> QED
    BY <1>1, <2>1 DEF Used
<1>5. DictInv'
  BY <1>1, <1>3, <1>4 DEF DictInv, Reached
<1>6. Leads(name.kv[i]) /\ name.vk[name.kv[i]] = i
  BY DEF DictInv, Reached, Leads
<1>7. dictView[name.kv[i]] # Absent
  BY <1>2, <1>6, ViewGives, AbsentAssumption
<1>8. dictView'[name.kv[i]] = Absent
  BY <1>1, <1>2, <1>4, <1>5, <1>6, ViewGivesNext DEF Leads
<1>9. ASSUME NEW l \in Keys, l # name.kv[i]
      PROVE  dictView'[l] = dictView[l]
  <2>1. Leads(l)' <=> Leads(l)
    BY <1>1, <1>4, <1>9 DEF Leads
  <2> QED
    BY <1>1, <1>5, <2>1, ViewGives, ViewGivesNext
<1> QED
  BY <1>2, <1>5, <1>7, <1>8, <1>9, RemovesKey

(* Nothing a caller sees depends on how far a collection has come.         *)
LEMMA UnseenKeeps ==
  ASSUME DictInv, DictInv', Used' = Used, data' = data, name' = name
  PROVE  dictView' = dictView
<1>1. \A l \in Keys : Leads(l)' <=> Leads(l)
  BY DEF Leads
<1> QED
  BY <1>1, ViewGives, ViewGivesNext, SameView

(* Collecting when nothing moves (list.cpp:6-24). *)
LEMMA CollectUnseen ==
  ASSUME DictInv, (NothingMoves /\ GcBegin) \/ GcKeep \/ GcEnd
  PROVE  DictInv' /\ [Dict!Next]_dictView
<1>1. data' = data /\ name' = name
  BY DEF GcBegin, GcKeep, GcEnd, listVars
<1>2. ListInv'
  BY GcBeginKeeps, GcKeepKeeps, GcEndKeeps DEF DictInv
<1>3. Used' = Used /\ DictInv'
  <2>1. CASE NothingMoves /\ GcBegin
    <3>1. /\ pc = "idle" /\ alive' = ValidIndices
          /\ indices' = indices /\ pool' = pool
      BY <2>1 DEF GcBegin, listVars
    <3>2. Used' = Used
      BY <3>1 DEF Used
    <3>3. RangeOf(alive') = Used /\ \A m \in DOMAIN alive' : alive'[m] = m - 1
      BY <2>1, <3>1, ValidAreUsed DEF DictInv, NothingMoves
    <3> QED
      BY <1>1, <1>2, <3>2, <3>3 DEF DictInv, Reached
  <2>2. CASE GcKeep
    <3>1. pc = "gc" /\ alive' = alive /\ indices' = indices /\ pool' = pool
      BY <2>2 DEF GcKeep
    <3>2. Used' = Used
      BY <3>1 DEF Used
    <3> QED
      BY <1>1, <1>2, <3>1, <3>2 DEF DictInv, Reached
  <2>3. CASE GcEnd
    <3>1. /\ pc = "gc" /\ new_i = Len(alive) /\ pc' = "idle"
          /\ indices' = SubSeq(indices, 1, Len(alive))
          /\ pool' = Clear(pool)
      BY <2>3 DEF GcEnd
    <3>2. /\ Len(alive) \in Nat /\ DOMAIN alive = 1..Len(alive)
          /\ Len(alive) <= Len(indices)
          /\ \A m \in DOMAIN alive : indices[m] = m - 1
      <4>1. Len(alive) \in Nat /\ DOMAIN alive = 1..Len(alive)
        BY DEF DictInv, ListInv, Types
      <4> QED
        BY <3>1, <4>1 DEF DictInv, ListInv, LoopInv
    <3>3. DOMAIN indices' = DOMAIN alive /\ \A m \in DOMAIN alive : indices'[m] = alive[m]
      <4>1. indices \in Seq(Nat) /\ \A m \in 1..Len(alive) : indices[m] \in Nat
        BY <3>2, IndicesFacts DEF DictInv, ListInv, Types
      <4>2. /\ Len(indices') = Len(alive) /\ indices' \in Seq(Nat)
            /\ \A m \in 1..Len(alive) : indices'[m] = indices[m]
        BY <3>1, <3>2, <4>1, SubSeqProperties
      <4> QED
        BY <3>1, <3>2, <4>2 DEF DictInv
    <3>4. pool'.deprecated = {}
      BY <3>1 DEF Clear, DictInv, ListInv, Types, IsPool
    <3>5. Used' = RangeOf(alive)
      BY <3>3, <3>4 DEF Used, RangeOf
    <3>6. Used' = Used
      BY <3>1, <3>5 DEF DictInv
    <3> QED
      BY <1>1, <1>2, <3>1, <3>6 DEF DictInv, Reached
  <2> QED
    BY <2>1, <2>2, <2>3
<1> QED
  BY <1>1, <1>3, UnseenKeeps

LEMMA DictInit == Init => DictInv /\ Dict!Init
<1> SUFFICES ASSUME Init PROVE DictInv /\ Dict!Init
  OBVIOUS
<1>1. Used = {}
  BY DEF Init, Used, RangeOf
<1>2. DictInv
  BY <1>1, InitInv DEF Init, DictInv, Reached
<1>3. \A k \in Keys : dictView[k] = Absent
  BY <1>1, <1>2, ViewGives DEF Leads
<1> QED
  BY <1>2, <1>3 DEF Dict!Init, dictView

(* Every call of ListDictionary sets one key, removes one, or changes      *)
(* nothing a caller sees.                                                  *)
LEMMA DictStep ==
  ASSUME DictInv, [NextDict]_vars
  PROVE  DictInv' /\ [Dict!Next]_dictView
<1>1. Values \subseteq Contents
  BY DEF Contents
<1>2. \A i \in AnyIndex : IsValid(i) => i \in Used
  BY DEF IsValid, IsDeprecated, Used
<1>3. \A k \in Keys : Present(k) => Leads(k)
  BY ViewGives
<1>4. ASSUME NEW k \in Keys, NEW v \in Contents,
             HasKey(k) => Present(k), SubscriptKey(k, v)
      PROVE  DictInv' /\ [Dict!Next]_dictView
  <2>1. CASE HasKey(k)
    <3>1. /\ name.vk[k] \in Used
          /\ pc = "idle" /\ data' = [data EXCEPT ![name.vk[k]] = v]
          /\ UNCHANGED <<pool, indices, name, pc, alive, new_i>>
      BY <1>3, <1>4, <2>1 DEF SubscriptKey, Leads, gcVars
    <3> QED
      BY <3>1, WriteSets
  <2>2. CASE ~HasKey(k)
    <3>1. ~Present(k) /\ pc = "idle" /\ Store(k, v) /\ UNCHANGED gcVars
      BY <1>3, <1>4, <2>2 DEF SubscriptKey, Leads, HasKey
    <3> QED
      BY <3>1, StoreSets
  <2> QED
    BY <2>1, <2>2
<1>5. CASE \E k \in Keys, v \in Values : ~Present(k) /\ InsertOrAssign(k, v)
  BY <1>1, <1>5, StoreSets DEF InsertOrAssign
<1>6. CASE \E k \in Keys, v \in Contents :
             (HasKey(k) => Present(k)) /\ SubscriptKey(k, v)
  BY <1>4, <1>6
<1>7. CASE \E i \in AnyIndex, v \in Contents : IsValid(i) /\ SubscriptIndex(i, v)
  <2>1. PICK i \in AnyIndex, v \in Contents : IsValid(i) /\ SubscriptIndex(i, v)
    BY <1>7
  <2>2. /\ i \in Used /\ name.kv[i] \in Keys /\ SubscriptKey(name.kv[i], v)
        /\ pc = "idle"
    BY <1>2, <2>1 DEF SubscriptIndex, SubscriptKey, DictInv, ListInv, Types
  <2>3. Present(name.kv[i])
    BY <2>2, ViewGives DEF Leads, DictInv, Reached
  <2> QED
    BY <1>4, <2>2, <2>3
<1>8. CASE \E i \in AnyIndex, v \in Values : IsValid(i) /\ AssignAt(i, v)
  BY <1>1, <1>2, <1>8, WriteSets DEF AssignAt
<1>9. CASE \E i \in AnyIndex : IsValid(i) /\ EraseIndex(i)
  BY <1>2, <1>9, EraseRemoves
<1>10. CASE \E k \in Keys : Present(k) /\ EraseKey(k)
  <2>1. PICK k \in Keys : Present(k) /\ EraseKey(k)
    BY <1>10
  <2>2. name.vk[k] \in Used /\ EraseIndex(name.vk[k])
    BY <1>3, <2>1 DEF EraseKey, Leads
  <2> QED
    BY <2>2, EraseRemoves
<1>11. CASE (NothingMoves /\ GcBegin) \/ GcKeep \/ GcEnd
  BY <1>11, CollectUnseen
<1>12. CASE UNCHANGED vars
  <2>1. UNCHANGED <<pool, indices, data, name, pc, alive, new_i>>
    BY <1>12 DEF vars
  <2>2. ListInv'
    BY <1>12, NextKeeps DEF DictInv
  <2>3. Used' = Used
    BY <2>1 DEF Used
  <2>4. DictInv'
    BY <2>1, <2>2, <2>3 DEF DictInv, Reached
  <2> QED
    BY <2>1, <2>3, <2>4, UnseenKeeps
<1> QED
  BY <1>5, <1>6, <1>7, <1>8, <1>9, <1>10, <1>11, <1>12 DEF NextDict

(* For the calls of ListDictionary, in any number and order, a list is the *)
(* dictionary its class comment promises (list.hpp:14-24): a call changes  *)
(* the value of the one key it names, a collection changes none.           *)
THEOREM ListIsDictionary == SpecDict => ImplementsDictionary
<1>1. DictInv /\ [NextDict]_vars => DictInv' /\ [Dict!Next]_dictView
  BY DictStep
<1> QED
  BY <1>1, DictInit, PTL DEF SpecDict, ImplementsDictionary, Dict!Spec

(* For the same calls the name of an entry in use leads back to it         *)
(* (list.hpp:16), and what write_json() prints has every key in use once,  *)
(* with the value of its own entry (json.cpp:25-38).                       *)
THEOREM JsonIsDictionary == SpecDict => [](NamesResolve /\ JsonHoldsDictionary)
<1>1. ASSUME DictInv
      PROVE  NamesResolve
  BY <1>1, ValidAreUsed DEF DictInv, Reached, NamesResolve
<1>2. ASSUME DictInv
      PROVE  JsonHoldsDictionary
  <2> SUFFICES ASSUME pc = "idle"
               PROVE  /\ {Json[m].key : m \in DOMAIN Json} = {k \in Keys : Present(k)}
                      /\ \A m \in DOMAIN Json :
                           /\ Json[m].value = data[ValidIndices[m]]
                           /\ \A l \in DOMAIN Json : Json[l].key = Json[m].key => l = m
    BY DEF JsonHoldsDictionary
  <2>1. DOMAIN Json = DOMAIN ValidIndices
    BY DEF Json
  <2>2. \A m \in DOMAIN ValidIndices : ValidIndices[m] \in Used
    BY <1>2, ValidAreUsed DEF DictInv, RangeOf
  <2>3. \A i \in Used : HasKey(name.kv[i]) /\ name.vk[name.kv[i]] = i
    BY <1>2 DEF DictInv, Reached, HasKey
  <2>4. \A m \in DOMAIN Json :
          /\ Json[m].key = name.kv[ValidIndices[m]]
          /\ Json[m].value = data[ValidIndices[m]]
    BY <2>2, <2>3 DEF Json
  <2>5. \A k \in Keys : Present(k) <=> \E m \in DOMAIN Json : Json[m].key = k
    BY <2>1, <2>4 DEF Present, RangeOf
  <2>6. \A m \in DOMAIN Json : Json[m].key \in Keys
    BY <1>2, <2>1, <2>2, <2>4, UsedFacts DEF DictInv
  <2>7. ASSUME NEW m \in DOMAIN Json, NEW l \in DOMAIN Json, Json[l].key = Json[m].key
        PROVE  l = m
    <3>1. ValidIndices[l] = ValidIndices[m]
      BY <2>1, <2>2, <2>3, <2>4, <2>7
    <3>2. Increasing(ValidIndices)
      BY <1>2, IndicesFacts, FilteredGives DEF ValidIndices, DictInv
    <3> DEFINE s == ValidIndices
    <3>3. /\ m \in DOMAIN s /\ l \in DOMAIN s /\ s[l] = s[m]
          /\ s \in Seq(Nat)
          /\ \A p, q \in DOMAIN s : p < q => s[p] < s[q]
      BY <2>1, <3>1, <3>2 DEF Increasing
    <3> HIDE DEF s
    <3>4. m \in Nat /\ l \in Nat /\ s[m] \in Nat
      BY <3>3
    <3> QED
      BY <3>3, <3>4
  <2> QED
    BY <2>4, <2>5, <2>6, <2>7
<1> QED
  BY <1>1, <1>2, DictInit, DictStep, PTL DEF SpecDict
=============================================================================
