---------------------------- MODULE FrameProofs ----------------------------
(***************************************************************************)
(* gaa::Frame, any number of columns, names and rows: what every caller    *)
(* gets (a collection that does not throw keeps the columns, a new column  *)
(* never takes an index in use), and what only the careful caller of       *)
(* FrameUse gets (no call throws, the columns are consistently numbered    *)
(* and all have the frame's rows).                                         *)
(***************************************************************************)
EXTENDS FrameUse, ContainerProofs

ColumnSet == [cells : Cells, len : Nat]

FrameTypes ==
  /\ IsPool(pool)
  /\ data \in Seq(ColumnSet)
  /\ name = [kv |-> name.kv, vk |-> name.vk]
  /\ \A k \in DOMAIN name.vk : name.vk[k] \in Nat

(* m_indices is sorted, without repetition, and below the pool's counter,  *)
(* also after a collection that threw half way.                            *)
IndicesOrdered ==
  /\ Increasing(indices)
  /\ \A p \in DOMAIN indices : indices[p] < pool.size

(* What garbage_collect() knows at the head of its loop: the entries done  *)
(* are renumbered by position, and the others are still listed at or       *)
(* behind their new positions.                                             *)
LoopInv ==
  pc = "gc" =>
    /\ new_i \in Nat /\ new_i <= Len(alive)
    /\ Len(alive) <= Len(indices)
    /\ Increasing(alive)
    /\ new_data \in Seq(ColumnSet) /\ Len(new_data) = new_i
    /\ \A m \in DOMAIN alive :
         /\ m <= new_i => indices[m] = m - 1
         /\ new_i < m => \E p \in DOMAIN indices :
                           m <= p /\ indices[p] = alive[m]

FrameInv == FrameTypes /\ IndicesOrdered /\ LoopInv

(* What holds besides for the careful caller.  It goes beyond the three    *)
(* properties: that the collector does not throw follows from the names,   *)
(* and that a reused index is a column from where the erased ones lie.     *)
CarefulInv ==
  careful =>
    /\ outcome = "ok"
    /\ Len(indices) = Len(data)
    /\ fitting => \A p \in DOMAIN data : data[p].len = Rows
    /\ \A i \in pool.deprecated : i < Len(data)
    /\ pc = "idle" =>
         \A p \in DOMAIN indices :
           /\ indices[p] = p - 1
           /\ IsDeprecated(pool, p - 1) \/ p - 1 \in DOMAIN name.kv
    /\ pc = "gc" =>
         /\ fitting => \A p \in DOMAIN new_data : new_data[p].len = Rows
         /\ \A m \in DOMAIN alive :
              /\ alive[m] < Len(data)
              /\ IF m <= new_i THEN m - 1 \in DOMAIN name.kv
                               ELSE alive[m] \in DOMAIN name.kv
-----------------------------------------------------------------------------
(* What FrameInv says of m_indices, in the form the steps use it. *)
LEMMA IndicesFacts ==
  ASSUME FrameInv
  PROVE  /\ Increasing(indices)
         /\ indices \in Seq(Nat)
         /\ Len(indices) \in Nat /\ DOMAIN indices = 1..Len(indices)
         /\ \A p \in DOMAIN indices :
              /\ p \in Nat /\ indices[p] \in Nat
              /\ p - 1 <= indices[p] /\ indices[p] < pool.size
         /\ pool.size \in Nat
         /\ data \in Seq(ColumnSet)
         /\ Len(data) \in Nat /\ DOMAIN data = 1..Len(data)
<1>1. Increasing(indices) /\ IsPool(pool) /\ data \in Seq(ColumnSet)
  BY DEF FrameInv, IndicesOrdered, FrameTypes
<1>2. indices \in Seq(Nat) /\ \A p \in DOMAIN indices : p - 1 <= indices[p]
  BY <1>1 DEF Increasing
<1>3. pool.size \in Nat
  BY <1>1 DEF IsPool
<1>4. \A p \in DOMAIN indices : indices[p] < pool.size
  BY DEF FrameInv, IndicesOrdered
<1>5. QED
  BY <1>1, <1>2, <1>3, <1>4

LEMMA FrameInitInv == InitUse => FrameInv /\ CarefulInv
<1> SUFFICES ASSUME InitUse PROVE FrameInv /\ CarefulInv
  OBVIOUS
<1>1. /\ pool = EmptyPool /\ indices = <<>> /\ data = <<>>
      /\ name = EmptyBimap /\ outcome = "ok" /\ pc = "idle"
  BY DEF InitUse, Init
<1>2. FrameTypes
  BY <1>1 DEF FrameTypes, EmptyPool, EmptyBimap, EmptyMap, IsPool
<1>3. IndicesOrdered
  BY <1>1 DEF IndicesOrdered, Increasing
<1>4. LoopInv
  BY <1>1 DEF LoopInv
<1>5. CarefulInv
  BY <1>1 DEF CarefulInv, EmptyPool
<1>6. QED
  BY <1>2, <1>3, <1>4, <1>5 DEF FrameInv

-----------------------------------------------------------------------------
(* The steps of the operations *)

(* new_col(k, vec): what it leaves in m_data. *)
LEMMA NewColData ==
  ASSUME FrameInv, NEW k \in Names, NEW vec \in Vectors, NewCol(k, vec)
  PROVE  LET i == NextIndex(pool)
         IN  /\ i \in Nat
             /\ data' \in Seq(ColumnSet)
             /\ Len(data') = IF HasDeprecated(pool) THEN Len(data)
                                                    ELSE Len(data) + 1
             /\ \A p \in DOMAIN data' :
                  p # i + 1 => data'[p] = IF p \in DOMAIN data THEN data[p]
                                                               ELSE vec
             /\ i < Len(data') => outcome' = "ok" /\ data'[i + 1].len = Rows
<1> DEFINE i == NextIndex(pool)
           reused == HasDeprecated(pool)
           grown == IF reused
                    THEN IF InData(data, i) THEN [data EXCEPT ![i + 1] = vec]
                                            ELSE data
                    ELSE Append(data, vec)
<1>1. i \in Nat
  BY PoolGet DEF FrameInv, FrameTypes
<1>2. \/ /\ InData(grown, i)
         /\ data' = [grown EXCEPT ![i + 1].len = Rows] /\ outcome' = "ok"
      \/ ~InData(grown, i) /\ data' = grown
  BY DEF NewCol
<1>3. vec \in ColumnSet /\ Rows \in Nat
  BY FrameAssumption DEF Vectors, ColumnSet
<1> HIDE DEF i
<1>4. /\ grown \in Seq(ColumnSet)
      /\ Len(grown) = IF reused THEN Len(data) ELSE Len(data) + 1
      /\ DOMAIN grown = 1..Len(grown)
      /\ \A p \in DOMAIN grown :
           p # i + 1 => grown[p] = IF p \in DOMAIN data THEN data[p] ELSE vec
  <2>1. data \in Seq(ColumnSet) /\ Len(data) \in Nat /\ DOMAIN data = 1..Len(data)
    BY IndicesFacts
  <2>2. CASE reused /\ InData(data, i)
    <3>1. grown = [data EXCEPT ![i + 1] = vec]
      BY <2>2
    <3> HIDE DEF grown
    <3>2. data \in [1..Len(data) -> ColumnSet]
      BY <2>1
    <3>3. grown \in [1..Len(data) -> ColumnSet]
      BY <1>3, <3>1, <3>2
    <3>4. grown \in Seq(ColumnSet) /\ Len(grown) = Len(data)
          /\ DOMAIN grown = DOMAIN data
      BY <2>1, <3>3
    <3>5. \A p \in DOMAIN data : p # i + 1 => grown[p] = data[p]
      BY <2>1, <3>1
    <3> QED
      BY <2>1, <2>2, <3>4, <3>5
  <2>3. CASE reused /\ ~InData(data, i)
    BY <2>1, <2>3
  <2>4. CASE ~reused
    BY <1>3, <2>1, <2>4
  <2> QED
    BY <2>2, <2>3, <2>4
<1> HIDE DEF grown, reused
<1>5. CASE InData(grown, i) /\ data' = [grown EXCEPT ![i + 1].len = Rows]
  <2>1. i + 1 \in 1..Len(grown) /\ grown[i + 1] \in ColumnSet
    BY <1>1, <1>4, <1>5 DEF InData
  <2>2. /\ [grown[i + 1] EXCEPT !.len = Rows] \in ColumnSet
        /\ [grown[i + 1] EXCEPT !.len = Rows].len = Rows
    BY <1>3, <2>1 DEF ColumnSet
  <2>3. data' = [grown EXCEPT ![i + 1] = [grown[i + 1] EXCEPT !.len = Rows]]
    BY <1>5
  <2>4. data' \in [1..Len(grown) -> ColumnSet]
    <3>1. grown \in [1..Len(grown) -> ColumnSet]
      BY <1>4
    <3> QED
      BY <2>2, <2>3, <3>1
  <2>5. data' \in Seq(ColumnSet) /\ Len(data') = Len(grown)
        /\ DOMAIN data' = DOMAIN grown
    BY <1>4, <2>4
  <2>6. data'[i + 1].len = Rows /\ \A p \in DOMAIN grown : p # i + 1 => data'[p] = grown[p]
    BY <1>4, <2>1, <2>2, <2>3
  <2>7. outcome' = "ok"
    BY <1>2, <1>5
  <2> QED
    BY <1>1, <1>4, <2>5, <2>6, <2>7 DEF i, reused
<1>6. CASE ~InData(grown, i) /\ data' = grown
  BY <1>1, <1>4, <1>6 DEF i, reused, InData
<1> QED
  BY <1>2, <1>5, <1>6

(* new_col(k, vec) of any caller *)
LEMMA NewColKeeps ==
  ASSUME FrameInv, NEW k \in Names, NEW vec \in Vectors, NewCol(k, vec)
  PROVE  FrameInv'
<1> DEFINE i == NextIndex(pool)
<1>1. /\ i \in Nat
      /\ IsPool(pool) /\ IsPool(pool')
      /\ HasDeprecated(pool) => pool'.size = pool.size
      /\ ~HasDeprecated(pool) => i = pool.size /\ pool'.size = pool.size + 1
  BY PoolGet DEF FrameInv, FrameTypes, NewCol
<1>2. /\ indices' = IF HasDeprecated(pool) THEN indices ELSE Append(indices, i)
      /\ name' = Assign(name, i, k)
      /\ pc = "idle" /\ pc' = pc
  BY DEF NewCol, gcVars
<1>3. data' \in Seq(ColumnSet)
  BY NewColData
<1> HIDE DEF i
<1>4. name' = [kv |-> name'.kv, vk |-> name'.vk] /\ name'.vk = Put(name.vk, k, i)
  BY <1>2 DEF Assign
<1>5. \A l \in DOMAIN name'.vk : name'.vk[l] \in Nat
  BY <1>1, <1>4 DEF Put, FrameInv, FrameTypes
<1>6. FrameTypes'
  BY <1>1, <1>3, <1>4, <1>5 DEF FrameTypes
<1>7. IndicesOrdered'
  <2>1. CASE HasDeprecated(pool)
    BY <1>1, <1>2, <2>1 DEF FrameInv, IndicesOrdered
  <2>2. CASE ~HasDeprecated(pool)
    <3>1. indices' = Append(indices, pool.size) /\ pool'.size = pool.size + 1
      BY <1>1, <1>2, <2>2
    <3>2. /\ indices' \in Seq(Nat)
          /\ DOMAIN indices' = 1..(Len(indices) + 1)
          /\ \A p \in DOMAIN indices : indices'[p] = indices[p]
          /\ indices'[Len(indices) + 1] = pool.size
      BY <3>1, IndicesFacts
    <3>3. \A p \in DOMAIN indices' : p \in DOMAIN indices \/ p = Len(indices) + 1
      BY <3>2, IndicesFacts
    <3>4. Len(indices) <= pool.size
      <4>1. CASE Len(indices) = 0
        BY <4>1, IndicesFacts
      <4>2. CASE Len(indices) # 0
        <5>1. Len(indices) \in DOMAIN indices
          BY <4>2, IndicesFacts
        <5> QED
          BY <5>1, IndicesFacts
      <4> QED
        BY <4>1, <4>2
    <3>5. \A p \in DOMAIN indices' : p - 1 <= indices'[p] /\ indices'[p] < pool'.size
      BY <3>1, <3>2, <3>3, <3>4, IndicesFacts
    <3>6. ASSUME NEW p \in DOMAIN indices', NEW q \in DOMAIN indices', p < q
          PROVE  indices'[p] < indices'[q]
      <4>1. p \in DOMAIN indices
        BY <3>2, <3>3, <3>6, IndicesFacts
      <4>2. CASE q \in DOMAIN indices
        BY <3>2, <3>6, <4>1, <4>2, IndicesFacts DEF Increasing
      <4>3. CASE q = Len(indices) + 1
        BY <3>2, <4>1, <4>3, IndicesFacts
      <4> QED
        BY <3>3, <4>2, <4>3
    <3> QED
      BY <3>2, <3>5, <3>6 DEF IndicesOrdered, Increasing
  <2> QED
    BY <2>1, <2>2
<1>8. LoopInv'
  BY <1>2 DEF LoopInv
<1> QED
  BY <1>6, <1>7, <1>8 DEF FrameInv

(* A caller with fitting calls gets an index that is a column already or   *)
(* becomes the last one.                                                   *)
LEMMA NewColCareful ==
  ASSUME FrameInv, CarefulInv, NEW k \in Names, NEW vec \in Vectors,
         NewCol(k, vec), If(PoolFits), UNCHANGED fitting
  PROVE  CarefulInv'
<1> SUFFICES ASSUME careful' PROVE CarefulInv'
  BY DEF CarefulInv
<1>1. careful /\ PoolFits /\ pc = "idle" /\ pc' = "idle"
  BY DEF If, NewCol, gcVars
<1> DEFINE i == NextIndex(pool)
           n == Len(data)
<1>2. /\ n \in Nat /\ Len(indices) = n
      /\ DOMAIN data = 1..n /\ DOMAIN indices = 1..n
      /\ fitting => \A p \in 1..n : data[p].len = Rows
      /\ \A j \in pool.deprecated : j < n
      /\ \A p \in 1..n : /\ indices[p] = p - 1
                         /\ IsDeprecated(pool, p - 1) \/ p - 1 \in DOMAIN name.kv
  BY <1>1, IndicesFacts DEF CarefulInv
<1>3. /\ i \in Nat
      /\ HasDeprecated(pool) => i \in pool.deprecated
      /\ ~HasDeprecated(pool) => i = n
      /\ pool'.deprecated \subseteq pool.deprecated
      /\ IsPool(pool)
  BY <1>1, PoolGet DEF FrameInv, FrameTypes, PoolFits, NewCol
<1>4. pool.deprecated \subseteq pool'.deprecated \cup {i}
  BY <1>3 DEF NewCol, AfterGet, NextIndex, IsPool
<1>5. DOMAIN name'.kv = DOMAIN name.kv \cup {i}
  BY PutGives DEF NewCol, Assign
<1>6. indices' = IF HasDeprecated(pool) THEN indices ELSE Append(indices, i)
  BY DEF NewCol
<1>7. /\ data' \in Seq(ColumnSet)
      /\ Len(data') = IF HasDeprecated(pool) THEN n ELSE n + 1
      /\ \A p \in DOMAIN data' :
           p # i + 1 => data'[p] = IF p \in DOMAIN data THEN data[p] ELSE vec
      /\ i < Len(data') => outcome' = "ok" /\ data'[i + 1].len = Rows
  BY NewColData
<1> HIDE DEF i, n
<1>8. /\ i < Len(data')
      /\ DOMAIN data' = 1..Len(data')
      /\ \A p \in DOMAIN data' : p \in DOMAIN data \/ p = i + 1
  BY <1>2, <1>3, <1>7
<1>9. /\ Len(indices') = Len(data')
      /\ DOMAIN indices' = 1..Len(data')
      /\ \A p \in DOMAIN indices' :
           indices'[p] = p - 1 /\ (p \in DOMAIN indices \/ p = i + 1)
  <2>1. CASE HasDeprecated(pool)
    BY <1>2, <1>6, <1>7, <2>1
  <2>2. CASE ~HasDeprecated(pool)
    BY <1>2, <1>3, <1>6, <1>7, <2>2, IndicesFacts
  <2> QED
    BY <2>1, <2>2
<1>10. fitting' => \A p \in DOMAIN data' : data'[p].len = Rows
  BY <1>2, <1>7, <1>8
<1>11. \A j \in pool'.deprecated : j < Len(data')
  <2>1. pool'.deprecated \subseteq Nat /\ n <= Len(data')
    BY <1>2, <1>3, <1>7 DEF IsPool
  <2> QED
    BY <1>2, <1>3, <1>7, <2>1
<1>12. \A p \in DOMAIN indices' : IsDeprecated(pool', p - 1) \/ p - 1 \in DOMAIN name'.kv
  BY <1>2, <1>3, <1>4, <1>5, <1>9 DEF IsDeprecated
<1> QED
  BY <1>1, <1>7, <1>8, <1>9, <1>10, <1>11, <1>12 DEF CarefulInv

(* df.col(i) = vec *)
LEMMA AssignColKeeps ==
  ASSUME FrameInv, CarefulInv, NEW i \in AnyIndex, NEW vec \in Vectors,
         Assigns(i, vec)
  PROVE  FrameInv' /\ CarefulInv'
<1>1. /\ data' = [data EXCEPT ![i + 1] = vec]
      /\ pc = "idle" /\ outcome' = "ok"
      /\ UNCHANGED <<pool, indices, name, pc, alive, new_i, new_data>>
      /\ careful' => careful
      /\ fitting' => fitting /\ vec.len = Rows
  BY DEF Assigns, AssignCol, If, Fitting
<1>2. vec \in ColumnSet
  BY FrameAssumption DEF ColumnSet, Vectors
<1>3. data \in Seq(ColumnSet) /\ Len(data) \in Nat /\ DOMAIN data = 1..Len(data)
  BY IndicesFacts
<1>4. data' \in [1..Len(data) -> ColumnSet]
  <2>1. data \in [1..Len(data) -> ColumnSet]
    BY <1>3
  <2> QED
    BY <1>1, <1>2, <2>1
<1>5. data' \in Seq(ColumnSet) /\ Len(data') = Len(data) /\ DOMAIN data' = DOMAIN data
  BY <1>3, <1>4
<1>6. \A p \in DOMAIN data : data'[p] = data[p] \/ data'[p] = vec
  BY <1>1, <1>3
<1>7. FrameInv'
  BY <1>1, <1>5 DEF FrameInv, FrameTypes, IndicesOrdered, LoopInv
<1>8. careful /\ fitting' => \A p \in DOMAIN data' : data'[p].len = Rows
  BY <1>1, <1>5, <1>6 DEF CarefulInv
<1>9. CarefulInv'
  BY <1>1, <1>5, <1>8 DEF CarefulInv
<1> QED
  BY <1>7, <1>9

(* erase_col(i) *)
LEMMA EraseColKeeps ==
  ASSUME FrameInv, CarefulInv, NEW i \in Nat, EraseCol(i), If(IsColumn(i)),
         UNCHANGED fitting
  PROVE  FrameInv' /\ CarefulInv'
<1>1. /\ pool' = Deprecate(pool, i)
      /\ pc = "idle" /\ outcome' = "ok"
      /\ UNCHANGED <<indices, data, name, pc, alive, new_i, new_data>>
  BY DEF EraseCol
<1>2. /\ IsPool(pool') /\ pool'.size = pool.size
      /\ pool'.deprecated = pool.deprecated \cup {i}
  BY <1>1 DEF FrameInv, FrameTypes, Deprecate, IsPool
<1>3. FrameInv'
  BY <1>1, <1>2 DEF FrameInv, FrameTypes, IndicesOrdered, LoopInv
<1>4. ASSUME careful' PROVE i < Len(data)
  <2>1. careful /\ i \in RangeOf(indices)
    BY <1>4 DEF If, IsColumn
  <2>2. PICK p \in DOMAIN indices : indices[p] = i
    BY <2>1 DEF RangeOf
  <2>3. i = p - 1 /\ p \in 1..Len(data)
    BY <1>1, <2>1, <2>2, IndicesFacts DEF CarefulInv
  <2> QED
    BY <2>3, IndicesFacts
<1>5. CarefulInv'
  BY <1>1, <1>2, <1>4 DEF CarefulInv, If, IsDeprecated
<1> QED
  BY <1>3, <1>5

(* rename_col(i, k) *)
LEMMA RenameColKeeps ==
  ASSUME FrameInv, CarefulInv, NEW i, NEW k \in Names, RenameCol(i, k),
         careful' => careful, UNCHANGED fitting
  PROVE  FrameInv' /\ CarefulInv'
<1>1. /\ name' = [name EXCEPT !.kv[i] = k]
      /\ pc = "idle" /\ outcome' = "ok"
      /\ UNCHANGED <<pool, indices, data, pc, alive, new_i, new_data>>
  BY DEF RenameCol
<1>2. name = [kv |-> name.kv, vk |-> name.vk]
  BY DEF FrameInv, FrameTypes
<1>3. name' = [kv |-> [name.kv EXCEPT ![i] = k], vk |-> name.vk]
  BY <1>1, <1>2
<1>4. /\ name' = [kv |-> name'.kv, vk |-> name'.vk]
      /\ name'.vk = name.vk /\ DOMAIN name'.kv = DOMAIN name.kv
  BY <1>3
<1>5. FrameInv'
  BY <1>1, <1>4 DEF FrameInv, FrameTypes, IndicesOrdered, LoopInv
<1>6. CarefulInv'
  BY <1>1, <1>4 DEF CarefulInv
<1> QED
  BY <1>5, <1>6

-----------------------------------------------------------------------------
(* The steps of garbage_collect() *)

(* The loop starts with the columns in use. *)
LEMMA GcBeginKeeps ==
  ASSUME FrameInv, CarefulInv, GcBegin, If(TRUE), UNCHANGED fitting
  PROVE  FrameInv' /\ CarefulInv'
<1>1. /\ pc = "idle" /\ pc' = "gc"
      /\ alive' = Filtered(indices, pool.deprecated)
      /\ new_i' = 0 /\ new_data' = <<>>
      /\ UNCHANGED <<pool, indices, data, name, outcome>>
  BY DEF GcBegin, Columns
<1>2. /\ Increasing(alive') /\ Len(alive') <= Len(indices)
      /\ \A m \in DOMAIN alive' :
           \E p \in DOMAIN indices : m <= p /\ indices[p] = alive'[m]
      /\ RangeOf(alive') = RangeOf(indices) \ pool.deprecated
  <2>1. Increasing(indices)
    BY IndicesFacts
  <2> QED
    BY <1>1, <2>1, FilteredGives
<1>3. /\ alive' \in Seq(Nat)
      /\ \A m \in DOMAIN alive' : m \in Nat /\ ~ (m <= 0) /\ 0 < m
      /\ 0 <= Len(alive')
  BY <1>2 DEF Increasing
<1>4. LoopInv'
  BY <1>1, <1>2, <1>3 DEF LoopInv
<1>5. FrameInv'
  BY <1>1, <1>4 DEF FrameInv, FrameTypes, IndicesOrdered
<1>6. ASSUME careful, NEW m \in DOMAIN alive'
      PROVE  alive'[m] < Len(data) /\ alive'[m] \in DOMAIN name.kv
  <2>1. PICK p \in DOMAIN indices : indices[p] = alive'[m]
    BY <1>2
  <2>2. /\ indices[p] = p - 1 /\ p \in 1..Len(data)
        /\ IsDeprecated(pool, p - 1) \/ p - 1 \in DOMAIN name.kv
    BY <1>1, <1>6, <2>1, IndicesFacts DEF CarefulInv
  <2>3. ~IsDeprecated(pool, alive'[m])
    BY <1>2 DEF RangeOf, IsDeprecated
  <2> QED
    BY <2>1, <2>2, <2>3, IndicesFacts
<1>7. CarefulInv'
  <2> SUFFICES ASSUME careful' PROVE CarefulInv'
    BY DEF CarefulInv
  <2>1. careful
    BY DEF If
  <2>2. fitting => \A p \in DOMAIN new_data' : new_data'[p].len = Rows
    BY <1>1
  <2>3. \A m \in DOMAIN alive' :
          /\ alive'[m] < Len(data')
          /\ IF m <= new_i' THEN m - 1 \in DOMAIN name'.kv
                             ELSE alive'[m] \in DOMAIN name'.kv
    BY <1>1, <1>3, <1>6, <2>1
  <2>4. pc' # "idle"
    BY <1>1
  <2> QED
    BY <1>1, <2>1, <2>2, <2>3, <2>4 DEF CarefulInv
<1> QED
  BY <1>5, <1>7

(* What the head of the loop knows when there is an entry left, and what   *)
(* becomes of m_indices when it is renumbered.                             *)
LEMMA LoopFacts ==
  ASSUME FrameInv, pc = "gc", new_i < Len(alive)
  PROVE  LET old_i == alive[new_i + 1]
             renumbered == [indices EXCEPT ![new_i + 1] = new_i]
         IN  /\ new_i \in Nat /\ new_i + 1 \in DOMAIN alive
             /\ new_i + 1 <= Len(alive)
             /\ DOMAIN alive = 1..Len(alive) /\ Len(alive) \in Nat
             /\ old_i \in Nat /\ new_i <= old_i
             /\ \A m \in DOMAIN alive :
                  /\ m \in Nat /\ alive[m] \in Nat
                  /\ new_i + 1 < m => old_i < alive[m]
             /\ old_i = new_i => renumbered = indices
             /\ Increasing(renumbered)
             /\ Len(renumbered) = Len(indices)
             /\ DOMAIN renumbered = DOMAIN indices
             /\ \A p \in DOMAIN indices : renumbered[p] < pool.size
             /\ \A m \in DOMAIN alive :
                  /\ m <= new_i + 1 => renumbered[m] = m - 1
                  /\ new_i + 1 < m => \E p \in DOMAIN indices :
                                        m <= p /\ renumbered[p] = alive[m]
<1> DEFINE m1 == new_i + 1
           old_i == alive[m1]
           renumbered == [indices EXCEPT ![m1] = new_i]
<1>1. /\ new_i \in Nat /\ Increasing(alive) /\ Len(alive) <= Len(indices)
      /\ \A m \in DOMAIN alive :
           /\ m <= new_i => indices[m] = m - 1
           /\ new_i < m => \E p \in DOMAIN indices :
                             m <= p /\ indices[p] = alive[m]
  BY DEF FrameInv, LoopInv
<1>2. /\ alive \in Seq(Nat) /\ Len(alive) \in Nat
      /\ DOMAIN alive = 1..Len(alive)
      /\ \A m \in DOMAIN alive : m \in Nat /\ alive[m] \in Nat /\ m - 1 <= alive[m]
      /\ \A m, n \in DOMAIN alive : m < n => alive[m] < alive[n]
  BY <1>1 DEF Increasing
<1>3. /\ m1 \in DOMAIN alive /\ m1 \in DOMAIN indices
      /\ m1 - 1 = new_i /\ new_i < m1 /\ m1 <= Len(alive) /\ m1 \in Nat
  BY <1>1, <1>2, IndicesFacts
<1> HIDE DEF m1
<1>4. old_i \in Nat /\ new_i <= old_i
  BY <1>2, <1>3
<1>5. \A m \in DOMAIN alive : m1 < m => old_i < alive[m]
  BY <1>2, <1>3
<1>6. /\ Len(renumbered) = Len(indices) /\ renumbered \in Seq(Nat)
      /\ DOMAIN renumbered = DOMAIN indices
      /\ renumbered[m1] = new_i
      /\ \A p \in DOMAIN indices : p # m1 => renumbered[p] = indices[p]
  <2>1. indices \in Seq(Nat)
    BY IndicesFacts
  <2> QED
    BY <1>1, <1>3, <2>1
<1>7. new_i <= indices[m1] /\ indices[m1] < pool.size /\ new_i < pool.size
  BY <1>1, <1>3, IndicesFacts
<1>8. old_i = new_i => renumbered = indices
  <2> SUFFICES ASSUME old_i = new_i PROVE indices[m1] = new_i
    BY <1>3, <1>6, IndicesFacts
  <2>1. PICK p \in DOMAIN indices : m1 <= p /\ indices[p] = new_i
    BY <1>1, <1>3
  <2>2. p - 1 <= new_i /\ p \in Nat
    BY <2>1, IndicesFacts
  <2>3. p = m1
    BY <1>1, <1>3, <2>1, <2>2
  <2> QED
    BY <2>1, <2>3
<1>9. \A p \in DOMAIN indices : p < m1 => indices[p] = p - 1
  <2> SUFFICES ASSUME NEW p \in DOMAIN indices, p < m1
               PROVE  indices[p] = p - 1
    OBVIOUS
  <2>1. p \in 1..Len(indices) /\ Len(indices) \in Nat
    BY IndicesFacts
  <2>2. p <= new_i /\ p \in 1..Len(alive)
    BY <1>1, <1>2, <1>3, <2>1
  <2> QED
    BY <1>1, <1>2, <2>2
<1> HIDE DEF renumbered, old_i
<1>10. Increasing(renumbered)
  <2>1. \A p \in DOMAIN indices : p - 1 <= renumbered[p]
    <3> SUFFICES ASSUME NEW p \in DOMAIN indices
                 PROVE  p - 1 <= renumbered[p]
      OBVIOUS
    <3>1. CASE p = m1
      BY <1>1, <1>3, <1>6, <3>1
    <3>2. CASE p # m1
      BY <1>6, <3>2, IndicesFacts
    <3> QED
      BY <3>1, <3>2
  <2>2. ASSUME NEW p \in DOMAIN indices, NEW q \in DOMAIN indices, p < q
        PROVE  renumbered[p] < renumbered[q]
    <3>1. p \in Nat /\ q \in Nat /\ indices[p] < indices[q]
          /\ indices[p] \in Nat /\ indices[q] \in Nat
      BY <2>2, IndicesFacts DEF Increasing
    <3>2. CASE p = m1
      <4>1. renumbered[p] = new_i /\ q # m1 /\ renumbered[q] = indices[q]
        BY <1>3, <1>6, <2>2, <3>1, <3>2
      <4> QED
        BY <1>1, <1>7, <3>1, <3>2, <4>1
    <3>3. CASE q = m1
      <4>1. renumbered[q] = new_i /\ p # m1 /\ renumbered[p] = indices[p]
        BY <1>3, <1>6, <2>2, <3>1, <3>3
      <4>2. p < m1 /\ indices[p] = p - 1
        BY <1>9, <2>2, <3>3
      <4> QED
        BY <1>3, <3>1, <4>1, <4>2
    <3>4. CASE p # m1 /\ q # m1
      BY <1>6, <3>1, <3>4
    <3> QED
      BY <3>2, <3>3, <3>4
  <2> QED
    BY <1>6, <2>1, <2>2 DEF Increasing
<1>11. \A p \in DOMAIN indices : renumbered[p] < pool.size
  BY <1>6, <1>7, IndicesFacts
<1>12. ASSUME NEW m \in DOMAIN alive
       PROVE  /\ m <= m1 => renumbered[m] = m - 1
              /\ m1 < m => \E p \in DOMAIN indices :
                             m <= p /\ renumbered[p] = alive[m]
  <2>1. m \in Nat /\ m \in DOMAIN indices
    BY <1>1, <1>2, IndicesFacts
  <2>2. CASE m <= m1
    <3>1. CASE m = m1
      BY <1>3, <1>6, <3>1
    <3>2. CASE m # m1
      <4>1. m < m1
        BY <1>3, <2>1, <2>2, <3>2
      <4>2. renumbered[m] = indices[m]
        BY <1>6, <2>1, <3>2
      <4>3. indices[m] = m - 1
        BY <1>9, <2>1, <4>1
      <4> QED
        BY <2>2, <2>1, <4>2, <4>3, <1>3
    <3>3. ~ (m1 < m)
      BY <1>3, <2>1, <2>2
    <3> QED
      BY <3>1, <3>2, <3>3
  <2>3. CASE m1 < m
    <3>1. PICK p \in DOMAIN indices : m <= p /\ indices[p] = alive[m]
      <4>1. new_i < m
        BY <1>1, <1>3, <2>1, <2>3
      <4> QED
        BY <1>1, <4>1
    <3>2. p # m1 /\ ~ (m <= m1)
      <4>1. p \in Nat
        BY IndicesFacts
      <4> QED
        BY <1>3, <2>1, <2>3, <3>1, <4>1
    <3> QED
      BY <1>6, <3>1, <3>2
  <2> QED
    BY <1>3, <2>1, <2>2, <2>3
<1> QED
  BY <1>1, <1>2, <1>3, <1>4, <1>5, <1>6, <1>8, <1>10, <1>11, <1>12
  DEF m1, old_i, renumbered

(* What a step of the loop that goes on leaves. *)
LEMMA LoopGoesOn ==
  ASSUME FrameInv, pc = "gc", new_i < Len(alive),
         NEW col \in ColumnSet,
         indices' = [indices EXCEPT ![new_i + 1] = new_i],
         new_data' = Append(new_data, col), new_i' = new_i + 1,
         UNCHANGED <<pool, data, pc, alive>>,
         name' = [kv |-> name'.kv, vk |-> name'.vk],
         \A k \in DOMAIN name'.vk : name'.vk[k] \in Nat
  PROVE  FrameInv'
<1> DEFINE renumbered == [indices EXCEPT ![new_i + 1] = new_i]
<1>1. indices' = renumbered
  OBVIOUS
<1>2. /\ new_i \in Nat /\ new_i + 1 <= Len(alive)
      /\ Increasing(renumbered)
      /\ Len(renumbered) = Len(indices)
      /\ DOMAIN renumbered = DOMAIN indices
      /\ \A p \in DOMAIN indices : renumbered[p] < pool.size
      /\ \A m \in DOMAIN alive :
           /\ m <= new_i + 1 => renumbered[m] = m - 1
           /\ new_i + 1 < m => \E p \in DOMAIN indices :
                                 m <= p /\ renumbered[p] = alive[m]
  BY LoopFacts
<1> HIDE DEF renumbered
<1>3. new_data' \in Seq(ColumnSet) /\ Len(new_data') = new_i + 1
  BY DEF FrameInv, LoopInv
<1>4. LoopInv'
  BY <1>1, <1>2, <1>3 DEF FrameInv, LoopInv
<1>5. FrameTypes' /\ IndicesOrdered'
  BY <1>1, <1>2 DEF FrameInv, FrameTypes, IndicesOrdered
<1> QED
  BY <1>4, <1>5 DEF FrameInv

(* The column at an index that at() finds *)
LEMMA ColumnThere ==
  ASSUME FrameInv, NEW i \in Nat, InData(data, i)
  PROVE  Column(i) \in ColumnSet /\ i + 1 \in DOMAIN data
  BY IndicesFacts DEF InData, Column

(* A column that is already in its place (frame.cpp:79-81). *)
LEMMA GcKeepKeeps ==
  ASSUME FrameInv, CarefulInv, GcKeep, If(TRUE), UNCHANGED fitting
  PROVE  FrameInv' /\ CarefulInv'
<1>1. /\ pc = "gc" /\ new_i < Len(alive) /\ alive[new_i + 1] = new_i
      /\ InData(data, new_i)
      /\ new_data' = Append(new_data, Column(new_i))
      /\ new_i' = new_i + 1
      /\ UNCHANGED <<pool, indices, data, name, outcome, pc, alive>>
  BY DEF GcKeep
<1>2. /\ new_i \in Nat /\ new_i + 1 \in DOMAIN alive
      /\ [indices EXCEPT ![new_i + 1] = new_i] = indices
      /\ \A m \in DOMAIN alive : m \in Nat
  BY <1>1, LoopFacts
<1>3. Column(new_i) \in ColumnSet /\ new_i + 1 \in DOMAIN data
  BY <1>1, <1>2, ColumnThere
<1>4. name = [kv |-> name.kv, vk |-> name.vk] /\ \A k \in DOMAIN name.vk : name.vk[k] \in Nat
  BY DEF FrameInv, FrameTypes
<1>5. FrameInv'
  BY <1>1, <1>2, <1>3, <1>4, LoopGoesOn
<1>6. CarefulInv'
  <2> SUFFICES ASSUME careful' PROVE CarefulInv'
    BY DEF CarefulInv
  <2>1. careful
    BY DEF If
  <2>2. fitting => \A p \in DOMAIN new_data' : new_data'[p].len = Rows
    <3>1. fitting => Column(new_i).len = Rows
      BY <1>3, <2>1 DEF CarefulInv, Column
    <3>2. new_data \in Seq(ColumnSet)
      BY <1>1 DEF FrameInv, LoopInv
    <3>3. fitting => \A p \in DOMAIN new_data : new_data[p].len = Rows
      BY <1>1, <2>1 DEF CarefulInv
    <3>4. \A p \in DOMAIN new_data' :
            \/ p \in DOMAIN new_data /\ new_data'[p] = new_data[p]
            \/ new_data'[p] = Column(new_i)
      BY <1>1, <3>2
    <3> QED
      BY <3>1, <3>3, <3>4
  <2>3. ASSUME NEW m \in DOMAIN alive
        PROVE  /\ alive[m] < Len(data)
               /\ IF m <= new_i + 1 THEN m - 1 \in DOMAIN name.kv
                                    ELSE alive[m] \in DOMAIN name.kv
    <3>1. /\ alive[m] < Len(data)
          /\ IF m <= new_i THEN m - 1 \in DOMAIN name.kv
                           ELSE alive[m] \in DOMAIN name.kv
      BY <1>1, <2>1 DEF CarefulInv
    <3>2. CASE m = new_i + 1
      BY <1>1, <1>2, <3>1, <3>2
    <3>3. CASE m # new_i + 1
      BY <1>2, <3>1, <3>3
    <3> QED
      BY <3>2, <3>3
  <2>4. pc' = "gc"
    BY <1>1
  <2> QED
    BY <1>1, <2>1, <2>2, <2>3, <2>4 DEF CarefulInv
<1> QED
  BY <1>5, <1>6

(* A column moves down (frame.cpp:82-88): no column that has yet to move   *)
(* has the new index, so it loses no name.                                 *)
LEMMA GcMoveKeeps ==
  ASSUME FrameInv, CarefulInv, GcMove, If(TRUE), UNCHANGED fitting
  PROVE  FrameInv' /\ CarefulInv'
<1> DEFINE old_i == alive[new_i + 1]
<1>1. /\ pc = "gc" /\ new_i < Len(alive) /\ old_i # new_i
      /\ InData(data, old_i)
      /\ indices' = [indices EXCEPT ![new_i + 1] = new_i]
      /\ new_data' = Append(new_data, Column(old_i))
      /\ name' = EraseKeyOf(Assign(name, new_i, name.kv[old_i]), old_i)
      /\ new_i' = new_i + 1
      /\ UNCHANGED <<pool, data, outcome, pc, alive>>
  BY DEF GcMove
<1>2. /\ new_i \in Nat /\ new_i + 1 \in DOMAIN alive
      /\ old_i \in Nat /\ new_i < old_i
      /\ Len([indices EXCEPT ![new_i + 1] = new_i]) = Len(indices)
      /\ \A m \in DOMAIN alive :
           /\ m \in Nat /\ alive[m] \in Nat
           /\ new_i + 1 < m => old_i < alive[m]
  BY <1>1, LoopFacts
<1>3. Column(old_i) \in ColumnSet /\ old_i + 1 \in DOMAIN data
  BY <1>1, <1>2, ColumnThere
<1> HIDE DEF old_i
<1> DEFINE put == Put(name.kv, new_i, name.kv[old_i])
<1>4. name' = [kv |-> Drop(put, old_i),
               vk |-> Drop(Put(name.vk, name.kv[old_i], new_i), put[old_i])]
  BY <1>1 DEF EraseKeyOf, Assign
<1>5. /\ name' = [kv |-> name'.kv, vk |-> name'.vk]
      /\ DOMAIN name'.kv = (DOMAIN name.kv \cup {new_i}) \ {old_i}
      /\ \A k \in DOMAIN name'.vk : name'.vk[k] \in Nat
  <2>1. name'.kv = Drop(put, old_i)
    BY <1>4
  <2>2. name'.vk = Drop(Put(name.vk, name.kv[old_i], new_i), put[old_i])
    BY <1>4
  <2>3. DOMAIN name'.kv = (DOMAIN name.kv \cup {new_i}) \ {old_i}
    BY <2>1 DEF Put, Drop
  <2>4. \A k \in DOMAIN name'.vk : name'.vk[k] \in Nat
    <3>1. \A k \in DOMAIN name.vk : name.vk[k] \in Nat
      BY DEF FrameInv, FrameTypes
    <3> HIDE DEF put
    <3> QED
      BY <1>2, <2>2, <3>1 DEF Put, Drop
  <2> QED
    BY <1>4, <2>3, <2>4
<1>6. FrameInv'
  BY <1>1, <1>3, <1>5, LoopGoesOn
<1>7. CarefulInv'
  <2> SUFFICES ASSUME careful' PROVE CarefulInv'
    BY DEF CarefulInv
  <2>1. careful
    BY DEF If
  <2>2. fitting => \A p \in DOMAIN new_data' : new_data'[p].len = Rows
    <3>1. fitting => Column(old_i).len = Rows
      BY <1>3, <2>1 DEF CarefulInv, Column
    <3>2. new_data \in Seq(ColumnSet)
      BY <1>1 DEF FrameInv, LoopInv
    <3>3. fitting => \A p \in DOMAIN new_data : new_data[p].len = Rows
      BY <1>1, <2>1 DEF CarefulInv
    <3>4. \A p \in DOMAIN new_data' :
            \/ p \in DOMAIN new_data /\ new_data'[p] = new_data[p]
            \/ new_data'[p] = Column(old_i)
      BY <1>1, <3>2
    <3> QED
      BY <3>1, <3>3, <3>4
  <2>3. ASSUME NEW m \in DOMAIN alive
        PROVE  /\ alive[m] < Len(data)
               /\ IF m <= new_i + 1 THEN m - 1 \in DOMAIN name'.kv
                                    ELSE alive[m] \in DOMAIN name'.kv
    <3>1. /\ alive[m] < Len(data)
          /\ IF m <= new_i THEN m - 1 \in DOMAIN name.kv
                           ELSE alive[m] \in DOMAIN name.kv
      BY <1>1, <2>1 DEF CarefulInv
    <3>2. CASE m = new_i + 1
      BY <1>2, <1>5, <3>1, <3>2
    <3>3. CASE m <= new_i
      <4>1. m - 1 # old_i /\ m <= new_i + 1
        BY <1>2, <3>3
      <4> QED
        BY <1>5, <3>1, <3>3, <4>1
    <3>4. CASE new_i + 1 < m
      <4>1. alive[m] # old_i /\ ~ (m <= new_i) /\ ~ (m <= new_i + 1)
        BY <1>2, <3>4
      <4> QED
        BY <1>5, <3>1, <4>1
    <3> QED
      BY <1>2, <3>2, <3>3, <3>4
  <2>4. pc' = "gc"
    BY <1>1
  <2> QED
    BY <1>1, <1>2, <2>1, <2>2, <2>3, <2>4 DEF CarefulInv
<1> QED
  BY <1>6, <1>7

(* A collection that throws leaves sorted indices, and is none of the      *)
(* careful caller's (frame.cpp:78, 83).                                    *)
LEMMA GcThrowKeeps ==
  ASSUME FrameInv, CarefulInv, GcThrow, If(TRUE), UNCHANGED fitting
  PROVE  FrameInv' /\ CarefulInv'
<1> DEFINE old_i == alive[new_i + 1]
           renumbered == [indices EXCEPT ![new_i + 1] = new_i]
<1>1. /\ pc = "gc" /\ new_i < Len(alive)
      /\ InData(data, old_i) => old_i # new_i /\ old_i \notin DOMAIN name.kv
      /\ indices' = IF old_i = new_i THEN indices ELSE renumbered
      /\ pc' = "idle"
      /\ UNCHANGED <<pool, data, name>>
  BY DEF GcThrow
<1>2. /\ new_i \in Nat /\ new_i + 1 \in DOMAIN alive
      /\ old_i = new_i => renumbered = indices
      /\ Increasing(renumbered)
      /\ DOMAIN renumbered = DOMAIN indices
      /\ \A p \in DOMAIN indices : renumbered[p] < pool.size
  BY <1>1, LoopFacts
<1> HIDE DEF renumbered
<1>3. indices' = renumbered
  BY <1>1, <1>2
<1>4. FrameInv'
  BY <1>1, <1>2, <1>3 DEF FrameInv, FrameTypes, IndicesOrdered, LoopInv
<1>5. ~careful
  <2> SUFFICES ASSUME careful PROVE FALSE
    OBVIOUS
  <2>1. ~ (new_i + 1 <= new_i)
    BY <1>2
  <2>2. old_i < Len(data) /\ old_i \in DOMAIN name.kv
    BY <1>1, <1>2, <2>1 DEF CarefulInv
  <2> QED
    BY <1>1, <2>2 DEF InData
<1> QED
  BY <1>4, <1>5 DEF CarefulInv, If

(* The end of the loop: the columns are numbered by position again         *)
(* (frame.cpp:89-91).                                                      *)
LEMMA GcEndKeeps ==
  ASSUME FrameInv, CarefulInv, GcEnd, If(TRUE), UNCHANGED fitting
  PROVE  /\ FrameInv' /\ CarefulInv'
         /\ DOMAIN alive = 1..Len(alive) /\ Len(alive) \in Nat
         /\ DOMAIN indices' = DOMAIN alive
         /\ \A m \in DOMAIN alive : indices'[m] = m - 1 /\ m <= new_i /\ m \in Nat
         /\ Len(data') = Len(alive)
<1>1. /\ pc = "gc" /\ pc' = "idle"
      /\ new_i = Len(alive)
      /\ data' = new_data
      /\ indices' = SubSeq(indices, 1, Len(alive))
      /\ pool' = Clear(pool)
      /\ name' = name /\ outcome' = "ok"
  BY DEF GcEnd
<1>2. /\ Len(alive) <= Len(indices)
      /\ alive \in Seq(Nat)
      /\ new_data \in Seq(ColumnSet) /\ Len(new_data) = Len(alive)
      /\ \A m \in DOMAIN alive : m <= new_i => indices[m] = m - 1
  BY <1>1 DEF FrameInv, LoopInv, Increasing
<1>3. /\ Len(alive) \in Nat /\ DOMAIN alive = 1..Len(alive)
      /\ \A m \in DOMAIN alive : m \in Nat /\ m <= new_i /\ indices[m] = m - 1
  BY <1>1, <1>2
<1>4. /\ indices' \in Seq(Nat) /\ Len(indices') = Len(alive)
      /\ DOMAIN indices' = DOMAIN alive
      /\ \A m \in DOMAIN alive : indices'[m] = m - 1
  <2>1. \A m \in 1..Len(alive) : indices[m] \in Nat
    BY <1>2, <1>3, IndicesFacts
  <2>2. /\ indices' \in Seq(Nat)
        /\ Len(indices') = Len(alive)
        /\ \A m \in 1..Len(alive) : indices'[m] = indices[m]
    BY <1>1, <1>3, <2>1, SubSeqProperties
  <2> QED
    BY <1>3, <2>2
<1>5. IsPool(pool') /\ pool'.size = pool.size /\ pool'.deprecated = {}
  BY <1>1 DEF FrameInv, FrameTypes, Clear, IsPool
<1>6. IndicesOrdered'
  <2>1. \A m \in DOMAIN alive : m - 1 < pool.size
    BY <1>2, <1>3, IndicesFacts
  <2>2. Increasing(indices')
    BY <1>3, <1>4 DEF Increasing
  <2> QED
    BY <1>4, <1>5, <2>1, <2>2 DEF IndicesOrdered
<1>7. FrameTypes' /\ LoopInv'
  BY <1>1, <1>2, <1>5 DEF FrameInv, FrameTypes, LoopInv
<1>8. CarefulInv'
  <2> SUFFICES ASSUME careful' PROVE CarefulInv'
    BY DEF CarefulInv
  <2>1. careful
    BY DEF If
  <2>2. fitting => \A p \in DOMAIN data' : data'[p].len = Rows
    BY <1>1, <2>1 DEF CarefulInv
  <2>3. \A m \in DOMAIN alive : m - 1 \in DOMAIN name.kv
    BY <1>1, <1>3, <2>1 DEF CarefulInv
  <2> QED
    BY <1>1, <1>2, <1>4, <1>5, <2>2, <2>3 DEF CarefulInv
<1> QED
  BY <1>1, <1>2, <1>3, <1>4, <1>6, <1>7, <1>8 DEF FrameInv

-----------------------------------------------------------------------------
(* Every step keeps both invariants. *)
LEMMA FrameStepInv ==
  ASSUME FrameInv, CarefulInv, [NextUse]_useVars
  PROVE  FrameInv' /\ CarefulInv'
<1>1. AnyIndex \subseteq Nat
  BY FrameAssumption DEF AnyIndex
<1>2. CASE \E i \in AnyIndex, vec \in Vectors : Assigns(i, vec)
  BY <1>2, AssignColKeeps
<1>3. CASE Others /\ UNCHANGED fitting
  <2>1. CASE \E k \in Names, vec \in Vectors : NewCol(k, vec) /\ If(PoolFits)
    BY <1>3, <2>1, NewColKeeps, NewColCareful
  <2>2. CASE \E i \in AnyIndex : EraseCol(i) /\ If(IsColumn(i))
    BY <1>1, <1>3, <2>2, EraseColKeeps
  <2>3. CASE \E k \in Names : EraseColByName(k) /\ If(IsColumn(name.vk[k]))
    <3>1. PICK k \in Names : EraseColByName(k) /\ If(IsColumn(name.vk[k]))
      BY <2>3
    <3>2. name.vk[k] \in Nat /\ EraseCol(name.vk[k])
      BY <3>1 DEF EraseColByName, FrameInv, FrameTypes
    <3> QED
      BY <1>3, <3>1, <3>2, EraseColKeeps
  <2>4. CASE \E i \in AnyIndex, k \in Names : RenameCol(i, k) /\ If(IsColumn(i))
    <3>1. PICK i \in AnyIndex, k \in Names : RenameCol(i, k) /\ If(IsColumn(i))
      BY <2>4
    <3>2. careful' => careful
      BY <3>1 DEF If
    <3> QED
      BY <1>3, <3>1, <3>2, RenameColKeeps
  <2>5. CASE \E old, k \in Names :
               RenameColByName(old, k) /\ If(IsColumn(name.vk[old]))
    <3>1. PICK old \in Names, k \in Names :
            RenameColByName(old, k) /\ If(IsColumn(name.vk[old]))
      BY <2>5
    <3>2. RenameCol(name.vk[old], k) /\ (careful' => careful)
      BY <3>1 DEF RenameColByName, If
    <3> QED
      BY <1>3, <3>2, RenameColKeeps
  <2>6. CASE GarbageCollect /\ If(TRUE)
    BY <1>3, <2>6, GcBeginKeeps, GcKeepKeeps, GcMoveKeeps, GcThrowKeeps, GcEndKeeps
    DEF GarbageCollect
  <2> QED
    BY <1>3, <2>1, <2>2, <2>3, <2>4, <2>5, <2>6 DEF Others
<1>4. CASE UNCHANGED useVars
  <2>1. UNCHANGED vars /\ careful' = careful /\ fitting' = fitting
    BY <1>4 DEF useVars
  <2> QED
    BY <2>1
    DEF vars, FrameInv, FrameTypes, IndicesOrdered, LoopInv, CarefulInv
<1> QED
  BY <1>2, <1>3, <1>4 DEF NextUse

(* Whatever a program does with a frame, FrameInv holds, and CarefulInv as *)
(* long as its calls were careful ones.                                    *)
THEOREM FrameInvariance == SpecUse => [](FrameInv /\ CarefulInv)
  BY FrameInitInv, FrameStepInv, PTL DEF SpecUse

(* No call of the careful caller throws half way: neither a column nor a   *)
(* name is missing when a call looks for it (frame.cpp:78, 83).            *)
THEOREM CarefulNeverThrows == SpecUse => []NeverThrows
<1>1. FrameInv /\ CarefulInv => NeverThrows
  BY DEF CarefulInv, NeverThrows
<1> QED
  BY <1>1, FrameInvariance, PTL

(* The indices in use, as the careful caller finds them. *)
LEMMA ColumnsFacts ==
  ASSUME FrameInv, CarefulInv, careful, pc = "idle"
  PROVE  /\ Len(indices) = Len(data) /\ Len(data) \in Nat
         /\ DOMAIN indices = 1..Len(data) /\ DOMAIN data = 1..Len(data)
         /\ \A p \in DOMAIN indices : indices[p] = p - 1
         /\ \A i \in RangeOf(Columns) : i \in Nat /\ i < Len(data)
         /\ Len(Columns) \in Nat /\ DOMAIN Columns = 1..Len(Columns)
         /\ pool.deprecated \in SUBSET (0..(Len(data) - 1))
<1>1. /\ Len(indices) = Len(data)
      /\ \A p \in DOMAIN indices : indices[p] = p - 1
      /\ \A i \in pool.deprecated : i < Len(data)
  BY DEF CarefulInv
<1>2. /\ Increasing(indices) /\ DOMAIN indices = 1..Len(data)
      /\ Len(data) \in Nat /\ DOMAIN data = 1..Len(data)
  BY <1>1, IndicesFacts
<1>3. Increasing(Columns) /\ RangeOf(Columns) = RangeOf(indices) \ pool.deprecated
  BY <1>2, FilteredGives DEF Columns
<1>4. Len(Columns) \in Nat /\ DOMAIN Columns = 1..Len(Columns)
  BY <1>3 DEF Increasing
<1>5. \A i \in RangeOf(indices) : i \in Nat /\ i < Len(data)
  <2> SUFFICES ASSUME NEW p \in DOMAIN indices
               PROVE  indices[p] \in Nat /\ indices[p] < Len(data)
    BY DEF RangeOf
  <2> QED
    BY <1>1, <1>2
<1>6. pool.deprecated \subseteq Nat
  BY DEF FrameInv, FrameTypes, IsPool
<1> QED
  BY <1>1, <1>2, <1>3, <1>4, <1>5, <1>6

(* While the vectors assigned through col() have the frame's length, every *)
(* column in use has it, a reused one too (frame.hpp:55-72, 83-89).        *)
THEOREM CarefulRectangular == SpecUse => []Rectangular
<1>1. FrameInv /\ CarefulInv => Rectangular
  <2> SUFFICES ASSUME FrameInv, CarefulInv, careful, fitting, pc = "idle",
                      NEW i \in RangeOf(Columns)
               PROVE  InData(data, i) /\ Column(i).len = Rows
    BY DEF Rectangular
  <2>1. i \in Nat /\ i < Len(data) /\ i + 1 \in DOMAIN data
    BY ColumnsFacts
  <2> QED
    BY <2>1 DEF CarefulInv, InData, Column
<1> QED
  BY <1>1, FrameInvariance, PTL

(* The columns are numbered by position, cols() counts them, and without   *)
(* erased columns every index in use is below that number                  *)
(* (frame.cpp:8-10, 98-102).                                               *)
THEOREM CarefulColumnsNumbered == SpecUse => []ColumnsNumbered
<1>1. FrameInv /\ CarefulInv => ColumnsNumbered
  <2> SUFFICES ASSUME FrameInv, CarefulInv, careful, pc = "idle"
               PROVE  /\ Cols = Len(Columns)
                      /\ Len(indices) = Len(data)
                      /\ \A p \in DOMAIN indices : indices[p] = p - 1
                      /\ HasDeprecated(pool) \/ \A i \in RangeOf(Columns) : ColAccepts(i)
    BY DEF ColumnsNumbered
  <2>1. Cols = Len(Columns)
    <3>1. /\ Len(data) \in Nat /\ Len(indices) = Len(data)
          /\ DOMAIN indices = 1..Len(data)
          /\ \A p \in 1..Len(data) : indices[p] = p - 1
          /\ pool.deprecated \in SUBSET (0..(Len(data) - 1))
          /\ Len(Columns) \in Nat /\ DOMAIN Columns = 1..Len(Columns)
      BY ColumnsFacts
    <3>2. Columns = Filtered(indices, pool.deprecated)
      BY DEF Columns
    <3> HIDE DEF Columns
    <3> QED
      BY <3>1, <3>2, NumberedCounts DEF Cols
  <2>2. ASSUME ~HasDeprecated(pool), NEW i \in RangeOf(Columns)
        PROVE  ColAccepts(i)
    <3>1. Cols = Len(data)
      <4>1. Cardinality(pool.deprecated) = 0
        BY <2>2, FS_EmptySet DEF HasDeprecated
      <4> QED
        BY <4>1, ColumnsFacts DEF Cols
    <3> QED
      BY <3>1, ColumnsFacts DEF ColAccepts, InData
  <2> QED
    BY <2>1, <2>2, ColumnsFacts
<1> QED
  BY <1>1, FrameInvariance, PTL

(* A new column never gets the index of one in use, whatever the caller    *)
(* did before (pool.hpp:35-43).                                            *)
THEOREM NewColumnsTakeFreeIndices == SpecUse => []NextIndexFree
<1>1. FrameInv => NextIndexFree
  <2> SUFFICES ASSUME FrameInv, IsColumn(NextIndex(pool)) PROVE FALSE
    BY DEF NextIndexFree
  <2>1. IsPool(pool)
    BY DEF FrameInv, FrameTypes
  <2>2. CASE HasDeprecated(pool)
    BY <2>1, <2>2, PoolGet DEF IsColumn, IsDeprecated
  <2>3. CASE ~HasDeprecated(pool)
    <3>1. PICK p \in DOMAIN indices : indices[p] = pool.size
      BY <2>1, <2>3, PoolGet DEF IsColumn, RangeOf
    <3> QED
      BY <3>1, IndicesFacts
  <2> QED
    BY <2>2, <2>3
<1> QED
  BY <1>1, FrameInvariance, PTL

-----------------------------------------------------------------------------
(* garbage_collect() as a whole *)

(* The two parts of an entry of Contents *)
NameOf(i) == {name.kv[j] : j \in {i} \cap DOMAIN name.kv}
ColumnOf(i) == {Column(j) : j \in {i} \cap 0..(Len(data) - 1)}

LEMMA ContentsInGc ==
  pc = "gc" =>
    Contents = [m \in DOMAIN alive |->
                  IF m <= new_i THEN <<NameOf(m - 1), {new_data[m]}>>
                                ELSE <<NameOf(alive[m]), ColumnOf(alive[m])>>]
  BY DEF Contents, NameOf, ColumnOf

LEMMA ContentsIdle ==
  pc # "gc" =>
    Contents = [m \in DOMAIN Columns |->
                  <<NameOf(Columns[m]), ColumnOf(Columns[m])>>]
  BY DEF Contents, NameOf, ColumnOf

(* The column that at(i) finds is the only one at i. *)
LEMMA ColumnOfOne ==
  ASSUME FrameInv, NEW i \in Nat, InData(data, i)
  PROVE  ColumnOf(i) = {Column(i)}
<1>1. i \in 0..(Len(data) - 1)
  BY IndicesFacts DEF InData
<1> QED
  BY <1>1 DEF ColumnOf

(* A step of the loop that leaves the columns still to come where they     *)
(* are, and gives the one at hand its new index.                           *)
LEMMA ContentsStep ==
  ASSUME FrameInv, pc = "gc", pc' = "gc", new_i < Len(alive),
         new_i' = new_i + 1, alive' = alive, data' = data,
         InData(data, alive[new_i + 1]),
         new_data' = Append(new_data, Column(alive[new_i + 1])),
         \A j \in Nat : j = new_i => NameOf(j)' = NameOf(alive[new_i + 1]),
         \A j \in Nat : j # new_i /\ j # alive[new_i + 1] =>
                          NameOf(j)' = NameOf(j)
  PROVE  Contents' = Contents
<1> DEFINE old_i == alive[new_i + 1]
           Entry(m) == IF m <= new_i THEN <<NameOf(m - 1), {new_data[m]}>>
                       ELSE <<NameOf(alive[m]), ColumnOf(alive[m])>>
<1>1. /\ new_i \in Nat /\ new_i + 1 \in DOMAIN alive
      /\ old_i \in Nat /\ new_i <= old_i
      /\ \A m \in DOMAIN alive :
           /\ m \in Nat /\ alive[m] \in Nat
           /\ new_i + 1 < m => old_i < alive[m]
      /\ DOMAIN alive = 1..Len(alive)
  BY LoopFacts
<1>2. new_data \in Seq(ColumnSet) /\ Len(new_data) = new_i
  BY DEF FrameInv, LoopInv
<1>3. /\ \A m \in 1..new_i : new_data'[m] = new_data[m]
      /\ new_data'[new_i + 1] = Column(old_i)
  BY <1>1, <1>2
<1>4. \A i : ColumnOf(i)' = ColumnOf(i)
  BY DEF ColumnOf, Column
<1>5. Contents = [m \in DOMAIN alive |-> Entry(m)]
  BY ContentsInGc
<1>6. Contents' = [m \in DOMAIN alive |->
                     IF m <= new_i + 1 THEN <<NameOf(m - 1)', {new_data'[m]}>>
                     ELSE <<NameOf(alive[m])', ColumnOf(alive[m])>>]
  <2>1. (pc = "gc" =>
           Contents = [m \in DOMAIN alive |->
                         IF m <= new_i THEN <<NameOf(m - 1), {new_data[m]}>>
                         ELSE <<NameOf(alive[m]), ColumnOf(alive[m])>>])'
    BY ContentsInGc, PTL
  <2> QED
    BY <1>4, <2>1 DEF NameOf
<1>7. ASSUME NEW m \in DOMAIN alive
      PROVE  (IF m <= new_i + 1 THEN <<NameOf(m - 1)', {new_data'[m]}>>
              ELSE <<NameOf(alive[m])', ColumnOf(alive[m])>>) = Entry(m)
  <2>1. CASE m = new_i + 1
    <3>1. Entry(m) = <<NameOf(old_i), ColumnOf(old_i)>>
      BY <1>1, <2>1
    <3>2. ColumnOf(old_i) = {Column(old_i)}
      BY <1>1, ColumnOfOne
    <3>3. m - 1 = new_i /\ m <= new_i + 1
      BY <1>1, <2>1
    <3>4. NameOf(m - 1)' = NameOf(old_i)
      BY <1>1, <3>3
    <3> QED
      BY <1>3, <2>1, <3>1, <3>2, <3>3, <3>4
  <2>2. CASE m <= new_i
    <3>1. m - 1 # new_i /\ m - 1 # old_i /\ m - 1 \in Nat /\ m \in 1..new_i
          /\ m <= new_i + 1
      BY <1>1, <2>2
    <3>2. NameOf(m - 1)' = NameOf(m - 1) /\ new_data'[m] = new_data[m]
      BY <1>3, <3>1
    <3> QED
      BY <2>2, <3>1, <3>2
  <2>3. CASE new_i + 1 < m
    <3>1. ~ (m <= new_i) /\ ~ (m <= new_i + 1) /\ alive[m] \in Nat
          /\ alive[m] # old_i /\ alive[m] # new_i
      BY <1>1, <2>3
    <3>2. NameOf(alive[m])' = NameOf(alive[m])
      BY <3>1
    <3> QED
      BY <3>1, <3>2
  <2>4. m = new_i + 1 \/ m <= new_i \/ new_i + 1 < m
    BY <1>1
  <2> QED
    BY <2>1, <2>2, <2>3, <2>4
<1> QED
  BY <1>5, <1>6, <1>7

(* A collection that does not throw keeps the name, the cells and the      *)
(* order of every column in use, at every iteration (frame.cpp:71-92).     *)
THEOREM CollectingKeepsColumns == SpecUse => GcKeepsColumns
<1>1. ASSUME FrameInv, GcKeep
      PROVE  Contents' = Contents
  <2>1. /\ pc = "gc" /\ pc' = "gc" /\ new_i < Len(alive)
        /\ alive[new_i + 1] = new_i /\ InData(data, new_i)
        /\ new_data' = Append(new_data, Column(new_i))
        /\ new_i' = new_i + 1
        /\ alive' = alive /\ data' = data /\ name' = name
    BY <1>1 DEF GcKeep
  <2>2. \A j \in Nat : NameOf(j)' = NameOf(j)
    BY <2>1 DEF NameOf
  <2> QED
    BY <1>1, <2>1, <2>2, ContentsStep
<1>2. ASSUME FrameInv, GcMove
      PROVE  Contents' = Contents
  <2> DEFINE old_i == alive[new_i + 1]
             put == Put(name.kv, new_i, name.kv[old_i])
  <2>1. /\ pc = "gc" /\ pc' = "gc" /\ new_i < Len(alive) /\ old_i # new_i
        /\ InData(data, old_i) /\ old_i \in DOMAIN name.kv
        /\ new_data' = Append(new_data, Column(old_i))
        /\ name' = EraseKeyOf(Assign(name, new_i, name.kv[old_i]), old_i)
        /\ new_i' = new_i + 1
        /\ alive' = alive /\ data' = data
    BY <1>2 DEF GcMove
  <2> HIDE DEF old_i
  <2>2. name'.kv = Drop(put, old_i)
    BY <2>1 DEF EraseKeyOf, Assign
  <2>3. /\ new_i \in DOMAIN name'.kv /\ name'.kv[new_i] = name.kv[old_i]
        /\ \A j : j # new_i /\ j # old_i =>
             /\ j \in DOMAIN name'.kv <=> j \in DOMAIN name.kv
             /\ j \in DOMAIN name.kv => name'.kv[j] = name.kv[j]
    BY <2>1, <2>2 DEF Put, Drop
  <2> HIDE DEF put
  <2>4. \A j \in Nat : j = new_i => NameOf(j)' = NameOf(old_i)
    BY <2>1, <2>3 DEF NameOf
  <2>5. \A j \in Nat : j # new_i /\ j # old_i => NameOf(j)' = NameOf(j)
    BY <2>3 DEF NameOf
  <2> QED
    BY <1>2, <2>1, <2>4, <2>5, ContentsStep DEF old_i
<1>3. ASSUME FrameInv, CarefulInv, GcEnd, If(TRUE), UNCHANGED fitting
      PROVE  Contents' = Contents
  <2>1. /\ pc = "gc" /\ pc' = "idle" /\ new_i = Len(alive)
        /\ data' = new_data /\ name' = name /\ pool' = Clear(pool)
    BY <1>3 DEF GcEnd
  <2>2. /\ FrameInv'
        /\ DOMAIN alive = 1..Len(alive) /\ Len(alive) \in Nat
        /\ DOMAIN indices' = DOMAIN alive
        /\ \A m \in DOMAIN alive : indices'[m] = m - 1 /\ m <= new_i /\ m \in Nat
        /\ Len(data') = Len(alive)
    BY <1>3, GcEndKeeps
  <2>3. Columns' = indices'
    <3>1. pool'.deprecated = {}
      BY <1>3, <2>1 DEF Clear, FrameInv, FrameTypes, IsPool
    <3>2. Increasing(indices')
      BY <2>2 DEF FrameInv, IndicesOrdered
    <3> QED
      BY <3>1, <3>2, FilteredNothing DEF Columns
  <2>4. Contents' = [m \in DOMAIN alive |-> <<NameOf(m - 1)', ColumnOf(m - 1)'>>]
    <3>1. (pc # "gc" => Contents = [m \in DOMAIN Columns |->
                                      <<NameOf(Columns[m]), ColumnOf(Columns[m])>>])'
      BY ContentsIdle, PTL
    <3> HIDE DEF Columns, Contents
    <3> QED
      BY <2>1, <2>2, <2>3, <3>1 DEF NameOf, ColumnOf
  <2>5. Contents = [m \in DOMAIN alive |-> <<NameOf(m - 1), {new_data[m]}>>]
    BY <2>1, <2>2, ContentsInGc
  <2>6. ASSUME NEW m \in DOMAIN alive
        PROVE  NameOf(m - 1)' = NameOf(m - 1) /\ ColumnOf(m - 1)' = {new_data[m]}
    <3>1. m - 1 \in 0..(Len(data') - 1) /\ (m - 1) + 1 = m
      BY <2>2
    <3>2. ColumnOf(m - 1)' = {new_data[m]}
      BY <2>1, <3>1 DEF ColumnOf, Column
    <3> QED
      BY <2>1, <3>2 DEF NameOf
  <2> QED
    BY <2>4, <2>5, <2>6
<1>4. ASSUME FrameInv, CarefulInv, [NextUse]_useVars
      PROVE  [GcKeep \/ GcMove \/ GcEnd => Contents' = Contents]_vars
  <2>1. CASE UNCHANGED useVars
    BY <2>1 DEF useVars
  <2>2. CASE NextUse
    <3>1. ASSUME GcEnd PROVE If(TRUE) /\ UNCHANGED fitting
      BY <2>2, <3>1 DEF NextUse, Assigns, Others, GcEnd, NewCol, AssignCol,
         EraseCol, EraseColByName, RenameCol, RenameColByName
    <3> QED
      BY <1>1, <1>2, <1>3, <1>4, <3>1
  <2> QED
    BY <1>4, <2>1, <2>2
<1> QED
  BY <1>4, FrameInvariance, PTL DEF SpecUse, GcKeepsColumns

=============================================================================
