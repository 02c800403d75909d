-------------------------------- MODULE Frame --------------------------------
(***************************************************************************)
(* gaa::Frame (container/frame.hpp, container/frame.cpp): named columns of *)
(* equal length.  Unlike List it keeps the columns in a vector, addressed  *)
(* by the index the pool hands out.                                        *)
(*                                                                         *)
(*   pool      m_idx_pool   erased columns, how many were handed out       *)
(*   indices   m_indices    the columns in use, erased ones included       *)
(*   data      m_data       column i is data[i + 1]                        *)
(*   name      m_name       index <-> name                                 *)
(*   outcome   how the last changing call ended: a call that throws half   *)
(*             way leaves what it had done so far                          *)
(*                                                                         *)
(* A column is abstracted to an identity (its type and cells) and a        *)
(* length.  pc, alive, new_i and new_data are the program counter and the  *)
(* locals of garbage_collect().                                            *)
(***************************************************************************)
EXTENDS Pool, BidirectionalMap

CONSTANTS
  Names,     (* the strings used as column names                    *)
  Cells,     (* what columns hold                                   *)
  Rows,      (* m_size                                              *)
  MaxSize    (* bound: how many columns a pool may hand out         *)

ASSUME FrameAssumption == Rows \in Nat /\ MaxSize \in Nat

VARIABLES pool, indices, data, name, outcome, pc, alive, new_i, new_data

gcVars == <<pc, alive, new_i, new_data>>
vars   == <<pool, indices, data, name, outcome, pc, alive, new_i, new_data>>

(* A caller's vector may be too short, too long or of the right length. *)
Vectors == [cells : Cells, len : {0, Rows, Rows + 1}]

AnyIndex == 0..MaxSize

Init ==
  /\ pool = EmptyPool
  /\ indices = <<>>
  /\ data = <<>>
  /\ name = EmptyBimap
  /\ outcome = "ok"
  /\ pc = "idle"
  /\ alive = <<>>
  /\ new_i = 0
  /\ new_data = <<>>

(* indices() *)
Columns == Filtered(indices, pool.deprecated)

IsColumn(i) == i \in RangeOf(indices) /\ ~IsDeprecated(pool, i)

(* m_data.at(i) of a vector d throws unless i is one of its positions. *)
InData(d, i) == i < Len(d)

Column(i) == data[i + 1]

(* cols(): the subtraction is unsigned *)
Cols == Len(indices) - Cardinality(pool.deprecated)

(* col<T>(i): its assertion and the access behind it both let i through *)
ColAccepts(i) == i < Cols /\ InData(data, i)

-----------------------------------------------------------------------------

CanGet == HasDeprecated(pool) \/ pool.size < MaxSize

(* Wrong variant of NewCol: the column keeps the length it came with. *)
NewColUnsized(k, vec) ==
  LET i == NextIndex(pool) IN
  /\ pc = "idle"
  /\ CanGet
  /\ pool' = AfterGet(pool)
  /\ name' = Assign(name, i, k)
  /\ indices' = IF HasDeprecated(pool) THEN indices ELSE Append(indices, i)
  /\ data' = IF InData(data, i) THEN [data EXCEPT ![i + 1] = vec]
                                ELSE Append(data, vec)
  /\ UNCHANGED <<outcome, pc, alive, new_i, new_data>>

(* new_col(k, vec).  The name is assigned before anything can throw; the   *)
(* column is resized to the frame's rows last, once at(i) has found it.    *)
NewCol(k, vec) ==
  LET i      == NextIndex(pool)
      reused == HasDeprecated(pool)
      grown  == IF reused
                THEN IF InData(data, i) THEN [data EXCEPT ![i + 1] = vec]
                                        ELSE data
                ELSE Append(data, vec)
  IN
  /\ pc = "idle"
  /\ CanGet
  /\ pool' = AfterGet(pool)
  /\ name' = Assign(name, i, k)
  /\ indices' = IF reused THEN indices ELSE Append(indices, i)
  /\ \/ /\ InData(grown, i)
        /\ data' = [grown EXCEPT ![i + 1].len = Rows]
        /\ outcome' = "ok"
     \/ /\ ~InData(grown, i)
        /\ data' = grown
        /\ outcome' = "out_of_range"
  /\ UNCHANGED gcVars

(* df.col(i) = vec, df.col<T>(i) = vec: both give out a reference to the   *)
(* column, which takes a vector of any length.                             *)
AssignCol(i, vec) ==
  /\ pc = "idle"
  /\ InData(data, i)
  /\ data' = [data EXCEPT ![i + 1] = vec]
  /\ outcome' = "ok"
  /\ UNCHANGED <<pool, indices, name, pc, alive, new_i, new_data>>

(* erase_col(i): any index *)
EraseCol(i) ==
  /\ pc = "idle"
  /\ pool' = Deprecate(pool, i)
  /\ outcome' = "ok"
  /\ UNCHANGED <<indices, data, name, pc, alive, new_i, new_data>>

(* erase_col(k) *)
EraseColByName(k) == k \in DOMAIN name.vk /\ EraseCol(name.vk[k])

(* rename_col(i, k): writes the name of the index and not the index of the *)
(* name.                                                                   *)
RenameCol(i, k) ==
  /\ pc = "idle"
  /\ i \in DOMAIN name.kv
  /\ name' = [name EXCEPT !.kv[i] = k]
  /\ outcome' = "ok"
  /\ UNCHANGED <<pool, indices, data, pc, alive, new_i, new_data>>

(* rename_col(old, k) *)
RenameColByName(old, k) == old \in DOMAIN name.vk /\ RenameCol(name.vk[old], k)

-----------------------------------------------------------------------------
(* garbage_collect() *)

GcBegin ==
  /\ pc = "idle"
  /\ pc' = "gc"
  /\ alive' = Columns
  /\ new_i' = 0
  /\ new_data' = <<>>
  /\ UNCHANGED <<pool, indices, data, name, outcome>>

GcKeep ==
  /\ pc = "gc"
  /\ new_i < Len(alive)
  /\ alive[new_i + 1] = new_i
  /\ InData(data, new_i)
  /\ new_data' = Append(new_data, Column(new_i))
  /\ new_i' = new_i + 1
  /\ UNCHANGED <<pool, indices, data, name, outcome, pc, alive>>

(* Wrong variant of GcMove: the column is taken from the new index. *)
GcMoveByPosition ==
  LET old_i == alive[new_i + 1] IN
  /\ pc = "gc" /\ new_i < Len(alive) /\ old_i # new_i
  /\ InData(data, old_i) /\ old_i \in DOMAIN name.kv
  /\ indices' = [indices EXCEPT ![new_i + 1] = new_i]
  /\ new_data' = Append(new_data, Column(new_i))
  /\ name' = EraseKeyOf(Assign(name, new_i, name.kv[old_i]), old_i)
  /\ new_i' = new_i + 1
  /\ UNCHANGED <<pool, data, outcome, pc, alive>>

GcMove ==
  LET old_i == alive[new_i + 1] IN
  /\ pc = "gc"
  /\ new_i < Len(alive)
  /\ old_i # new_i
  /\ InData(data, old_i) /\ old_i \in DOMAIN name.kv
  /\ indices' = [indices EXCEPT ![new_i + 1] = new_i]
  /\ new_data' = Append(new_data, Column(old_i))
  /\ name' = EraseKeyOf(Assign(name, new_i, name.kv[old_i]), old_i)
  /\ new_i' = new_i + 1
  /\ UNCHANGED <<pool, data, outcome, pc, alive>>

(* m_data.at(old_i), or m_name.at(old_i) after it, throws: the renumbering *)
(* done so far stays.                                                      *)
GcThrow ==
  LET old_i == alive[new_i + 1] IN
  /\ pc = "gc"
  /\ new_i < Len(alive)
  /\ InData(data, old_i) => old_i # new_i /\ old_i \notin DOMAIN name.kv
  /\ indices' = IF old_i = new_i THEN indices
                                 ELSE [indices EXCEPT ![new_i + 1] = new_i]
  /\ outcome' = "out_of_range"
  /\ pc' = "idle"
  /\ alive' = <<>>
  /\ new_i' = 0
  /\ new_data' = <<>>
  /\ UNCHANGED <<pool, data, name>>

(* Wrong variant of GcEnd: m_indices keeps its length. *)
GcEndUncut ==
  /\ pc = "gc" /\ new_i = Len(alive)
  /\ data' = new_data
  /\ pool' = Clear(pool)
  /\ outcome' = "ok"
  /\ pc' = "idle" /\ alive' = <<>> /\ new_i' = 0 /\ new_data' = <<>>
  /\ UNCHANGED <<indices, name>>

GcEnd ==
  /\ pc = "gc"
  /\ new_i = Len(alive)
  /\ data' = new_data
  /\ indices' = SubSeq(indices, 1, Len(alive))
  /\ pool' = Clear(pool)
  /\ outcome' = "ok"
  /\ pc' = "idle"
  /\ alive' = <<>>
  /\ new_i' = 0
  /\ new_data' = <<>>
  /\ UNCHANGED name

GarbageCollect == GcBegin \/ GcKeep \/ GcMove \/ GcThrow \/ GcEnd

Next ==
  \/ \E k \in Names, vec \in Vectors : NewCol(k, vec)
  \/ \E i \in AnyIndex, vec \in Vectors : AssignCol(i, vec)
  \/ \E i \in AnyIndex : EraseCol(i)
  \/ \E k \in Names : EraseColByName(k)
  \/ \E i \in AnyIndex, k \in Names : RenameCol(i, k)
  \/ \E old, k \in Names : RenameColByName(old, k)
  \/ GarbageCollect

Spec == Init /\ [][Next]_vars

-----------------------------------------------------------------------------
(* Properties *)

(* A new column never gets the index of a column in use, even after        *)
(* collections, stray erasures and calls that threw half way               *)
(* (frame.hpp:76, pool.hpp:35-43).                                         *)
NextIndexFree == pc = "idle" => ~IsColumn(NextIndex(pool))

(* What a caller sees through the indices, in order: the name and the      *)
(* column, each a set that is empty when at() would throw.  While          *)
(* collecting, the entries done have their new index.                      *)
Contents ==
  LET slots == IF pc = "gc" THEN alive ELSE Columns
      Done(m) == pc = "gc" /\ m <= new_i
      NameAt(i) == {name.kv[j] : j \in {i} \cap DOMAIN name.kv}
      ColumnAt(i) == {Column(j) : j \in {i} \cap 0..(Len(data) - 1)}
  IN  [m \in DOMAIN slots |->
         IF Done(m) THEN <<NameAt(m - 1), {new_data[m]}>>
                    ELSE <<NameAt(slots[m]), ColumnAt(slots[m])>>]

(* A collection that does not throw keeps the name by index, the cells and *)
(* the order of every column in use, at every iteration (frame.cpp:71-92). *)
GcKeepsColumns ==
  [][GcKeep \/ GcMove \/ GcEnd => Contents' = Contents]_vars

=============================================================================
