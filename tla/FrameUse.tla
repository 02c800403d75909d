------------------------------ MODULE FrameUse ------------------------------
(***************************************************************************)
(* Programs that use one gaa::Frame, with two history variables.           *)
(* careful stays TRUE while the calls are of the kind under which the      *)
(* frame stays whole: columns in use are the only ones assigned, erased or *)
(* renamed, and after a collection that removed a column a new one is      *)
(* added only into a slot erased since.  fitting stays TRUE while every    *)
(* vector assigned through a reference that col() gave has the frame's     *)
(* length.  The frame itself checks none of this.                          *)
(***************************************************************************)
EXTENDS Frame

VARIABLES careful, fitting

useVars == <<vars, careful, fitting>>

(* The pool counts as many columns as there are, or has one to reuse. *)
PoolFits == HasDeprecated(pool) \/ pool.size = Len(data)

If(condition) == careful' = (careful /\ condition)

Fitting(condition) == fitting' = (fitting /\ condition)

InitUse == Init /\ careful = TRUE /\ fitting = TRUE

Assigns(i, vec) ==
  AssignCol(i, vec) /\ If(IsColumn(i)) /\ Fitting(vec.len = Rows)

Others ==
  \/ \E k \in Names, vec \in Vectors : NewCol(k, vec) /\ If(PoolFits)
  \/ \E i \in AnyIndex : EraseCol(i) /\ If(IsColumn(i))
  \/ \E k \in Names : EraseColByName(k) /\ If(IsColumn(name.vk[k]))
  \/ \E i \in AnyIndex, k \in Names : RenameCol(i, k) /\ If(IsColumn(i))
  \/ \E old, k \in Names :
       RenameColByName(old, k) /\ If(IsColumn(name.vk[old]))
  \/ GarbageCollect /\ If(TRUE)

NextUse ==
  \/ \E i \in AnyIndex, vec \in Vectors : Assigns(i, vec)
  \/ Others /\ UNCHANGED fitting

SpecUse == InitUse /\ [][NextUse]_useVars

-----------------------------------------------------------------------------
(* Properties *)

(* For the careful caller no call throws half way: m_data.at(i) finds the  *)
(* column of every index the pool hands out or the collector moves         *)
(* (frame.hpp:83, 86, frame.cpp:78, 83).                                   *)
NeverThrows == careful => outcome = "ok"

(* For the careful caller who assigns vectors of the frame's length every  *)
(* column in use has exactly the frame's rows, also one that took the slot *)
(* of an erased column and one that came too short or too long, so that    *)
(* row(i) can index every column (frame.hpp:55-72, 83-89).                 *)
Rectangular ==
  (careful /\ fitting /\ pc = "idle") =>
    \A i \in RangeOf(Columns) : InData(data, i) /\ Column(i).len = Rows

(* For the careful caller the columns stay consistently numbered, whatever *)
(* was reused or collected: the position of an index in m_indices, by      *)
(* which glimpse() finds its column, is the index itself, by which every   *)
(* other access does; cols() counts the columns in use and does not wrap   *)
(* around; and while no erased column waits for reuse, col<T>(i), which    *)
(* compares an index with that number, takes every index that indices()    *)
(* lists (frame.cpp:8-10, 98-102, frame.hpp:47-63).                        *)
ColumnsNumbered ==
  (careful /\ pc = "idle") =>
    /\ Len(indices) = Len(data)
    /\ \A p \in DOMAIN indices : indices[p] = p - 1
    /\ Cols = Len(Columns)
    /\ HasDeprecated(pool) \/ \A i \in RangeOf(Columns) : ColAccepts(i)

=============================================================================
