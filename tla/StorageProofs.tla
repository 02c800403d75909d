---------------------------- MODULE StorageProofs ----------------------------
(***************************************************************************)
(* The classes that store values, of any size: Point_set, Table, and the   *)
(* two ways of holding a value of any type, Any and Variant.  They share   *)
(* no state; each has its own specification.                               *)
(***************************************************************************)
EXTENDS PointSet, TableApi, Values, ContainerProofs

-----------------------------------------------------------------------------
(* Point_set: num_points() counts the points in use, and a collection      *)
(* renumbers points and properties together.                               *)

(* Only slots that exist are removed; without that num_points() would not  *)
(* count.                                                                  *)
PointSetInv ==
  /\ points \in Seq(Coordinates)
  /\ removed \in SUBSET Indices

(* The indices of all slots, in order: what make_point_range() filters. *)
Slots == [p \in DOMAIN points |-> p - 1]

LEMMA SlotsIncrease ==
  ASSUME points \in Seq(Coordinates)
  PROVE  /\ Increasing(Slots)
         /\ Len(Slots) = Len(points)
         /\ RangeOf(Slots) = Indices
         /\ DOMAIN points = 1..Len(points) /\ Len(points) \in Nat
<1>1. DOMAIN points = 1..Len(points) /\ Len(points) \in Nat
  OBVIOUS
<1>2. Slots \in [1..Len(points) -> Nat] /\ \A p \in 1..Len(points) : Slots[p] = p - 1
  BY <1>1 DEF Slots
<1>3. Slots \in Seq(Nat) /\ Len(Slots) = Len(points) /\ DOMAIN Slots = 1..Len(points)
  BY <1>1, <1>2
<1>4. Increasing(Slots)
  BY <1>1, <1>2, <1>3 DEF Increasing
<1>5. RangeOf(Slots) = Indices
  <2>1. \A p \in 1..Len(points) : p - 1 \in 0..(Len(points) - 1)
    BY <1>1
  <2>2. \A i \in 0..(Len(points) - 1) : i + 1 \in 1..Len(points) /\ i = (i + 1) - 1
    BY <1>1
  <2>3. RangeOf(Slots) \subseteq Indices
    BY <1>2, <1>3, <2>1 DEF RangeOf, Indices
  <2>4. ASSUME NEW i \in Indices PROVE i \in RangeOf(Slots)
    <3>1. i + 1 \in DOMAIN Slots /\ Slots[i + 1] = i
      BY <1>2, <1>3, <2>2 DEF Indices
    <3> QED
      BY <3>1 DEF RangeOf
  <2> QED
    BY <2>3, <2>4
<1> QED
  BY <1>1, <1>3, <1>4, <1>5

(* make_point_range() holds the indices in use, every one a slot. *)
LEMMA RangeGives ==
  ASSUME PointSetInv
  PROVE  /\ PointRange \in Seq(Nat)
         /\ Len(PointRange) \in Nat /\ DOMAIN PointRange = 1..Len(PointRange)
         /\ RangeOf(PointRange) = Indices \ removed
         /\ \A j \in DOMAIN PointRange :
              PointRange[j] \in Indices /\ PointRange[j] + 1 \in DOMAIN points
<1>1. Increasing(Slots) /\ RangeOf(Slots) = Indices /\ DOMAIN points = 1..Len(points)
      /\ Len(points) \in Nat
  BY SlotsIncrease DEF PointSetInv
<1>2. PointRange = Filtered(Slots, removed)
  BY DEF PointRange, Slots
<1>3. Increasing(PointRange) /\ RangeOf(PointRange) = Indices \ removed
  BY <1>1, <1>2, FilteredGives
<1>4. PointRange \in Seq(Nat)
  BY <1>3 DEF Increasing
<1>5. \A j \in DOMAIN PointRange : PointRange[j] \in Indices
  BY <1>3 DEF RangeOf
<1>6. \A i \in Indices : i + 1 \in DOMAIN points
  BY <1>1 DEF Indices
<1> QED
  BY <1>3, <1>4, <1>5, <1>6

LEMMA RangeIsInUse == PointSetInv => RangeOf(PointRange) = Indices \ removed
  BY RangeGives

(* As many slots are in use as there are slots that are not removed. *)
LEMMA RangeCounts == PointSetInv => NumPointsCounts
<1> SUFFICES ASSUME PointSetInv PROVE NumPoints = Len(PointRange)
  BY DEF NumPointsCounts
<1>1. /\ Len(points) \in Nat /\ DOMAIN Slots = 1..Len(points)
      /\ \A p \in 1..Len(points) : Slots[p] = p - 1
  BY SlotsIncrease DEF PointSetInv, Slots
<1>2. removed \in SUBSET (0..(Len(points) - 1))
  BY DEF PointSetInv, Indices
<1>3. PointRange = Filtered(Slots, removed)
  BY DEF PointRange, Slots
<1>4. Len(PointRange) \in Nat /\ DOMAIN PointRange = 1..Len(PointRange)
  BY RangeGives
<1> HIDE DEF Slots, PointRange
<1> QED
  BY <1>1, <1>2, <1>3, <1>4, NumberedCounts DEF NumPoints

-----------------------------------------------------------------------------
LEMMA PointSetInitInv == PointSetInit => PointSetInv
  BY DEF PointSetInit, PointSetInv, Indices

LEMMA InsertInv ==
  ASSUME PointSetInv, NEW p \in Coordinates, Insert(p)
  PROVE  PointSetInv'
<1>1. Len(points) \in Nat /\ points \in Seq(Coordinates) /\ DOMAIN points = 1..Len(points)
  BY DEF PointSetInv
<1>2. CASE removed # {}
  <2>1. points' = [points EXCEPT ![NextPoint + 1] = p] /\ removed' \subseteq removed
    BY <1>2 DEF Insert
  <2>2. points' \in [1..Len(points) -> Coordinates]
    <3>1. points \in [1..Len(points) -> Coordinates]
      BY <1>1
    <3> QED
      BY <2>1, <3>1
  <2>3. points' \in Seq(Coordinates) /\ Len(points') = Len(points)
    BY <1>1, <2>2
  <2> QED
    BY <2>1, <2>3 DEF PointSetInv, Indices
<1>3. CASE removed = {}
  <2>1. points' = Append(points, p) /\ removed' = {}
    BY <1>3 DEF Insert
  <2> QED
    BY <1>1, <2>1 DEF PointSetInv, Indices
<1> QED
  BY <1>2, <1>3

(* What a collection that succeeds leaves: the points in use, renumbered   *)
(* from 0 without gaps.                                                    *)
LEMMA Collected ==
  ASSUME PointSetInv, GarbageCollect, status = "ok", status' = "ok"
  PROVE  /\ PointSetInv'
         /\ \A n \in DOMAIN maps : Reindexable(maps[n])
         /\ maps' = [n \in DOMAIN maps |-> Reindexed(maps[n])]
         /\ Len(points') = Len(PointRange)
         /\ \A j \in DOMAIN PointRange : points'[j] = points[PointRange[j] + 1]
         /\ DOMAIN PointRange' = DOMAIN PointRange
         /\ \A j \in DOMAIN PointRange : PointRange'[j] = j - 1
<1>1. /\ \A n \in DOMAIN maps : Reindexable(maps[n])
      /\ maps' = [n \in DOMAIN maps |-> Reindexed(maps[n])]
      /\ points' = [j \in DOMAIN PointRange |-> points[PointRange[j] + 1]]
      /\ removed' = {}
  BY DEF GarbageCollect
<1>2. /\ Len(PointRange) \in Nat /\ DOMAIN PointRange = 1..Len(PointRange)
      /\ \A j \in DOMAIN PointRange : PointRange[j] + 1 \in DOMAIN points
  BY RangeGives
<1>3. \A p \in DOMAIN points : points[p] \in Coordinates
  BY DEF PointSetInv
<1>4. points' \in Seq(Coordinates) /\ Len(points') = Len(PointRange)
      /\ DOMAIN points' = DOMAIN PointRange
  <2>1. points' \in [1..Len(PointRange) -> Coordinates]
    BY <1>1, <1>2, <1>3
  <2> QED
    BY <1>2, <2>1
<1>5. PointSetInv'
  BY <1>1, <1>4 DEF PointSetInv
<1>6. PointRange' = Slots'
  <2>1. PointRange' = Filtered(Slots', removed')
    BY DEF PointRange, Slots
  <2>2. Increasing(Slots')
    <3>1. \A s : s \in Seq(Coordinates) => Increasing([p \in DOMAIN s |-> p - 1])
      <4> SUFFICES ASSUME NEW s, s \in Seq(Coordinates)
                   PROVE  Increasing([p \in DOMAIN s |-> p - 1])
        OBVIOUS
      <4>1. DOMAIN s = 1..Len(s) /\ Len(s) \in Nat
        OBVIOUS
      <4> DEFINE t == [p \in DOMAIN s |-> p - 1]
      <4>2. t \in [1..Len(s) -> Nat] /\ \A p \in 1..Len(s) : t[p] = p - 1
        BY <4>1
      <4>3. t \in Seq(Nat) /\ DOMAIN t = 1..Len(s)
        BY <4>1, <4>2
      <4> HIDE DEF t
      <4>4. Increasing(t)
        BY <4>1, <4>2, <4>3 DEF Increasing
      <4> QED
        BY <4>4 DEF t
    <3> QED
      BY <1>4, <3>1 DEF Slots
  <2> QED
    BY <1>1, <2>1, <2>2, FilteredNothing
<1>7. DOMAIN PointRange' = DOMAIN PointRange /\ \A j \in DOMAIN PointRange : PointRange'[j] = j - 1
  BY <1>4, <1>6 DEF Slots
<1> QED
  BY <1>1, <1>4, <1>5, <1>7

LEMMA PointSetStepInv == PointSetInv /\ [PointSetNext]_pointVars => PointSetInv'
<1> SUFFICES ASSUME PointSetInv, [PointSetNext]_pointVars PROVE PointSetInv'
  OBVIOUS
<1>1. CASE \E p \in Coordinates : PushPoint(p)
  BY <1>1, InsertInv DEF PushPoint
<1>2. CASE \E i \in Indices : Remove(i)
  BY <1>2 DEF Remove, PointSetInv, Indices
<1>3. CASE UNCHANGED <<points, removed>>
  BY <1>3 DEF PointSetInv, Indices
<1>4. CASE GarbageCollect /\ status = "ok"
  <2>1. CASE status' = "ok"
    BY <1>4, <2>1, Collected
  <2>2. CASE status' # "ok"
    BY <1>3, <1>4, <2>2 DEF GarbageCollect
  <2> QED
    BY <2>1, <2>2
<1> QED
  BY <1>1, <1>2, <1>3, <1>4 DEF PointSetNext, pointVars, AddMap, EraseMap, PutProperty, GetProperty

(* Only points that exist are ever removed. *)
THEOREM PointSetInvariance == PointSetSpec => []PointSetInv
  BY PointSetInitInv, PointSetStepInv, PTL DEF PointSetSpec

(* num_points() is the length of make_point_range() in every state: the    *)
(* unsigned difference never drifts (point_set.hpp:106-115).               *)
THEOREM PointsCounted == PointSetSpec => []NumPointsCounts
  BY PointSetInvariance, RangeCounts, PTL

-----------------------------------------------------------------------------
(* After a collection the j-th point in use is the one that was, with the  *)
(* property it had in every map.                                           *)
LEMMA CollectKeepsView ==
  ASSUME PointSetInv, GarbageCollect, status = "ok", status' = "ok"
  PROVE  View' = View
<1> DEFINE Has(m, i) == i \in DOMAIN m
<1>1. /\ \A n \in DOMAIN maps : Reindexable(maps[n])
      /\ maps' = [n \in DOMAIN maps |-> Reindexed(maps[n])]
      /\ \A j \in DOMAIN PointRange : points'[j] = points[PointRange[j] + 1]
      /\ DOMAIN PointRange' = DOMAIN PointRange
      /\ \A j \in DOMAIN PointRange : PointRange'[j] = j - 1
  BY Collected
<1>2. DOMAIN PointRange = 1..Len(PointRange) /\ Len(PointRange) \in Nat
  BY RangeGives
<1>3. ASSUME NEW j \in DOMAIN PointRange, NEW n \in DOMAIN maps
      PROVE  /\ PointRange[j] \in DOMAIN maps[n]
             /\ j - 1 \in DOMAIN maps'[n]
             /\ maps'[n][j - 1] = maps[n][PointRange[j]]
  <2>1. PointRange[j] \in DOMAIN maps[n]
    BY <1>1 DEF Reindexable, RangeOf
  <2>2. maps'[n] = [k \in 0..(Len(PointRange) - 1) |-> maps[n][PointRange[k + 1]]]
    BY <1>1 DEF Reindexed
  <2>3. j - 1 \in 0..(Len(PointRange) - 1) /\ (j - 1) + 1 = j
    BY <1>2
  <2> QED
    BY <2>1, <2>2, <2>3
<1>4. DOMAIN maps' = DOMAIN maps
  BY <1>1
<1>5. ASSUME NEW j \in DOMAIN PointRange
      PROVE  /\ points'[PointRange'[j] + 1] = points[PointRange[j] + 1]
             /\ {m \in DOMAIN maps' : PointRange'[j] \in DOMAIN maps'[m]} = DOMAIN maps
             /\ {m \in DOMAIN maps : PointRange[j] \in DOMAIN maps[m]} = DOMAIN maps
             /\ [n \in DOMAIN maps |-> maps'[n][PointRange'[j]]]
                  = [n \in DOMAIN maps |-> maps[n][PointRange[j]]]
  <2>1. PointRange'[j] = j - 1 /\ PointRange'[j] + 1 = j
    BY <1>1, <1>2
  <2>2. points'[PointRange'[j] + 1] = points[PointRange[j] + 1]
    BY <1>1, <2>1
  <2> QED
    BY <1>3, <1>4, <2>1, <2>2
<1>6. View' = [j \in DOMAIN PointRange' |->
                 <<points'[PointRange'[j] + 1],
                   [n \in {m \in DOMAIN maps' : PointRange'[j] \in DOMAIN maps'[m]} |->
                      maps'[n][PointRange'[j]]]>>]
  BY DEF View
<1>7. View = [j \in DOMAIN PointRange |->
                <<points[PointRange[j] + 1],
                  [n \in {m \in DOMAIN maps : PointRange[j] \in DOMAIN maps[m]} |->
                     maps[n][PointRange[j]]]>>]
  BY DEF View
<1> QED
  BY <1>1, <1>5, <1>6, <1>7

(* Points in use keep their order and their properties when the collector  *)
(* renumbers them (point_set.hpp:59-76).                                   *)
THEOREM CollectingKeepsPoints == PointSetSpec => GcKeepsPoints
<1>1. ASSUME PointSetInv, [PointSetNext]_pointVars
      PROVE  [GarbageCollect /\ status' = "ok" => View' = View]_pointVars
  <2>1. CASE UNCHANGED pointVars
    BY <2>1
  <2>2. CASE PointSetNext
    BY <1>1, <2>2, CollectKeepsView DEF PointSetNext
  <2> QED
    BY <1>1, <2>1, <2>2
<1> QED
  BY <1>1, PointSetInvariance, PTL DEF PointSetSpec, GcKeepsPoints

(* When every point in use has all its properties, what a step does to the *)
(* points in use and to the maps.                                          *)
LEMMA StepKeepsLabels ==
  ASSUME PointSetInv, PointSetInv', Labelled, PointSetNext,
         ~ \E p \in Coordinates : PushPoint(p),
         ~ \E n \in MapNames : AddMap(n)
  PROVE  Labelled' /\ status' = "ok"
<1>1. status = "ok"
  BY DEF PointSetNext
<1>2. RangeOf(PointRange) = Indices \ removed
  BY RangeGives
<1>3. RangeOf(PointRange') = Indices' \ removed'
  <2>1. (RangeOf(PointRange) = Indices \ removed)'
    BY RangeIsInUse, PTL
  <2> QED
    BY <2>1 DEF RangeOf
<1>4. \A n \in DOMAIN maps : Indices \ removed \subseteq DOMAIN maps[n]
  BY <1>2 DEF Labelled
<1>5. SUFFICES /\ \A n \in DOMAIN maps' : Indices' \ removed' \subseteq DOMAIN maps'[n]
               /\ status' = "ok"
  BY <1>3 DEF Labelled, RangeOf
<1>6. CASE \E i \in Indices : Remove(i)
  BY <1>1, <1>4, <1>6 DEF Remove, Indices
<1>7. CASE \E n \in MapNames : EraseMap(n)
  <2>1. PICK n \in MapNames : EraseMap(n)
    BY <1>7
  <2>2. DOMAIN maps' = DOMAIN maps \ {n} /\ \A x \in DOMAIN maps : x # n => maps'[x] = maps[x]
    BY <2>1, DropGives DEF EraseMap
  <2> QED
    BY <1>1, <1>4, <2>1, <2>2 DEF EraseMap, Indices
<1>8. ASSUME NEW n \in MapNames, NEW i \in Indices, NEW v, PutProperty(n, i, v)
      PROVE  /\ \A m \in DOMAIN maps' : Indices' \ removed' \subseteq DOMAIN maps'[m]
             /\ status' = "ok"
  <2>1. maps' = [maps EXCEPT ![n] = Put(maps[n], i, v)] /\ n \in DOMAIN maps
    BY <1>8 DEF PutProperty
  <2>2. DOMAIN maps' = DOMAIN maps
    BY <2>1
  <2>3. \A m \in DOMAIN maps : DOMAIN maps[m] \subseteq DOMAIN maps'[m]
    <3>1. DOMAIN Put(maps[n], i, v) = DOMAIN maps[n] \cup {i}
      BY PutGives
    <3> QED
      BY <2>1, <3>1
  <2> QED
    BY <1>1, <1>4, <1>8, <2>2, <2>3 DEF PutProperty, Indices
<1>9. CASE GarbageCollect
  <2>1. \A n \in DOMAIN maps : Reindexable(maps[n])
    BY DEF Labelled, Reindexable
  <2>2. status' = "ok"
    BY <1>1, <1>9, <2>1 DEF GarbageCollect
  <2>3. /\ maps' = [n \in DOMAIN maps |-> Reindexed(maps[n])]
        /\ Len(points') = Len(PointRange)
    BY <1>1, <1>9, <2>2, Collected
  <2>4. \A n \in DOMAIN maps' : DOMAIN maps'[n] = Indices'
    BY <2>3 DEF Reindexed, Indices
  <2> QED
    BY <2>2, <2>4
<1> QED
  BY <1>6, <1>7, <1>8, <1>9 DEF PointSetNext, GetProperty

(* Once every point in use has all its properties only a new point or map  *)
(* ends that, and no collection meets undefined behaviour                  *)
(* (point_set.hpp:81-92).                                                  *)
THEOREM LabelsStay == PointSetSpec => StaysLabelled
<1> DEFINE A == Labelled =>
                  \/ Labelled' /\ status' = "ok"
                  \/ \E p \in Coordinates : PushPoint(p)
                  \/ \E n \in MapNames : AddMap(n)
<1>1. ASSUME PointSetInv, [PointSetNext]_pointVars PROVE [A]_pointVars
  <2>1. PointSetInv'
    BY <1>1, PointSetStepInv
  <2>2. CASE PointSetNext
    BY <1>1, <2>1, <2>2, StepKeepsLabels
  <2> QED
    BY <1>1, <2>2
<1> QED
  BY <1>1, PointSetInvariance, PTL DEF PointSetSpec, StaysLabelled

-----------------------------------------------------------------------------
(* Table: the flags stay those of what is stored, rows below row_size()    *)
(* can be read, and a column added under a new name is the one filled.     *)

Columns == [type : UsedFlags, cells : Seq({"cell"})]

(* FlagsMatch counts the metadata and their flags; that the two counts     *)
(* stay the same needs that they have the same keys.                       *)
ColumnsFit ==
  /\ DOMAIN tab = {"storage", "info", "names", "meta", "metaInfo"}
  /\ tab.storage \in Seq(Columns)
  /\ tab.info \in Seq(UsedFlags)
  /\ tab.names \in Seq(Names)
  /\ Len(tab.storage) = Len(tab.info) /\ Len(tab.storage) = Len(tab.names)
  /\ \A p \in DOMAIN tab.info : tab.storage[p].type = tab.info[p]

MetaFits ==
  /\ DOMAIN tab.meta = DOMAIN tab.metaInfo
  /\ \A k \in DOMAIN tab.meta : tab.meta[k].type = tab.metaInfo[k]

RefFits == ref = None \/ ref \in 0..(Len(tab.storage) - 1)

TableInv == ColumnsFit /\ MetaFits /\ RefFits

LEMMA InvIsTyped == TableInv => FlagsMatch
  BY DEF TableInv, ColumnsFit, MetaFits, RefFits, FlagsMatch, SelfCheck, ColumnSize, None

(* The shortest column is no longer than any (table.cpp:148-165). *)
LEMMA RowsAreReadable == TableInv => RowsReadable
<1> SUFFICES ASSUME TableInv, ColumnSize(tab) > 0,
                    NEW r \in 0..(MaxCells - 1), NEW i \in 0..(ColumnSize(tab) - 1),
                    r < RowSize(tab, 0)
             PROVE  RowAtAccepts(tab, r, tab.info[i + 1], i)
  BY DEF RowsReadable
<1> DEFINE S == {Len(c.cells) : c \in RangeOf(tab.storage)}
<1>1. ColumnSize(tab) \in Nat /\ i + 1 \in DOMAIN tab.storage
  BY DEF TableInv, ColumnsFit, ColumnSize
<1>2. \A c \in RangeOf(tab.storage) : c \in Columns
  BY DEF RangeOf, TableInv, ColumnsFit
<1>3. S \in SUBSET Nat
  BY <1>2 DEF Columns
<1>4. tab.storage[i + 1] \in RangeOf(tab.storage)
  BY <1>1 DEF RangeOf
<1>5. Len(Cells(tab, i)) \in S
  BY <1>4 DEF Cells
<1>6. Least(S) \in Nat /\ Least(S) <= Len(Cells(tab, i)) /\ Len(Cells(tab, i)) \in Nat
  <2> HIDE DEF S
  <2> QED
    BY <1>3, <1>5, LeastIsLeast
<1>7. RowSize(tab, 0) = Least(S)
  BY <1>1 DEF RowSize
<1>8. Len(Cells(tab, i)) > r
  <2> HIDE DEF S
  <2> QED
    BY <1>6, <1>7
<1>9. SelfCheck(tab) /\ i < ColumnSize(tab)
  BY <1>1, InvIsTyped DEF FlagsMatch
<1> QED
  BY <1>8, <1>9 DEF RowAtAccepts, AtAccepts

-----------------------------------------------------------------------------
(* A column more. *)
LEMMA PushBackFits ==
  ASSUME TableInv, NEW flag \in UsedFlags, NEW name \in Names,
         NEW cells \in Seq({"cell"}), tab' = PushBack(tab, flag, cells, name)
  PROVE  /\ ColumnsFit' /\ MetaFits'
         /\ Len(tab'.storage) = Len(tab.storage) + 1
<1> DEFINE col == [type |-> flag, cells |-> cells]
<1>1. /\ tab'.storage = Append(tab.storage, col)
      /\ tab'.info = Append(tab.info, flag)
      /\ tab'.names = Append(tab.names, name)
      /\ tab'.meta = tab.meta /\ tab'.metaInfo = tab.metaInfo
      /\ DOMAIN tab' = {"storage", "info", "names", "meta", "metaInfo"}
  BY DEF PushBack, TableInv, ColumnsFit
<1>2. col \in Columns /\ col.type = flag
  BY DEF Columns
<1>3. MetaFits'
  BY <1>1 DEF TableInv, MetaFits
<1> HIDE DEF col
<1>4. /\ tab.storage \in Seq(Columns) /\ tab.info \in Seq(UsedFlags)
      /\ tab.names \in Seq(Names)
      /\ Len(tab.storage) = Len(tab.info) /\ Len(tab.storage) = Len(tab.names)
      /\ \A p \in DOMAIN tab.info : tab.storage[p].type = tab.info[p]
  BY DEF TableInv, ColumnsFit
<1>5. /\ tab'.storage \in Seq(Columns) /\ Len(tab'.storage) = Len(tab.storage) + 1
      /\ tab'.storage[Len(tab.storage) + 1] = col
      /\ \A p \in 1..Len(tab.storage) : tab'.storage[p] = tab.storage[p]
  BY <1>1, <1>2, <1>4, AppendGives
<1>6. /\ tab'.info \in Seq(UsedFlags) /\ Len(tab'.info) = Len(tab.info) + 1
      /\ DOMAIN tab'.info = 1..(Len(tab.info) + 1) /\ DOMAIN tab.info = 1..Len(tab.info)
      /\ tab'.info[Len(tab.info) + 1] = flag
      /\ \A p \in 1..Len(tab.info) : tab'.info[p] = tab.info[p]
      /\ Len(tab.info) \in Nat
  <2> DEFINE s == tab.info
  <2>1. s \in Seq(UsedFlags) /\ tab'.info = Append(s, flag)
    BY <1>1, <1>4
  <2> HIDE DEF s
  <2>2. /\ Append(s, flag) \in Seq(UsedFlags) /\ Len(Append(s, flag)) = Len(s) + 1
        /\ DOMAIN Append(s, flag) = 1..(Len(s) + 1) /\ DOMAIN s = 1..Len(s)
        /\ Append(s, flag)[Len(s) + 1] = flag
        /\ \A p \in 1..Len(s) : Append(s, flag)[p] = s[p]
        /\ Len(s) \in Nat
    BY <2>1, AppendGives
  <2>3. /\ tab'.info \in Seq(UsedFlags) /\ Len(tab'.info) = Len(s) + 1
        /\ DOMAIN tab'.info = 1..(Len(s) + 1) /\ DOMAIN s = 1..Len(s)
        /\ tab'.info[Len(s) + 1] = flag
        /\ \A p \in 1..Len(s) : tab'.info[p] = s[p]
        /\ Len(s) \in Nat
    BY <2>1, <2>2, Zenon
  <2> QED
    BY <2>3 DEF s
<1>7. tab'.names \in Seq(Names) /\ Len(tab'.names) = Len(tab.names) + 1
  BY <1>1, <1>4, AppendGives
<1>8. ASSUME NEW p \in DOMAIN tab'.info PROVE tab'.storage[p].type = tab'.info[p]
  <2>1. CASE p = Len(tab.info) + 1
    BY <1>2, <1>4, <1>5, <1>6, <2>1
  <2>2. CASE p \in 1..Len(tab.info)
    BY <1>4, <1>5, <1>6, <2>2
  <2> QED
    BY <1>6, <2>1, <2>2
<1>9. Len(tab'.storage) = Len(tab'.info) /\ Len(tab'.storage) = Len(tab'.names)
  BY <1>4, <1>5, <1>6, <1>7
<1> QED
  BY <1>1, <1>3, <1>5, <1>6, <1>7, <1>8, <1>9 DEF ColumnsFit

(* A cell more in a column there is. *)
LEMMA AppendCellFits ==
  ASSUME TableInv, NEW i \in 0..(Len(tab.storage) - 1),
         tab' = AppendCell(tab, i, "cell"), ref' = ref
  PROVE  TableInv'
<1>1. /\ tab.storage \in Seq(Columns)
      /\ Len(tab.storage) \in Nat /\ DOMAIN tab.storage = 1..Len(tab.storage)
      /\ tab.info \in Seq(UsedFlags) /\ tab.names \in Seq(Names)
      /\ Len(tab.storage) = Len(tab.info) /\ Len(tab.storage) = Len(tab.names)
      /\ DOMAIN tab.info = 1..Len(tab.info)
      /\ \A p \in DOMAIN tab.info : tab.storage[p].type = tab.info[p]
  <2>1. /\ tab.storage \in Seq(Columns)
        /\ tab.info \in Seq(UsedFlags) /\ tab.names \in Seq(Names)
        /\ Len(tab.storage) = Len(tab.info) /\ Len(tab.storage) = Len(tab.names)
        /\ \A p \in DOMAIN tab.info : tab.storage[p].type = tab.info[p]
    BY DEF TableInv, ColumnsFit
  <2>2. Len(tab.storage) \in Nat /\ DOMAIN tab.storage = 1..Len(tab.storage)
    BY <2>1
  <2>3. DOMAIN tab.info = 1..Len(tab.info)
    <3>1. \A s : s \in Seq(UsedFlags) => DOMAIN s = 1..Len(s)
      OBVIOUS
    <3> QED
      BY <2>1, <3>1
  <2> QED
    BY <2>1, <2>2, <2>3
<1>2. i + 1 \in 1..Len(tab.storage) /\ tab.storage[i + 1] \in Columns
  BY <1>1
<1> DEFINE col == [tab.storage[i + 1] EXCEPT !.cells = Append(@, "cell")]
<1>3. /\ tab'.storage = [tab.storage EXCEPT ![i + 1] = col]
      /\ tab'.info = tab.info /\ tab'.names = tab.names
      /\ tab'.meta = tab.meta /\ tab'.metaInfo = tab.metaInfo
      /\ DOMAIN tab' = {"storage", "info", "names", "meta", "metaInfo"}
  BY DEF AppendCell, TableInv, ColumnsFit
<1>4. col \in Columns /\ col.type = tab.storage[i + 1].type
  <2>1. \A c \in Columns :
          /\ [c EXCEPT !.cells = Append(@, "cell")] \in Columns
          /\ [c EXCEPT !.cells = Append(@, "cell")].type = c.type
    <3> SUFFICES ASSUME NEW c \in Columns
                 PROVE  /\ [c EXCEPT !.cells = Append(@, "cell")] \in Columns
                        /\ [c EXCEPT !.cells = Append(@, "cell")].type = c.type
      OBVIOUS
    <3>1. c.cells \in Seq({"cell"}) /\ Append(c.cells, "cell") \in Seq({"cell"})
      BY DEF Columns
    <3> QED
      BY <3>1 DEF Columns
  <2> QED
    BY <1>2, <2>1
<1> HIDE DEF col
<1>5. tab'.storage \in [1..Len(tab.storage) -> Columns]
      /\ tab'.storage[i + 1] = col
      /\ \A p \in 1..Len(tab.storage) : p # i + 1 => tab'.storage[p] = tab.storage[p]
  <2>1. \A p \in 1..Len(tab.storage) : tab.storage[p] \in Columns
    BY <1>1
  <2> QED
    BY <1>1, <1>2, <1>3, <1>4, <2>1
<1>6. tab'.storage \in Seq(Columns) /\ Len(tab'.storage) = Len(tab.storage)
  BY <1>1, <1>5
<1>7. \A p \in DOMAIN tab.info : tab'.storage[p].type = tab.info[p]
  BY <1>1, <1>2, <1>4, <1>5
<1>8. ColumnsFit'
  BY <1>1, <1>3, <1>6, <1>7 DEF ColumnsFit
<1>9. MetaFits' /\ RefFits'
  BY <1>3, <1>6 DEF TableInv, MetaFits, RefFits
<1> QED
  BY <1>8, <1>9 DEF TableInv

(* The flag and the value of a meta entry are put under the same key. *)
LEMMA MetaIoaFits ==
  ASSUME TableInv, NEW flag, NEW key, tab' = MetaIoa(tab, flag, key, "cell"), ref' = ref
  PROVE  TableInv'
<1> DEFINE entry == [type |-> flag, value |-> "cell"]
<1>1. /\ tab'.storage = tab.storage /\ tab'.info = tab.info /\ tab'.names = tab.names
      /\ tab'.meta = Put(tab.meta, key, entry)
      /\ tab'.metaInfo = Put(tab.metaInfo, key, flag)
      /\ DOMAIN tab' = {"storage", "info", "names", "meta", "metaInfo"}
  BY DEF MetaIoa, TableInv, ColumnsFit
<1>2. entry.type = flag
  OBVIOUS
<1> HIDE DEF entry
<1>3. MetaFits'
  <2>1. /\ DOMAIN tab.meta = DOMAIN tab.metaInfo
        /\ \A k \in DOMAIN tab.meta : tab.meta[k].type = tab.metaInfo[k]
    BY DEF TableInv, MetaFits
  <2>2. /\ DOMAIN tab'.meta = DOMAIN tab.meta \cup {key} /\ tab'.meta[key] = entry
        /\ \A k \in DOMAIN tab.meta : k # key => tab'.meta[k] = tab.meta[k]
    BY <1>1 DEF Put
  <2>3. /\ DOMAIN tab'.metaInfo = DOMAIN tab.metaInfo \cup {key} /\ tab'.metaInfo[key] = flag
        /\ \A k \in DOMAIN tab.metaInfo : k # key => tab'.metaInfo[k] = tab.metaInfo[k]
    BY <1>1 DEF Put
  <2>4. ASSUME NEW k \in DOMAIN tab'.meta PROVE tab'.meta[k].type = tab'.metaInfo[k]
    BY <1>2, <2>1, <2>2, <2>3
  <2> QED
    BY <2>1, <2>2, <2>3, <2>4 DEF MetaFits
<1> QED
  BY <1>1, <1>3 DEF TableInv, ColumnsFit, RefFits

(* Only the column just added has a name that no column had. *)
LEMMA NewColumnIsLast ==
  ASSUME TableInv, NEW flag \in UsedFlags, NEW name \in Names, ~HasColumn(tab, name)
  PROVE  LET t == PushBack(tab, flag, <<>>, name) IN
         /\ ColumnOf(t, name) = Len(tab.storage)
         /\ t.names[Len(tab.storage) + 1] = name
         /\ Cells(t, Len(tab.storage)) = <<>>
<1> DEFINE t == PushBack(tab, flag, <<>>, name)
           n == Len(tab.storage)
           col == [type |-> flag, cells |-> <<>>]
<1>1. t.names = Append(tab.names, name) /\ t.storage = Append(tab.storage, col)
  BY DEF PushBack, TableInv, ColumnsFit
<1>2. /\ n \in Nat /\ tab.names \in Seq(Names) /\ Len(tab.names) = n
      /\ tab.storage \in Seq(Columns) /\ col \in Columns
  BY DEF TableInv, ColumnsFit, Columns
<1> HIDE DEF t, n
<1>3. DOMAIN t.names = 1..(n + 1) /\ t.names[n + 1] = name
      /\ \A p \in 1..n : t.names[p] = tab.names[p]
  BY <1>1, <1>2
<1>4. \A p \in 1..n : tab.names[p] # name
  BY <1>2 DEF HasColumn, RangeOf
<1>5. {p \in DOMAIN t.names : t.names[p] = name} = {n + 1}
  <2>1. \A p \in 1..(n + 1) : t.names[p] = name <=> p = n + 1
    BY <1>2, <1>3, <1>4
  <2>2. n + 1 \in 1..(n + 1)
    BY <1>2
  <2> QED
    BY <1>3, <2>1, <2>2
<1>6. Least({n + 1}) = n + 1
  <2>1. {n + 1} \in SUBSET Nat /\ {n + 1} # {}
    BY <1>2
  <2>2. Least({n + 1}) \in {n + 1}
    BY <2>1, LeastIsLeast
  <2> QED
    BY <2>2
<1>7. ColumnOf(t, name) = n
  <2>1. ColumnOf(t, name) = (n + 1) - 1
    BY <1>5, <1>6, Zenon DEF ColumnOf
  <2> QED
    BY <1>2, <2>1
<1>8. t.storage[n + 1] = col
  BY <1>1, <1>2 DEF n
<1>9. Cells(t, n) = <<>>
  BY <1>8 DEF Cells
<1> QED
  BY <1>3, <1>7, <1>9 DEF t, n

(* The first column of a name there is. *)
LEMMA ColumnOfIsColumn ==
  ASSUME TableInv, NEW flag \in UsedFlags, NEW name \in Names
  PROVE  LET t == PushBack(tab, flag, <<>>, name)
         IN  ColumnOf(t, name) \in 0..Len(tab.storage)
<1> DEFINE t == PushBack(tab, flag, <<>>, name)
           n == Len(tab.storage)
           S == {p \in DOMAIN t.names : t.names[p] = name}
<1>1. n \in Nat /\ tab.names \in Seq(Names) /\ Len(tab.names) = n
  BY DEF TableInv, ColumnsFit
<1>2. t.names = Append(tab.names, name)
  BY DEF PushBack, TableInv, ColumnsFit
<1> HIDE DEF t, n
<1>3. DOMAIN t.names = 1..(n + 1) /\ t.names[n + 1] = name
  BY <1>1, <1>2
<1>4. S \in SUBSET Nat /\ S # {} /\ S \in SUBSET (1..(n + 1))
  BY <1>1, <1>3
<1>5. Least(S) \in 1..(n + 1)
  <2> HIDE DEF S
  <2> QED
    BY <1>4, LeastIsLeast
<1>6. ColumnOf(t, name) = Least(S) - 1
  BY DEF ColumnOf
<1> HIDE DEF S
<1>7. ColumnOf(t, name) \in 0..n
  BY <1>1, <1>5, <1>6
<1> QED
  BY <1>7 DEF t, n

-----------------------------------------------------------------------------
LEMMA EmptyFits == (tab = EmptyTable /\ ref = None) => TableInv
<1> SUFFICES ASSUME tab = EmptyTable, ref = None PROVE TableInv
  OBVIOUS
<1>1. DOMAIN tab.meta = {} /\ DOMAIN tab.metaInfo = {}
  BY DEF EmptyTable, EmptyMap
<1> QED
  BY <1>1 DEF EmptyTable, TableInv, ColumnsFit, MetaFits, RefFits

LEMMA TableInitInv == TableInit => TableInv
  BY EmptyFits DEF TableInit

LEMMA TableStepInv == TableInv /\ [TableNext]_tableVars => TableInv'
<1> SUFFICES ASSUME TableInv, [TableNext]_tableVars PROVE TableInv'
  OBVIOUS
<1>1. ASSUME NEW f \in UsedFlags, NEW c \in Vectors, NEW n \in Names, Push(f, c, n)
      PROVE  TableInv'
  <2>1. c \in Seq({"cell"})
    BY TableApiAssumption DEF Vectors
  <2> QED
    BY <1>1, <2>1, PushBackFits DEF Push, TableInv, RefFits
<1>2. ASSUME NEW f \in UsedFlags, NEW n \in Names, PushForInsert(f, n)
      PROVE  TableInv'
  <2>1. tab' = PushBack(tab, f, <<>>, n)
        /\ ref' = ColumnOf(PushBack(tab, f, <<>>, n), n)
    BY <1>2 DEF PushForInsert
  <2>2. ColumnsFit' /\ MetaFits' /\ Len(tab'.storage) = Len(tab.storage) + 1
    <3>1. <<>> \in Seq({"cell"})
      OBVIOUS
    <3> QED
      BY <2>1, <3>1, PushBackFits
  <2>3. ref' \in 0..Len(tab.storage)
    BY <2>1, ColumnOfIsColumn
  <2>4. Len(tab.storage) \in Nat
    BY DEF TableInv, ColumnsFit
  <2> QED
    BY <2>2, <2>3, <2>4 DEF TableInv, RefFits
<1>3. CASE FillRef
  BY <1>3, AppendCellFits DEF FillRef, TableInv, RefFits
<1>4. ASSUME NEW f \in UsedFlags, NEW i \in 0..MaxColumns, Fill(f, i)
      PROVE  TableInv'
  <2>1. i \in 0..(Len(tab.storage) - 1)
    BY <1>4, TableApiAssumption DEF Fill, AtAccepts, ColumnSize, TableInv, ColumnsFit
  <2> QED
    BY <1>4, <2>1, AppendCellFits DEF Fill
<1>5. ASSUME NEW f \in UsedFlags, NEW n \in Names, SetMeta(f, n)
      PROVE  TableInv'
  BY <1>5, MetaIoaFits DEF SetMeta
<1>6. CASE ClearTable
  <2>1. (tab = EmptyTable /\ ref = None)'
    BY <1>6 DEF ClearTable
  <2> QED
    BY <2>1, EmptyFits, PTL
<1>7. CASE UNCHANGED tableVars
  BY <1>7 DEF tableVars, TableInv, ColumnsFit, MetaFits, RefFits
<1> QED
  BY <1>1, <1>2, <1>3, <1>4, <1>5, <1>6, <1>7 DEF TableNext

-----------------------------------------------------------------------------
(* However a table is built and filled, it has as many flags and names as  *)
(* columns, each flag agrees with its storage, and the reference that      *)
(* push_for_insert() gave refers to a column (table.hpp:151-249).          *)
THEOREM TableInvariance == TableSpec => []TableInv
  BY TableInitInv, TableStepInv, PTL DEF TableSpec

(* The flags of a table are those of the vectors and meta values it holds, *)
(* so that no any_cast behind a passed assertion fails                     *)
(* (table.hpp:202-207, 259-263).                                           *)
THEOREM TableTyped == TableSpec => []FlagsMatch
  BY TableInvariance, InvIsTyped, PTL

(* A loop below row_size() reads every column (table.cpp:148-165). *)
THEOREM RowsRead == TableSpec => []RowsReadable
  BY TableInvariance, RowsAreReadable, PTL

(* push_for_insert() of a new name returns the column it added             *)
(* (table.hpp:188-192).                                                    *)
THEOREM InsertsReturnNew == TableSpec => InsertReturnsNewColumn
<1>1. ASSUME TableInv, NEW f \in UsedFlags, NEW n \in Names,
             PushForInsert(f, n), ~HasColumn(tab, n)
      PROVE  /\ ref' = ColumnSize(tab)
             /\ tab'.names[ref' + 1] = n
             /\ Cells(tab', ref') = <<>>
  <2>1. tab' = PushBack(tab, f, <<>>, n)
        /\ ref' = ColumnOf(PushBack(tab, f, <<>>, n), n)
    BY <1>1 DEF PushForInsert
  <2> QED
    BY <1>1, <2>1, NewColumnIsLast DEF ColumnSize
<1>2. TableInv =>
        \A f \in UsedFlags, n \in Names :
          (PushForInsert(f, n) /\ ~HasColumn(tab, n)) =>
            /\ ref' = ColumnSize(tab)
            /\ tab'.names[ref' + 1] = n
            /\ Cells(tab', ref') = <<>>
  BY <1>1
<1> QED
  BY <1>2, TableInvariance, PTL DEF InsertReturnsNewColumn

-----------------------------------------------------------------------------
(* Any: what an object says of the type of its value stays true through    *)
(* all copies, moves and assignments.                                      *)

AnyObject ==
  [held : AnyTypes \union {Empty}, length : Nat, vtable : AnyTypes, info : AnyTypes]

(* AnyTold is not inductive: that an object moved from does not have the   *)
(* type of its vtable needs that no type is the empty value.               *)
AnyInv ==
  /\ \A o \in DOMAIN anys : anys[o] \in AnyObject
  /\ AnyTold
  /\ PluginsReach

LEMMA EmptyIsNoType == Empty \notin AnyTypes
BY AnyAssumption DEF AllTypes, Empty

(* A step that gives object o a fitting record and registers its type.     *)
LEMMA AnyNewObject ==
  ASSUME AnyInv, NEW o, NEW r \in AnyObject,
         r.info = r.vtable,
         anys' = With(o, r),
         moved' = moved \ {o} \/ moved' = moved \union {o},
         o \in moved' => r.held = Empty,
         o \notin moved' => r.held = r.vtable
  PROVE  /\ \A p \in DOMAIN anys' : anys'[p] \in AnyObject
         /\ AnyTold'
<1>1. /\ DOMAIN anys' = DOMAIN anys \union {o}
      /\ \A p \in DOMAIN anys' : anys'[p] = IF p = o THEN r ELSE anys[p]
  BY DEF With
<1>2. \A p \in DOMAIN anys' : anys'[p] \in AnyObject
  BY <1>1 DEF AnyInv
<1>3. r.vtable \in AnyTypes
  BY DEF AnyObject
<1>4. ASSUME NEW p \in DOMAIN anys'
      PROVE  /\ anys'[p].info = anys'[p].vtable
             /\ anys'[p].held = anys'[p].vtable <=> p \notin moved'
             /\ p \in moved' => anys'[p].held = Empty
  <2>1. CASE p = o
    BY <1>1, <1>3, <2>1, EmptyIsNoType
  <2>2. CASE p # o
    <3>1. p \in DOMAIN anys /\ anys'[p] = anys[p] /\ (p \in moved' <=> p \in moved)
      BY <1>1, <2>2
    <3>2. QED
      BY <3>1 DEF AnyInv, AnyTold, Is, As
  <2>3. QED
    BY <2>1, <2>2
<1>5. AnyTold'
  BY <1>4 DEF AnyTold, Is, As
<1>6. QED
  BY <1>2, <1>5

(* Registering a type keeps every table and every plugin (ctrl.hpp:20-44). *)
LEMMA TablesGrow ==
  ASSUME AnyInv, NEW T, vtables' = Get(vtables, T), UNCHANGED given,
         \A o \in DOMAIN anys' :
            anys'[o].vtable = T \/ \E p \in DOMAIN anys : anys'[o].vtable = anys[p].vtable
  PROVE  PluginsReach'
<1>1. /\ DOMAIN vtables' = DOMAIN vtables \union {T}
      /\ \A S \in DOMAIN vtables : vtables'[S] = vtables[S]
  BY DEF Get
<1>2. QED
  BY <1>1 DEF AnyInv, PluginsReach

LEMMA AnyFromValueKeeps ==
  ASSUME AnyInv, NEW o, NEW T \in AnyTypes, NEW n \in Lengths(T), AnyFromValue(o, T, n)
  PROVE  AnyInv'
<1>1. /\ anys' = With(o, AnyOf(T, n))
      /\ vtables' = Get(vtables, T)
      /\ moved' = moved \ {o}
      /\ UNCHANGED given
  BY DEF AnyFromValue
<1>2. n \in Nat
  BY AnyAssumption DEF Lengths
<1>3. AnyOf(T, n) \in AnyObject /\ AnyOf(T, n).info = T /\ AnyOf(T, n).vtable = T
                  /\ AnyOf(T, n).held = T
  BY <1>2 DEF AnyOf, AnyObject
<1>4. (\A p \in DOMAIN anys' : anys'[p] \in AnyObject) /\ AnyTold'
  BY <1>1, <1>3, AnyNewObject
<1>5. PluginsReach'
  <2>1. \A p \in DOMAIN anys' :
          anys'[p].vtable = T \/ \E q \in DOMAIN anys : anys'[p].vtable = anys[q].vtable
    BY <1>1, <1>3 DEF With
  <2>2. QED
    BY <1>1, <2>1, TablesGrow
<1>6. QED
  BY <1>4, <1>5 DEF AnyInv

LEMMA AnyCopyKeeps ==
  ASSUME AnyInv, NEW o, NEW p, AnyCopy(o, p)
  PROVE  AnyInv'
<1>1. /\ p \in DOMAIN anys
      /\ anys' = With(o, anys[p])
      /\ moved' = IF p \in moved THEN moved \union {o} ELSE moved \ {o}
      /\ UNCHANGED <<vtables, given>>
  BY DEF AnyCopy
<1>2. /\ anys[p] \in AnyObject
      /\ anys[p].info = anys[p].vtable
      /\ anys[p].held = anys[p].vtable <=> p \notin moved
      /\ p \in moved => anys[p].held = Empty
  BY <1>1 DEF AnyInv, AnyTold, Is, As
<1>3. (\A q \in DOMAIN anys' : anys'[q] \in AnyObject) /\ AnyTold'
  BY <1>1, <1>2, AnyNewObject
<1>4. PluginsReach'
  BY <1>1 DEF AnyInv, PluginsReach, With
<1>5. QED
  BY <1>3, <1>4 DEF AnyInv

LEMMA AnyMoveKeeps ==
  ASSUME AnyInv, NEW o, NEW p, AnyMove(o, p)
  PROVE  AnyInv'
<1>1. CASE o = p
  BY <1>1 DEF AnyMove, AnyInv, AnyTold, PluginsReach
<1>2. CASE o # p
  <2>1. /\ p \in DOMAIN anys
        /\ anys' = [With(o, anys[p]) EXCEPT ![p] = LetGo(anys[p])]
        /\ moved' = (IF p \in moved THEN moved \union {o} ELSE moved \ {o}) \union {p}
        /\ UNCHANGED <<vtables, given>>
    BY <1>2 DEF AnyMove
  <2>2. /\ DOMAIN anys' = DOMAIN anys \union {o}
        /\ anys'[p] = LetGo(anys[p])
        /\ anys'[o] = anys[p]
        /\ \A q \in DOMAIN anys' \ {o, p} : q \in DOMAIN anys /\ anys'[q] = anys[q]
    BY <1>2, <2>1 DEF With
  <2>3. /\ anys[p] \in AnyObject
        /\ anys[p].info = anys[p].vtable
        /\ anys[p].held = anys[p].vtable <=> p \notin moved
        /\ p \in moved => anys[p].held = Empty
    BY <2>1 DEF AnyInv, AnyTold, Is, As
  <2>4. /\ LetGo(anys[p]) \in AnyObject
        /\ LetGo(anys[p]).held = Empty
        /\ LetGo(anys[p]).vtable = anys[p].vtable
        /\ LetGo(anys[p]).info = anys[p].vtable
        /\ anys[p].vtable \in AnyTypes
    BY <2>3 DEF AnyObject, LetGo
  <2>5. \A q \in DOMAIN anys' : anys'[q] \in AnyObject
    BY <2>2, <2>3, <2>4 DEF AnyInv
  <2>6. ASSUME NEW q \in DOMAIN anys'
        PROVE  /\ anys'[q].info = anys'[q].vtable
               /\ anys'[q].held = anys'[q].vtable <=> q \notin moved'
               /\ q \in moved' => anys'[q].held = Empty
    <3>1. CASE q = p
      BY <2>1, <2>2, <2>4, <3>1, EmptyIsNoType
    <3>2. CASE q = o
      BY <1>2, <2>1, <2>2, <2>3, <3>2
    <3>3. CASE q \notin {o, p}
      <4>1. q \in DOMAIN anys /\ anys'[q] = anys[q] /\ (q \in moved' <=> q \in moved)
        BY <2>1, <2>2, <3>3
      <4>2. QED
        BY <4>1 DEF AnyInv, AnyTold, Is, As
    <3>4. QED
      BY <3>1, <3>2, <3>3
  <2>7. AnyTold'
    BY <2>6 DEF AnyTold, Is, As
  <2>8. PluginsReach'
    <3>1. \A q \in DOMAIN anys' : \E x \in DOMAIN anys : anys'[q].vtable = anys[x].vtable
      BY <2>1, <2>2, <2>4
    <3>2. QED
      BY <2>1, <3>1 DEF AnyInv, PluginsReach
  <2>9. QED
    BY <2>5, <2>7, <2>8 DEF AnyInv
<1>3. QED
  BY <1>1, <1>2

(* The calls that change no object, and at most register a type. *)
LEMMA AnyCallKeeps ==
  ASSUME AnyInv, UNCHANGED <<anys, moved, given>>,
         UNCHANGED vtables \/ \E T : vtables' = Get(vtables, T)
  PROVE  AnyInv'
<1>1. (\A o \in DOMAIN anys' : anys'[o] \in AnyObject) /\ AnyTold'
  BY DEF AnyInv, AnyTold
<1>2. CASE UNCHANGED vtables
  BY <1>1, <1>2 DEF AnyInv, PluginsReach
<1>3. CASE \E T : vtables' = Get(vtables, T)
  BY <1>1, <1>3, TablesGrow DEF AnyInv
<1>4. QED
  BY <1>2, <1>3

LEMMA AnyPushBackKeeps ==
  ASSUME AnyInv, NEW o, NEW E, AnyPushBack(o, E)
  PROVE  AnyInv'
<1>1. CASE UNCHANGED anys
  BY <1>1, AnyCallKeeps DEF AnyPushBack
<1>2. CASE anys' = [anys EXCEPT ![o].length = @ + 1]
  <2>1. /\ o \in DOMAIN anys
        /\ vtables' = Get(vtables, E)
        /\ UNCHANGED <<moved, given>>
    BY DEF AnyPushBack
  <2>2. /\ anys[o] \in AnyObject
        /\ anys'[o] = [anys[o] EXCEPT !.length = @ + 1]
        /\ DOMAIN anys' = DOMAIN anys
        /\ \A q \in DOMAIN anys \ {o} : anys'[q] = anys[q]
    BY <1>2, <2>1 DEF AnyInv
  <2>3. /\ anys'[o] \in AnyObject
        /\ anys'[o].held = anys[o].held
        /\ anys'[o].vtable = anys[o].vtable
        /\ anys'[o].info = anys[o].info
    BY <2>2 DEF AnyObject
  <2>4. \A q \in DOMAIN anys : /\ anys'[q] \in AnyObject
                               /\ anys'[q].held = anys[q].held
                               /\ anys'[q].vtable = anys[q].vtable
                               /\ anys'[q].info = anys[q].info
    BY <2>2, <2>3 DEF AnyInv
  <2>5. AnyTold'
    BY <2>1, <2>2, <2>4 DEF AnyInv, AnyTold, Is, As
  <2>6. PluginsReach'
    BY <2>1, <2>2, <2>4, TablesGrow
  <2>7. QED
    BY <2>2, <2>4, <2>5, <2>6 DEF AnyInv
<1>3. QED
  BY <1>1, <1>2 DEF AnyPushBack

LEMMA NewPluginKeeps ==
  ASSUME AnyInv, NEW T, NEW key, NewPlugin(T, key)
  PROVE  AnyInv'
<1>1. /\ vtables' = [Get(vtables, T) EXCEPT ![T] = @ \union {key}]
      /\ given' = given \union {<<T, key>>}
      /\ UNCHANGED <<anys, moved>>
  BY DEF NewPlugin
<1>2. /\ DOMAIN vtables' = DOMAIN vtables \union {T}
      /\ \A S \in DOMAIN vtables : vtables[S] \subseteq vtables'[S]
      /\ key \in vtables'[T]
  BY <1>1 DEF Get
<1>3. PluginsReach'
  BY <1>1, <1>2 DEF AnyInv, PluginsReach
<1>4. QED
  BY <1>1, <1>3 DEF AnyInv, AnyTold

LEMMA AnyInitHolds == AnyInit => AnyInv
BY DEF AnyInit, AnyInv, AnyTold, PluginsReach

LEMMA AnyStepKeeps ==
  ASSUME AnyInv, [AnyNext]_anyVars
  PROVE  AnyInv'
<1>1. CASE UNCHANGED anyVars
  BY <1>1, AnyCallKeeps DEF anyVars
<1>2. ASSUME NEW o \in Anys, NEW T \in AnyTypes, NEW n \in Lengths(T),
             AnyFromValue(o, T, n)
      PROVE  AnyInv'
  BY <1>2, AnyFromValueKeeps
<1>3. ASSUME NEW o \in Anys, NEW p \in Anys, AnyCopy(o, p) \/ AnyMove(o, p)
      PROVE  AnyInv'
  BY <1>3, AnyCopyKeeps, AnyMoveKeeps
<1>4. ASSUME NEW o \in Anys, NEW E, AnyPushBack(o, E)
      PROVE  AnyInv'
  BY <1>4, AnyPushBackKeeps
<1>5. ASSUME NEW o \in Anys, NEW i, NEW E, AnyAssignAt(o, i, E)
      PROVE  AnyInv'
  BY <1>5, AnyCallKeeps DEF AnyAssignAt
<1>6. ASSUME NEW o \in Anys, NEW ofSize, AnyRead(o, ofSize)
      PROVE  AnyInv'
  BY <1>6, AnyCallKeeps DEF AnyRead
<1>7. ASSUME NEW T \in AnyTypes, NEW key \in Plugins, NewPlugin(T, key)
      PROVE  AnyInv'
  BY <1>7, NewPluginKeeps
<1>8. ASSUME NEW o \in Anys, NEW key \in Plugins, Invoke(o, key)
      PROVE  AnyInv'
  BY <1>8, AnyCallKeeps DEF Invoke
<1>9. QED
  BY <1>1, <1>2, <1>3, <1>4, <1>5, <1>6, <1>7, <1>8 DEF AnyNext

-----------------------------------------------------------------------------
(* Variant: a visitor never asks a value for a type it does not have.      *)

VariantObject ==
  [held : Alternatives, length : {0, 1}, var : Alternatives \union {Unknown}]

(* VariantTold and VisitsFit need each other only one way: that no visit   *)
(* throws follows from what the objects say.                               *)
VariantInv ==
  /\ DOMAIN came = DOMAIN variants
  /\ \A v \in DOMAIN variants : variants[v] \in VariantObject
  /\ VariantTold
  /\ VisitsFit

LEMMA UnknownIsNone == Unknown \notin Alternatives /\ Double \in Alternatives
BY VariantAssumption DEF Unknown, Double, Enumerators, Forms, Bases

(* A step that gives object v a record r and the history how. *)
LEMMA VariantNewObject ==
  ASSUME VariantInv, NEW v, NEW r \in VariantObject, NEW how,
         variants' = MapsTo(variants, v, r),
         came' = MapsTo(came, v, how),
         visit' = Nothing,
         r.var = IF how = "const" THEN r.held ELSE Unknown
  PROVE  VariantInv'
<1>1. /\ DOMAIN variants' = DOMAIN variants \union {v}
      /\ \A w \in DOMAIN variants' : variants'[w] = IF w = v THEN r ELSE variants[w]
  BY DEF MapsTo
<1>2. /\ DOMAIN came' = DOMAIN variants \union {v}
      /\ \A w \in DOMAIN came' : came'[w] = IF w = v THEN how ELSE came[w]
  BY DEF MapsTo, VariantInv
<1>3. \A w \in DOMAIN variants' : variants'[w] \in VariantObject
  BY <1>1 DEF VariantInv
<1>4. VariantTold'
  BY <1>1, <1>2 DEF VariantInv, VariantTold
<1>5. VisitsFit'
  BY DEF VisitsFit, Nothing
<1>6. QED
  BY <1>1, <1>2, <1>3, <1>4, <1>5 DEF VariantInv

LEMMA CopyConstKeeps ==
  ASSUME VariantInv, NEW v, NEW w, CopyConst(v, w)
  PROVE  VariantInv'
<1>1. /\ w \in DOMAIN variants
      /\ variants' = MapsTo(variants, v, variants[w])
      /\ visit' = Nothing
      /\ came' = MapsTo(came, v, came[w])
  BY DEF CopyConst, CopiedAs
<1>2. /\ variants[w] \in VariantObject
      /\ variants[w].var = IF came[w] = "const" THEN variants[w].held ELSE Unknown
  BY <1>1 DEF VariantInv, VariantTold
<1>3. QED
  BY <1>1, <1>2, VariantNewObject

LEMMA CopyOtherKeeps ==
  ASSUME VariantInv, NEW v, NEW w, CopyOther(v, w)
  PROVE  VariantInv'
<1>1. /\ w \in DOMAIN variants
      /\ variants' = MapsTo(variants, v, [variants[w] EXCEPT !.var = Unknown])
      /\ visit' = Nothing
      /\ came' = MapsTo(came, v, CopiedAs(came[w], FALSE))
  BY DEF CopyOther
<1>2. CopiedAs(came[w], FALSE) # "const"
  BY DEF CopiedAs
<1>3. variants[w] \in VariantObject
  BY <1>1 DEF VariantInv
<1>4. /\ [variants[w] EXCEPT !.var = Unknown] \in VariantObject
      /\ [variants[w] EXCEPT !.var = Unknown].var = Unknown
  BY <1>3 DEF VariantObject
<1>5. QED
  BY <1>1, <1>2, <1>4, VariantNewObject

(* A value that comes from outside (variant.hpp:81-105). *)
LEMMA NewValueKeeps ==
  ASSUME VariantInv, NEW v,
         \/ DefaultConstruct(v)
         \/ FromConvertible(v)
         \/ \E e \in Alternatives : \E n \in Lengthy(e) : FromValue(v, e, n)
  PROVE  VariantInv'
<1> DEFINE Unnamed == [held |-> Double, length |-> 1, var |-> Unknown]
<1>1. CASE DefaultConstruct(v) \/ FromConvertible(v)
  <2>1. /\ variants' = MapsTo(variants, v, Unnamed)
        /\ came' = MapsTo(came, v, "other")
        /\ visit' = Nothing
    BY <1>1 DEF DefaultConstruct, FromConvertible
  <2>2. Unnamed \in VariantObject /\ Unnamed.var = Unknown
    BY UnknownIsNone DEF VariantObject
  <2>3. QED
    BY <2>1, <2>2, VariantNewObject
<1>2. ASSUME NEW e \in Alternatives, NEW n \in Lengthy(e), FromValue(v, e, n)
      PROVE  VariantInv'
  <2> DEFINE Named == [held |-> e, length |-> n, var |-> e]
  <2>1. /\ variants' = MapsTo(variants, v, Named)
        /\ came' = MapsTo(came, v, "const")
        /\ visit' = Nothing
    BY <1>2 DEF FromValue
  <2>2. Named \in VariantObject /\ Named.var = e /\ Named.held = e
    BY DEF VariantObject, Lengthy
  <2>3. QED
    BY <2>1, <2>2, VariantNewObject
<1>3. QED
  BY <1>1, <1>2

(* The calls that end as VisitsFit wants them to. *)
LEMMA AbortsFit ==
  ASSUME NEW why, visit' = Aborts(why)
  PROVE  VisitsFit'
BY DEF Aborts, VisitsFit

LEMMA CallFits ==
  ASSUME NEW f, NEW val, visit' = Called(f, val),
         f = val \/ (f = DEFAULT /\ val \notin functions')
  PROVE  VisitsFit'
<1>1. visit'.end = "called" /\ visit'.case = f /\ visit'.held = val
  BY DEF Called
<1>2. "called" # "throws"
  OBVIOUS
<1>3. QED
  BY <1>1, <1>2, Zenon DEF VisitsFit

(* The calls that change no object. *)
LEMMA VariantCallKeeps ==
  ASSUME VariantInv, UNCHANGED <<variants, came>>, VisitsFit'
  PROVE  VariantInv'
BY DEF VariantInv, VariantTold

(* What an object's enumerator says, in the form the visits use it. *)
LEMMA ToldFacts ==
  ASSUME VariantInv, NEW v \in DOMAIN variants
  PROVE  variants[v].var = Unknown \/ variants[v].var = variants[v].held
BY DEF VariantInv, VariantTold

LEMMA VisitKeeps ==
  ASSUME VariantInv, NEW v, Visit(v)
  PROVE  VariantInv'
<1> DEFINE r == variants[v]
           c == Chosen(r.var)
<1>1. /\ v \in DOMAIN variants
      /\ visit' = IF r.var = Unknown THEN Aborts("unreachable default case")
                  ELSE IF c \notin functions THEN Nothing
                  ELSE IF c = DEFAULT \/ c = r.held THEN Called(c, r.held)
                  ELSE [end |-> "throws"]
      /\ UNCHANGED <<variants, functions, came>>
  BY DEF Visit
<1>2. r.var = Unknown \/ r.var = r.held
  BY <1>1, ToldFacts
<1>3. c = r.var \/ (c = DEFAULT /\ r.var \notin functions)
  BY DEF Chosen
<1>4. \/ visit' = Aborts("unreachable default case")
      \/ visit' = Nothing
      \/ /\ visit' = Called(c, r.held)
         /\ c = r.held \/ (c = DEFAULT /\ r.held \notin functions)
  <2> HIDE DEF c
  <2> QED BY <1>1, <1>2, <1>3
<1>5. VisitsFit'
  <2> HIDE DEF c, r
  <2>1. CASE visit' = Aborts("unreachable default case")
    BY <2>1, AbortsFit
  <2>2. CASE visit' = Nothing
    BY <2>2 DEF VisitsFit, Nothing
  <2>3. CASE visit' = Called(c, r.held) /\ (c = r.held \/ (c = DEFAULT /\ r.held \notin functions))
    BY <1>1, <2>3, CallFits
  <2>4. QED
    BY <1>4, <2>1, <2>2, <2>3
<1>6. QED
  BY <1>1, <1>5, VariantCallKeeps

LEMMA AsValueKeeps ==
  ASSUME VariantInv, NEW v, NEW e \in Alternatives, AsValue(v, e)
  PROVE  VariantInv'
<1>1. /\ v \in DOMAIN variants
      /\ visit' = IF variants[v].var # e THEN Aborts("variable mismatch")
                  ELSE IF variants[v].held = e THEN Called(e, e)
                  ELSE [end |-> "throws"]
      /\ UNCHANGED <<variants, came>>
  BY DEF AsValue
<1>2. visit' = Aborts("variable mismatch") \/ visit' = Called(e, e)
  BY <1>1, ToldFacts, UnknownIsNone
<1>3. VisitsFit'
  BY <1>2, AbortsFit, CallFits
<1>4. QED
  BY <1>1, <1>3, VariantCallKeeps

LEMMA FormatToKeeps ==
  ASSUME VariantInv, NEW v, FormatTo(v)
  PROVE  VariantInv'
<1> DEFINE r == variants[v]
<1>1. /\ v \in DOMAIN variants
      /\ visit' = IF r.var = Unknown THEN Aborts("unreachable default case")
                  ELSE IF r.var # r.held THEN [end |-> "throws"]
                  ELSE IF r.length = 0 THEN [end |-> "undefined"]
                  ELSE Called(r.var, r.held)
      /\ UNCHANGED <<variants, came>>
  BY DEF FormatTo
<1>2. \/ visit' = Aborts("unreachable default case")
      \/ visit' = [end |-> "undefined"]
      \/ visit' = Called(r.held, r.held)
  BY <1>1, ToldFacts
<1>3. VisitsFit'
  <2>1. CASE visit' = Aborts("unreachable default case")
    BY <2>1, AbortsFit
  <2>2. CASE visit' = [end |-> "undefined"]
    BY <2>2 DEF VisitsFit
  <2>3. CASE visit' = Called(r.held, r.held)
    BY <2>3, CallFits
  <2>4. QED
    BY <1>2, <2>1, <2>2, <2>3
<1>4. QED
  BY <1>1, <1>3, VariantCallKeeps

LEMMA VariantInitHolds == VariantInit => VariantInv
BY DEF VariantInit, VariantInv, VariantTold, VisitsFit, Nothing

LEMMA VariantStepKeeps ==
  ASSUME VariantInv, [VariantNext]_variantVars
  PROVE  VariantInv'
<1>1. CASE UNCHANGED variantVars
  BY <1>1, VariantCallKeeps DEF variantVars, VariantInv, VisitsFit
<1>2. CASE \E v \in Variants :
             \/ DefaultConstruct(v)
             \/ FromConvertible(v)
             \/ \E e \in Alternatives : \E n \in Lengthy(e) : FromValue(v, e, n)
  BY <1>2, NewValueKeeps
<1>3. CASE \E v, w \in Variants : CopyConst(v, w) \/ CopyOther(v, w)
  BY <1>3, CopyConstKeeps, CopyOtherKeeps
<1>4. CASE (\E e \in Alternatives \union {DEFAULT} : CaseOf(e)) \/ NewVisitor
  <2>1. visit' = Nothing /\ UNCHANGED <<variants, came>>
    BY <1>4 DEF CaseOf, NewVisitor
  <2>2. VisitsFit'
    BY <2>1 DEF VisitsFit, Nothing
  <2>3. QED
    BY <2>1, <2>2, VariantCallKeeps
<1>5. CASE \E v \in Variants :
             Visit(v) \/ FormatTo(v) \/ \E e \in Alternatives : AsValue(v, e)
  BY <1>5, VisitKeeps, FormatToKeeps, AsValueKeeps
<1>6. QED
  BY <1>1, <1>2, <1>3, <1>4, <1>5 DEF VariantNext

-----------------------------------------------------------------------------
(* Programs that use both *)

(* The invariant of both kinds of objects (any.hpp, variant.hpp). *)
THEOREM ValuesInvariance == ValuesSpec => [](AnyInv /\ VariantInv)
<1>1. ValuesInit => AnyInv /\ VariantInv
  BY AnyInitHolds, VariantInitHolds DEF ValuesInit
<1>2. AnyInv /\ VariantInv /\ [ValuesNext]_valueVars => (AnyInv /\ VariantInv)'
  <2> SUFFICES ASSUME AnyInv, VariantInv, [ValuesNext]_valueVars
               PROVE  AnyInv' /\ VariantInv'
    OBVIOUS
  <2>1. [AnyNext]_anyVars /\ [VariantNext]_variantVars
    BY DEF ValuesNext, valueVars
  <2>2. QED
    BY <2>1, AnyStepKeeps, VariantStepKeeps
<1>3. QED
  BY <1>1, <1>2, PTL DEF ValuesSpec

(* The vtable and the info of an Any tell the type of its value, for any   *)
(* types and any number of objects, unless it has been moved from          *)
(* (any.cpp:7-26).                                                         *)
THEOREM AnyTypesTold == ValuesSpec => []AnyTold
<1>1. AnyInv => AnyTold
  BY DEF AnyInv
<1>2. QED
  BY <1>1, ValuesInvariance, PTL

(* A plugin given for a type stays within reach of every object of that    *)
(* type (ctrl.hpp:20-44).                                                  *)
THEOREM PluginsStay == ValuesSpec => []PluginsReach
<1>1. AnyInv => PluginsReach
  BY DEF AnyInv
<1>2. QED
  BY <1>1, ValuesInvariance, PTL

(* The enumerator of a Variant is that of its value as long as the value   *)
(* came through const copies, and Unknown otherwise (variant.hpp:81-128).  *)
THEOREM EnumeratorsTold == ValuesSpec => []VariantTold
<1>1. VariantInv => VariantTold
  BY DEF VariantInv
<1>2. QED
  BY <1>1, ValuesInvariance, PTL

(* No visit throws std::bad_variant_access, and the default function is    *)
(* called only for values without one of their own (visitor.hpp:25-39).    *)
THEOREM VisitsNeverMismatch == ValuesSpec => []VisitsFit
<1>1. VariantInv => VisitsFit
  BY DEF VariantInv
<1>2. QED
  BY <1>1, ValuesInvariance, PTL

=============================================================================
