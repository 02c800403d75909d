------------------------------ MODULE PointSet ------------------------------
(***************************************************************************)
(* gaa::Point_set (geometry/primitive/point_set.hpp) with its property     *)
(* maps (wrap/boost/property_map/associative_property_map.hpp).            *)
(*                                                                         *)
(*   points    m_mp        point i is points[i + 1]                        *)
(*   removed   m_removed   the indices of removed points                   *)
(*   maps      m_pm        name -> (point index -> property); m_reindex    *)
(*                         has the same names, both are written together   *)
(*   status    "undefined" once the program has run into undefined         *)
(*             behaviour, and no step follows                              *)
(*                                                                         *)
(* A call whose assertion fails aborts the program and is not a step.      *)
(***************************************************************************)
EXTENDS StdContainers

CONSTANTS
  Coordinates,  (* the points a program inserts                      *)
  MapNames,     (* the names of property maps                        *)
  Properties,   (* the values of properties                          *)
  Default,      (* Property{}                                        *)
  MaxPoints     (* bound: how many points m_mp may hold              *)

ASSUME PointSetAssumption == MaxPoints \in Nat

VARIABLES points, removed, maps, status

pointVars == <<points, removed, maps, status>>

PointSetInit ==
  /\ points = <<>>
  /\ removed = {}
  /\ maps = EmptyMap
  /\ status = "ok"

Indices == 0..(Len(points) - 1)

(* make_point_range() *)
PointRange == Filtered([p \in DOMAIN points |-> p - 1], removed)

(* num_points(): the subtraction is unsigned *)
NumPoints == Len(points) - Cardinality(removed)

(* The index push_back() returns. *)
NextPoint == IF removed # {} THEN Least(removed) ELSE Len(points)

-----------------------------------------------------------------------------

(* The slot of the first removed point, if any, or a new one takes p. *)
Insert(p) ==
  \/ /\ removed # {}
     /\ points' = [points EXCEPT ![NextPoint + 1] = p]
     /\ removed' = removed \ {NextPoint}
  \/ /\ removed = {}
     /\ Len(points) < MaxPoints
     /\ points' = Append(points, p)
     /\ UNCHANGED removed

(* push_back(p): nobody clears the properties of a removed point whose     *)
(* slot is taken.                                                          *)
PushPoint(p) == Insert(p) /\ UNCHANGED <<maps, status>>

(* remove(i): the assertion admits an index already removed *)
Remove(i) ==
  /\ i \in Indices
  /\ removed' = removed \cup {i}
  /\ UNCHANGED <<points, maps, status>>

(* add_property_map<Property>(n) aborts when n is there. *)
AddMap(n) ==
  /\ n \notin DOMAIN maps
  /\ maps' = Put(maps, n, EmptyMap)
  /\ UNCHANGED <<points, removed, status>>

(* erase_property_map(n) aborts when n is not there. *)
EraseMap(n) ==
  /\ n \in DOMAIN maps
  /\ maps' = Drop(maps, n)
  /\ UNCHANGED <<points, removed, status>>

(* boost::put(map, i, v) *)
PutProperty(n, i, v) ==
  /\ n \in DOMAIN maps
  /\ maps' = [maps EXCEPT ![n] = Put(@, i, v)]
  /\ UNCHANGED <<points, removed, status>>

(* boost::get(map, i) of an associative property map: std::map::operator[] *)
(* inserts a default when there is none.                                   *)
GetProperty(n, i) ==
  /\ n \in DOMAIN maps
  /\ i \notin DOMAIN maps[n]
  /\ PutProperty(n, i, Default)

(* Wrong variants of Reindexed: the old indices; without the last point. *)
ReindexedNot(m) == m

ReindexedShort(m) == [j \in 0..(Len(PointRange) - 2) |-> m[PointRange[j + 1]]]

(* m_reindex.at(n): the nodes of the points in use move to a new map under *)
(* their new indices; those of removed points go with the old one.         *)
Reindexed(m) == [j \in 0..(Len(PointRange) - 1) |-> m[PointRange[j + 1]]]

(* extract() finds a node for every point in use. *)
Reindexable(m) == RangeOf(PointRange) \subseteq DOMAIN m

(* Wrong variant of GarbageCollect: m_removed is not cleared. *)
GarbageCollectKeepsRemoved ==
  /\ \A n \in DOMAIN maps : Reindexable(maps[n])
  /\ maps' = [n \in DOMAIN maps |-> Reindexed(maps[n])]
  /\ points' = [j \in DOMAIN PointRange |-> points[PointRange[j] + 1]]
  /\ UNCHANGED <<removed, status>>

(* garbage_collect() *)
GarbageCollect ==
  \/ /\ \A n \in DOMAIN maps : Reindexable(maps[n])
     /\ maps' = [n \in DOMAIN maps |-> Reindexed(maps[n])]
     /\ points' = [j \in DOMAIN PointRange |-> points[PointRange[j] + 1]]
     /\ removed' = {}
     /\ UNCHANGED status
  \/ /\ \E n \in DOMAIN maps : ~Reindexable(maps[n])
     /\ status' = "undefined"   \* node.key() of an empty node handle
     /\ UNCHANGED <<points, removed, maps>>

PointSetNext ==
  /\ status = "ok"
  /\ \/ \E p \in Coordinates : PushPoint(p)
     \/ \E i \in Indices : Remove(i)
     \/ \E n \in MapNames : AddMap(n) \/ EraseMap(n)
     \/ \E n \in MapNames, i \in Indices, v \in Properties :
          PutProperty(n, i, v)
     \/ \E n \in MapNames, i \in Indices : GetProperty(n, i)
     \/ GarbageCollect

PointSetSpec == PointSetInit /\ [][PointSetNext]_pointVars

-----------------------------------------------------------------------------
(* Properties *)

(* num_points() counts make_point_range(): a removal repeated, a reused    *)
(* slot or a collection never makes the unsigned difference drift          *)
(* (point_set.hpp:107, 109-115).                                           *)
NumPointsCounts == NumPoints = Len(PointRange)

(* The points in use in order, each with the properties it has. *)
View ==
  [j \in DOMAIN PointRange |->
     LET i == PointRange[j] IN
     <<points[i + 1],
       [n \in {m \in DOMAIN maps : i \in DOMAIN maps[m]} |-> maps[n][i]]>>]

(* garbage_collect() renumbers points and properties together: the points  *)
(* in use keep their order and every point keeps its own properties        *)
(* (point_set.hpp:59-76).                                                  *)
GcKeepsPoints == [][GarbageCollect /\ status' = "ok" => View' = View]_pointVars

(* Every map has a property for every point in use. *)
Labelled == \A n \in DOMAIN maps : RangeOf(PointRange) \subseteq DOMAIN maps[n]

(* From a state in which every point in use has all its properties, only a *)
(* new point or a new map leads to one in which some point lacks one; in   *)
(* particular a collection finds a node for every point, does not run into *)
(* undefined behaviour, and leaves maps that the next collection can       *)
(* reindex (point_set.hpp:81-92).                                          *)
StaysLabelled ==
  [][Labelled =>
       \/ Labelled' /\ status' = "ok"
       \/ \E p \in Coordinates : PushPoint(p)
       \/ \E n \in MapNames : AddMap(n)]_pointVars

=============================================================================
