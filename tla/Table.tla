-------------------------------- MODULE Table --------------------------------
(***************************************************************************)
(* gaa::Table (container/table.hpp, container/table.cpp) as a record of    *)
(* its members and operators on it, for the programs and readers that use  *)
(* tables.                                                                 *)
(*                                                                         *)
(*   storage   m_table_storage     column i is storage[i + 1], a vector of *)
(*                                 cells in a std::any: its real type and  *)
(*                                 the cells                               *)
(*   info      m_table_info        the flag of each column                 *)
(*   names     m_table_col_names                                           *)
(*   meta, metaInfo                m_meta_storage, m_meta_info             *)
(*                                                                         *)
(* An operator whose assertions fail aborts the program; ...Accepts is the *)
(* condition under which it does not.                                      *)
(***************************************************************************)
EXTENDS StdContainers

(* The flags of columns of single values and of columns of vectors. *)
ScalarFlags == {"Tab_String", "Tab_Double", "Tab_Integer", "Tab_Bool",
                "Tab_Char", "Tab_UTC_Id", "Tab_Sat_Sys", "Tab_Lat",
                "Tab_Lon", "Tab_Rad"}

VectorFlags == {"Tab_Vector_String", "Tab_Vector_Double",
                "Tab_Vector_Integer"}

Flags == ScalarFlags \cup VectorFlags

EmptyTable ==
  [storage |-> <<>>, info |-> <<>>, names |-> <<>>,
   meta |-> EmptyMap, metaInfo |-> EmptyMap]

ColumnSize(t) == Len(t.storage)

(* self_check(), which push_back(), at() and size() run first *)
SelfCheck(t) ==
  /\ Len(t.storage) = Len(t.info)
  /\ Len(t.storage) = Len(t.names)
  /\ Cardinality(DOMAIN t.meta) = Cardinality(DOMAIN t.metaInfo)

(* Wrong variant of PushBack: the flag is not recorded. *)
PushBackUnflagged(t, flag, cells, name) ==
  [t EXCEPT !.storage = Append(@, [type |-> flag, cells |-> cells]),
            !.names   = Append(@, name)]

(* push_back<V>(cells, name), flag being that of V *)
PushBack(t, flag, cells, name) ==
  [t EXCEPT !.storage = Append(@, [type |-> flag, cells |-> cells]),
            !.info    = Append(@, flag),
            !.names   = Append(@, name)]

HasColumn(t, name) == name \in RangeOf(t.names)

(* Wrong variant of ColumnOf: the first column of any name. *)
ColumnOfAny(t, name) == 0

(* column_of(name): the first column of that name *)
ColumnOf(t, name) == Least({p \in DOMAIN t.names : t.names[p] = name}) - 1

(* at<V>(i): "Index out of range", "Invalid reinterpret" *)
AtAccepts(t, flag, i) ==
  SelfCheck(t) /\ i < ColumnSize(t) /\ t.info[i + 1] = flag

Cells(t, i) == t.storage[i + 1].cells

(* at<V>(i).push_back(v) *)
AppendCell(t, i, v) == [t EXCEPT !.storage[i + 1].cells = Append(@, v)]

(* visit_table_storage() has no case for vectors. *)
Visitable(t) == RangeOf(t.info) \cap VectorFlags = {}

(* Wrong variant of RowSize: the length of the first column. *)
RowSizeOfFirst(t, Unbounded) ==
  IF ColumnSize(t) = 0 THEN Unbounded ELSE Len(t.storage[1].cells)

(* row_size(): the length of the shortest column; Unbounded stands for the *)
(* numeric_limits<size_t>::max() of a table without columns                *)
RowSize(t, Unbounded) ==
  IF ColumnSize(t) = 0 THEN Unbounded
  ELSE Least({Len(c.cells) : c \in RangeOf(t.storage)})

(* row(r).at<V>(i): "Index out of range" *)
RowAtAccepts(t, r, flag, i) == AtAccepts(t, flag, i) /\ Len(Cells(t, i)) > r

(* meta_ioa<V>(key, v) *)
MetaIoa(t, flag, key, v) ==
  [t EXCEPT !.meta     = Put(@, key, [type |-> flag, value |-> v]),
            !.metaInfo = Put(@, key, flag)]

(* meta_at<V>(key) *)
MetaAtAccepts(t, flag, key) ==
  key \in DOMAIN t.metaInfo /\ key \in DOMAIN t.meta /\ t.metaInfo[key] = flag

=============================================================================
