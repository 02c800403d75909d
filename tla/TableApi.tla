------------------------------ MODULE TableApi ------------------------------
(***************************************************************************)
(* A program that builds a gaa::Table column by column and fills it by     *)
(* cells, as the file readers do.  The mutable views columns(),            *)
(* column_names(), column_infos() and meta() are only read, which is what  *)
(* docs/libGAA.tex offers them for.                                        *)
(***************************************************************************)
EXTENDS Table

CONSTANTS
  Names,        (* column and meta names                             *)
  UsedFlags,    (* the flags of the columns the program makes        *)
  MaxColumns,   (* bound: columns of a table                         *)
  MaxCells      (* bound: cells of a column                          *)

ASSUME TableApiAssumption ==
  UsedFlags \subseteq Flags /\ MaxColumns \in Nat /\ MaxCells \in Nat

VARIABLES
  tab,
  ref   (* the column the reference from the last push_for_insert() is to; *)
        (* -1 for none                                                     *)

tableVars == <<tab, ref>>

None == 0 - 1

TableInit == tab = EmptyTable /\ ref = None

Vectors == UNION {[1..n -> {"cell"}] : n \in 0..MaxCells}

(* push_back(col, name); the program lets go of an older reference *)
Push(flag, cells, name) ==
  /\ SelfCheck(tab)
  /\ ColumnSize(tab) < MaxColumns
  /\ tab' = PushBack(tab, flag, cells, name)
  /\ ref' = None

(* push_for_insert<V>(name): push_back<V>(name), then at<V>(name) *)
PushForInsert(flag, name) ==
  LET t == PushBack(tab, flag, <<>>, name) IN
  /\ SelfCheck(tab)
  /\ ColumnSize(tab) < MaxColumns
  /\ AtAccepts(t, flag, ColumnOf(t, name))
  /\ tab' = t
  /\ ref' = ColumnOf(t, name)

(* A cell is appended through the reference. *)
FillRef ==
  /\ ref # None
  /\ Len(Cells(tab, ref)) < MaxCells
  /\ tab' = AppendCell(tab, ref, "cell")
  /\ UNCHANGED ref

(* at<V>(i).push_back(v) *)
Fill(flag, i) ==
  /\ AtAccepts(tab, flag, i)
  /\ Len(Cells(tab, i)) < MaxCells
  /\ tab' = AppendCell(tab, i, "cell")
  /\ UNCHANGED ref

(* meta_ioa<V>(key, v) *)
SetMeta(flag, key) ==
  /\ tab' = MetaIoa(tab, flag, key, "cell")
  /\ UNCHANGED ref

(* clear() *)
ClearTable == tab' = EmptyTable /\ ref' = None

TableNext ==
  \/ \E f \in UsedFlags, c \in Vectors, n \in Names : Push(f, c, n)
  \/ \E f \in UsedFlags, n \in Names : PushForInsert(f, n)
  \/ FillRef
  \/ \E f \in UsedFlags, i \in 0..MaxColumns : Fill(f, i)
  \/ \E f \in UsedFlags, n \in Names : SetMeta(f, n)
  \/ ClearTable

TableSpec == TableInit /\ [][TableNext]_tableVars

-----------------------------------------------------------------------------
(* Properties *)

(* Types of the members, the flags in m_table_info and m_meta_info being   *)
(* those of what the std::any holds, so that no any_cast behind a passed   *)
(* assertion yields a null pointer (table.hpp:202-207, 259-263).           *)
FlagsMatch ==
  /\ SelfCheck(tab)
  /\ \A p \in DOMAIN tab.info : tab.storage[p].type = tab.info[p]
  /\ \A k \in DOMAIN tab.meta :
       k \in DOMAIN tab.metaInfo /\ tab.meta[k].type = tab.metaInfo[k]
  /\ ref = None \/ ref < ColumnSize(tab)

(* A loop r < row_size() reads every column of a table that has columns    *)
(* without an assertion failing, however unevenly they were filled         *)
(* (table.cpp:148-165, table.hpp:307-311).                                 *)
RowsReadable ==
  (Visitable(tab) /\ ColumnSize(tab) > 0) =>
    \A r \in 0..(MaxCells - 1), i \in 0..(ColumnSize(tab) - 1) :
      r < RowSize(tab, 0) => RowAtAccepts(tab, r, tab.info[i + 1], i)

(* "add column ... with given name", "access column using .at<>() by index *)
(* or name" (docs/libGAA.tex:193-194): when no column has the name yet,    *)
(* push_for_insert() returns the column it added, and a cell appended      *)
(* through it goes to the column of that name and flag.  (When one has,    *)
(* the first of them is returned.)                                         *)
InsertReturnsNewColumn ==
  [][\A f \in UsedFlags, n \in Names :
       (PushForInsert(f, n) /\ ~HasColumn(tab, n)) =>
         /\ ref' = ColumnSize(tab)
         /\ tab'.names[ref' + 1] = n
         /\ Cells(tab', ref') = <<>>]_tableVars

=============================================================================
