------------------------------ MODULE CsvTable ------------------------------
(***************************************************************************)
(* read_csv, read_csv_auto and write_csv (io/csv/table.cpp): a stream of   *)
(* lines becomes a gaa::Table, and the table a stream of lines.  One       *)
(* action per line read, per column built and per line written.  The       *)
(* stream read is nondeterministic: every next line may be any row, an     *)
(* empty line or the end.                                                  *)
(*                                                                         *)
(* A cell of the text is abstracted to what the regular expressions and    *)
(* std::from_chars tell apart:                                             *)
(*   "int" 12   "big" 12 digits   "plus" +12   "dbl" 1.5   "bool" true     *)
(*   "lat" 1.5_lat   "word" anything else                                  *)
(* Tab_Lon and Tab_Rad are handled like Tab_Lat, with their own suffix.    *)
(***************************************************************************)
EXTENDS Table

CONSTANTS
  Tokens,     (* the cells of the texts considered, a subset of AllTokens *)
  MaxWidth,   (* bound: cells of a line                                   *)
  MaxLines    (* bound: lines after the head                              *)

AllTokens == {"int", "big", "plus", "dbl", "bool", "lat", "word"}

ASSUME CsvAssumption ==
  Tokens \subseteq AllTokens /\ MaxWidth \in Nat \ {0} /\ MaxLines \in Nat

VARIABLES
  mode,     (* "auto" or "manual": which of the two functions runs       *)
  ignore,   (* the argument ignore_first_line                            *)
  names,    (* how many names there are (their text does not matter)     *)
  cnts,     (* the cells collected for each column                       *)
  flags,    (* the flags given, or found so far                          *)
  tab,      (* the table under construction                              *)
  pc,       (* "head", "rows", "build", or how the call ended            *)
  rows,     (* history: the rows read, the ignored first line left out   *)
  prec,     (* the argument stream_precision of write_csv                *)
  out       (* the rows written                                          *)

vars == <<mode, ignore, names, cnts, flags, tab, pc, rows, prec, out>>

readVars  == <<mode, ignore, names, cnts, flags, tab, rows>>
writeVars == <<prec, out>>

Failed == {"abort", "throw", "undefined"}

Widths == 1..MaxWidth
Lines == UNION {[1..w -> Tokens] : w \in Widths}
ManualFlags == {"Tab_String", "Tab_Double", "Tab_Integer", "Tab_Bool"}

(* table_storage_flag_of(str) *)
FlagOf(t) ==
  CASE t \in {"int", "big", "plus"} -> "Tab_Integer"
    [] t = "dbl"  -> "Tab_Double"
    [] t = "bool" -> "Tab_Bool"
    [] t = "lat"  -> "Tab_Lat"
    [] t = "word" -> "Tab_String"

(* What becomes of a cell of text t in a column of flag f: "exact" when    *)
(* the value is the one written, "other" when it is not, or how the call   *)
(* ends.  std::from_chars takes the longest numeric prefix, refuses a      *)
(* leading '+' and what int does not hold, and its end pointer is not      *)
(* looked at; a latitude loses its last four characters unseen, which may  *)
(* be more than it has.                                                    *)
Conversions(f, t) ==
  CASE f = "Tab_String" -> {"exact"}
    [] f = "Tab_Bool" -> IF t = "bool" THEN {"exact"} ELSE {"other"}
    [] f = "Tab_Integer" /\ t = "int" -> {"exact"}
    [] f = "Tab_Integer" /\ t \in {"dbl", "lat"} -> {"other"}
    [] f = "Tab_Integer" /\ t = "word" -> {"other", "abort"}
    [] f = "Tab_Double" /\ t \in {"int", "big", "dbl"} -> {"exact"}
    [] f = "Tab_Double" /\ t = "lat" -> {"other"}
    [] f = "Tab_Double" /\ t = "word" -> {"exact", "other", "abort"}
    [] f = "Tab_Lat" /\ t = "lat" -> {"exact"}
    [] f = "Tab_Lat" /\ t \in {"int", "big", "dbl", "word"} ->
         {"other", "abort", "undefined"}
    [] f = "Tab_Lat" -> {"abort", "undefined"}
    [] OTHER -> {"abort"}

Init ==
  /\ mode \in {"auto", "manual"}
  /\ ignore \in BOOLEAN
  /\ flags \in IF mode = "manual"
               THEN UNION {[1..w -> ManualFlags] : w \in Widths}
               ELSE {<<>>}
  /\ names = 0
  /\ cnts = <<>>
  /\ tab = EmptyTable
  /\ pc = "head"
  /\ rows = <<>>
  /\ prec = 0
  /\ out = <<>>

EmptyColumns(w) == [i \in 1..w |-> <<>>]

(* Without ignore_first_line the first line gives the names; an empty      *)
(* stream or an empty line gives a single empty name.                      *)
ReadHead ==
  /\ pc = "head"
  /\ \/ /\ ~ignore
        /\ \E w \in Widths : names' = w /\ cnts' = EmptyColumns(w)
     \/ /\ ignore
        /\ UNCHANGED <<names, cnts>>
  /\ pc' = "rows"
  /\ UNCHANGED <<mode, ignore, flags, tab, rows, prec, out>>

(* With it the first line only says how many columns there are.  (Once     *)
(* cnts has a column this does not happen again.)                          *)
IgnoreLine ==
  /\ pc = "rows"
  /\ ignore /\ cnts = <<>>
  /\ \E w \in Widths : cnts' = EmptyColumns(w)
  /\ UNCHANGED <<mode, ignore, names, flags, tab, pc, rows, prec, out>>

(* Wrong variant of Collect: the cells of a column are collected last row  *)
(* first.                                                                  *)
CollectReversed(seq) ==
  /\ cnts' = [i \in DOMAIN cnts |->
                IF i \in DOMAIN seq THEN <<seq[i]>> \o cnts[i] ELSE cnts[i]]
  /\ UNCHANGED pc

(* cnts.at(i).emplace_back(seq.at(i)) for every i *)
Collect(seq) ==
  IF Len(seq) > Len(cnts)
  THEN pc' = "throw" /\ UNCHANGED cnts
  ELSE /\ cnts' = [i \in DOMAIN cnts |->
                     IF i \in DOMAIN seq THEN Append(cnts[i], seq[i])
                                         ELSE cnts[i]]
       /\ UNCHANGED pc

(* read_csv: "given flags mismatch actual components count" *)
ReadRowManual(seq) ==
  /\ mode = "manual"
  /\ IF Len(seq) = Len(flags) THEN Collect(seq)
                              ELSE pc' = "abort" /\ UNCHANGED cnts
  /\ UNCHANGED flags

(* read_csv_auto: flag_init stays false, so every row appends its flags    *)
(* and the assertion on the count is never reached.                        *)
ReadRowAuto(seq) ==
  /\ mode = "auto"
  /\ flags' = flags \o [i \in DOMAIN seq |-> FlagOf(seq[i])]
  /\ Collect(seq)

ReadRow(seq) ==
  /\ pc = "rows"
  /\ Len(rows) < MaxLines
  /\ ignore => cnts # <<>>
  /\ ReadRowManual(seq) \/ ReadRowAuto(seq)
  /\ rows' = Append(rows, seq)
  /\ UNCHANGED <<mode, ignore, names, tab, prec, out>>

(* The end of the stream or an empty line ends the rows. *)
EndRows ==
  /\ pc = "rows"
  /\ names' = IF ignore THEN Len(cnts) ELSE names
  /\ pc' = "build"
  /\ UNCHANGED <<mode, ignore, cnts, flags, tab, rows, prec, out>>

(* zip(names, cnts, flags) stops at the shortest of the three. *)
ToBuild == {i \in DOMAIN cnts : i <= names /\ i <= Len(flags)}

Results(i) ==
  {c \in [DOMAIN cnts[i] -> {"exact", "other", "abort", "undefined"}] :
     \A r \in DOMAIN cnts[i] : c[r] \in Conversions(flags[i], cnts[i][r])}

(* One column: converted cell by cell and pushed, unless a cell stops it. *)
BuildColumn ==
  LET i == ColumnSize(tab) + 1 IN
  /\ pc = "build"
  /\ i \in ToBuild
  /\ \E c \in Results(i) :
       LET stops == {r \in DOMAIN c : c[r] \in Failed} IN
       \/ /\ stops = {}
          /\ tab' = PushBack(tab, flags[i],
                             [r \in DOMAIN c |->
                                [text |-> cnts[i][r], exact |-> c[r] = "exact"]],
                             i)
          /\ UNCHANGED pc
       \/ /\ stops # {}
          /\ pc' = c[Least(stops)]
          /\ UNCHANGED tab
  /\ UNCHANGED <<mode, ignore, names, cnts, flags, rows, prec, out>>

Finish ==
  /\ pc = "build"
  /\ ColumnSize(tab) + 1 \notin ToBuild
  /\ pc' = "done"
  /\ UNCHANGED <<readVars, writeVars>>

-----------------------------------------------------------------------------
(* write_csv(os, table, stream_precision(p)) *)

(* Wrong variant of Printed: the suffix of a latitude is left out. *)
PrintedBare(f, p, t) ==
  CASE f = "Tab_String" -> t
    [] f = "Tab_Integer" -> "int"
    [] f = "Tab_Bool" -> "bool"
    [] OTHER -> IF p > 0 THEN "dbl" ELSE "int"

(* The text of a value read from a cell t into a column of flag f: without *)
(* decimals a double looks like an int and a latitude like nothing known.  *)
Printed(f, p, t) ==
  CASE f = "Tab_String" -> t
    [] f = "Tab_Integer" -> "int"
    [] f = "Tab_Bool" -> "bool"
    [] f = "Tab_Double" -> IF p > 0 THEN "dbl" ELSE "int"
    [] f = "Tab_Lat" -> IF p > 0 THEN "lat" ELSE "word"

(* A table without columns writes nothing at all. *)
BeginWrite ==
  /\ pc = "done"
  /\ prec' \in {0, 1}
  /\ pc' = IF ColumnSize(tab) = 0 THEN "written" ELSE "write"
  /\ UNCHANGED <<readVars, out>>

(* num_rows is that of column 0, and every column is indexed with it. *)
WriteRow ==
  LET r == Len(out) + 1 IN
  /\ pc = "write"
  /\ r <= Len(Cells(tab, 0))
  /\ \/ /\ \A i \in DOMAIN tab.info : r <= Len(Cells(tab, i - 1))
        /\ out' = Append(out, [i \in DOMAIN tab.info |->
                      Printed(tab.info[i], prec, Cells(tab, i - 1)[r].text)])
        /\ UNCHANGED pc
     \/ /\ \E i \in DOMAIN tab.info : r > Len(Cells(tab, i - 1))
        /\ pc' = "undefined"
        /\ UNCHANGED out
  /\ UNCHANGED <<readVars, prec>>

EndWrite ==
  /\ pc = "write"
  /\ Len(out) = Len(Cells(tab, 0))
  /\ pc' = "written"
  /\ UNCHANGED <<readVars, writeVars>>

Next ==
  \/ ReadHead \/ IgnoreLine \/ (\E seq \in Lines : ReadRow(seq)) \/ EndRows
  \/ BuildColumn \/ Finish
  \/ BeginWrite \/ WriteRow \/ EndWrite

Spec == Init /\ [][Next]_vars

-----------------------------------------------------------------------------
(* Properties *)

(* All rows are as wide as the first line. *)
Even == \A r \in DOMAIN rows : Len(rows[r]) = Len(cnts)

HasTable == pc \in {"done", "write", "written"}

(* Row r of the table is row r of the text: a call that returns has put    *)
(* cell i of every row it read, in order, at row r of column i, and lost   *)
(* or shifted none of the columns it built, so that write_csv, which       *)
(* indexes every column with the rows of the first, finds them.  For       *)
(* read_csv on any text, for read_csv_auto on even ones; and an even text  *)
(* with rows gets every column of its first line, whichever way that line  *)
(* is treated (table.cpp:42-79, 161-207, 377-384).                         *)
TableHoldsRows ==
  (HasTable /\ (mode = "manual" \/ Even)) =>
    /\ \A i \in 1..ColumnSize(tab) :
         /\ Len(Cells(tab, i - 1)) = Len(rows)
         /\ \A r \in DOMAIN rows :
              i \in DOMAIN rows[r] /\ Cells(tab, i - 1)[r].text = rows[r][i]
    /\ (Even /\ rows # <<>>) => ColumnSize(tab) = Len(cnts)

(* What read_csv_auto would find in the text that write_csv has written    *)
(* with decimals: for columns whose cells all had the type of the column,  *)
(* the same types again, so that a table survives writing and reading      *)
(* (table.cpp:342-357, container/table.cpp:167-195).                       *)
WrittenReadsBack ==
  (pc = "written" /\ mode = "auto" /\ Even /\ prec > 0) =>
    \A i \in DOMAIN tab.info :
      (\A r \in DOMAIN rows : FlagOf(rows[r][i]) = tab.info[i]) =>
        \A r \in DOMAIN out : FlagOf(out[r][i]) = tab.info[i]

=============================================================================
