----------------------------- MODULE CsvProofs -----------------------------
(***************************************************************************)
(* read_csv, read_csv_auto and write_csv, any number of lines, of cells    *)
(* and of columns: a table that is returned holds the rows of the text,    *)
(* and what is written of it reads back with the same types.               *)
(***************************************************************************)
EXTENDS CsvTable, ContainerProofs

(* The flags of the columns that the two functions make, and the columns.  *)
Found == {"Tab_String", "Tab_Double", "Tab_Integer", "Tab_Bool", "Tab_Lat"}

CellsRead == [text : Tokens, exact : BOOLEAN]

ColumnsRead == [type : Found, cells : Seq(CellsRead)]

-----------------------------------------------------------------------------
(* The inductive invariant *)

Members ==
  /\ mode \in {"auto", "manual"} /\ ignore \in BOOLEAN
  /\ names \in Nat /\ prec \in {0, 1}
  /\ cnts \in Seq(Seq(Tokens))
  /\ rows \in Seq(Seq(Tokens))
  /\ flags \in Seq(Found)
  /\ DOMAIN tab = {"storage", "info", "names", "meta", "metaInfo"}
  /\ tab.storage \in Seq(ColumnsRead)
  /\ tab.info \in Seq(Found)
  /\ Len(tab.storage) = Len(tab.info)

(* No row read is wider than the first line; read_csv takes only rows as   *)
(* wide as its flags, and read_csv_auto has a flag for every cell of a row. *)
RowsFit ==
  \A r \in DOMAIN rows :
    /\ rows[r] # <<>> /\ Len(rows[r]) <= Len(cnts)
    /\ mode = "manual" => Len(rows[r]) = Len(flags)
    /\ Len(rows[r]) <= Len(flags)

(* A column that all rows so far reach has a cell of each, in order.  (Of  *)
(* one that some row does not reach nothing is known: its cells move up.)  *)
Collected ==
  \A i \in DOMAIN cnts :
    (\A r \in DOMAIN rows : i \in DOMAIN rows[r]) =>
      /\ Len(cnts[i]) = Len(rows)
      /\ \A r \in DOMAIN rows : cnts[i][r] = rows[r][i]

(* The columns of the table are the first of those collected. *)
Built ==
  \A i \in DOMAIN tab.storage :
    /\ i \in ToBuild /\ tab.info[i] = flags[i]
    /\ Len(tab.storage[i].cells) = Len(cnts[i])
    /\ \A r \in DOMAIN cnts[i] : tab.storage[i].cells[r].text = cnts[i][r]

Stages ==
  /\ pc = "head" => cnts = <<>> /\ rows = <<>>
  /\ pc \in {"head", "rows"} => tab.storage = <<>>
  /\ (pc # "head" /\ (ignore => pc # "rows")) => names = Len(cnts)
  /\ HasTable => Len(tab.storage) + 1 \notin ToBuild

(* A row is written only when every column has it. *)
Written ==
  /\ out \in Seq(Seq(AllTokens))
  /\ pc \notin {"write", "written"} => out = <<>>
  /\ \A r \in DOMAIN out, i \in DOMAIN tab.info :
       /\ r \in DOMAIN tab.storage[i].cells
       /\ out[r][i] = Printed(tab.info[i], prec, tab.storage[i].cells[r].text)

Reading == Members /\ RowsFit /\ Collected /\ Built /\ Stages /\ Written

CsvInv == pc \notin Failed => Reading

-----------------------------------------------------------------------------
(* Lines, flags and texts *)

LEMMA LinesAre ==
  ASSUME NEW seq \in Lines
  PROVE  seq \in Seq(Tokens) /\ seq # <<>>
<1>1. PICK w \in 1..MaxWidth : seq \in [1..w -> Tokens]
  BY DEF Lines, Widths
<1>2. w \in Nat /\ w >= 1
  BY <1>1, CsvAssumption
<1> QED
  BY <1>1, <1>2

LEMMA FlagFound ==
  ASSUME NEW t \in Tokens
  PROVE  FlagOf(t) \in Found
<1>1. t \in {"int", "big", "plus", "dbl", "bool", "lat", "word"}
  BY CsvAssumption DEF AllTokens
<1> QED
  BY <1>1 DEF FlagOf, Found

LEMMA PrintedIsToken ==
  ASSUME NEW f \in Found, NEW p, NEW t \in Tokens
  PROVE  Printed(f, p, t) \in AllTokens
BY CsvAssumption DEF Printed, Found, AllTokens

(* A cell that has the type of its column is written so that it is found   *)
(* to have that type again (container/table.cpp:167-195).                  *)
LEMMA PrintedKeepsType ==
  ASSUME NEW f \in Found, NEW p \in Nat, p > 0, NEW t \in Tokens, FlagOf(t) = f
  PROVE  FlagOf(Printed(f, p, t)) = f
<1>1. t \in {"int", "big", "plus", "dbl", "bool", "lat", "word"}
  BY CsvAssumption DEF AllTokens
<1>2. CASE f = "Tab_String"
  BY <1>2 DEF Printed
<1>3. CASE f = "Tab_Integer"
  BY <1>3 DEF Printed, FlagOf
<1>4. CASE f = "Tab_Bool"
  BY <1>4 DEF Printed, FlagOf
<1>5. CASE f = "Tab_Double"
  BY <1>5 DEF Printed, FlagOf
<1>6. CASE f = "Tab_Lat"
  BY <1>6 DEF Printed, FlagOf
<1> QED
  BY <1>2, <1>3, <1>4, <1>5, <1>6 DEF Found

(* cnts after the first line: so many empty columns. *)
LEMMA EmptyColumnsAre ==
  ASSUME NEW w \in Widths
  PROVE  /\ EmptyColumns(w) \in Seq(Seq(Tokens))
         /\ Len(EmptyColumns(w)) = w
         /\ \A i \in DOMAIN EmptyColumns(w) : EmptyColumns(w)[i] = <<>>
         /\ w \in Nat
<1>1. w \in Nat
  BY CsvAssumption DEF Widths
<1> QED
  BY <1>1 DEF EmptyColumns

-----------------------------------------------------------------------------
(* What the invariant gives *)

(* Column i of the table, by row: the cells of the text.                   *)
LEMMA ColumnsHoldRows ==
  ASSUME Reading, HasTable, mode = "manual" \/ Even, NEW i \in DOMAIN tab.storage
  PROVE  /\ i \in DOMAIN cnts
         /\ Len(tab.storage[i].cells) = Len(rows)
         /\ DOMAIN tab.storage[i].cells = DOMAIN rows
         /\ \A r \in DOMAIN rows :
              i \in DOMAIN rows[r] /\ tab.storage[i].cells[r].text = rows[r][i]
<1>1. /\ i \in DOMAIN cnts /\ i \in Nat /\ i >= 1 /\ i <= Len(cnts) /\ i <= Len(flags)
      /\ Len(tab.storage[i].cells) = Len(cnts[i])
      /\ \A r \in DOMAIN cnts[i] : tab.storage[i].cells[r].text = cnts[i][r]
  BY DEF Reading, Members, Built, ToBuild
<1>2. ASSUME NEW r \in DOMAIN rows
      PROVE  i \in DOMAIN rows[r]
  <2>1. rows[r] \in Seq(Tokens) /\ DOMAIN rows[r] = 1..Len(rows[r])
    BY DEF Reading, Members
  <2>2. Len(rows[r]) = Len(flags) \/ Len(rows[r]) = Len(cnts)
    BY DEF Reading, RowsFit, Even
  <2> QED
    BY <1>1, <2>1, <2>2
<1>3. /\ Len(cnts[i]) = Len(rows)
      /\ \A r \in DOMAIN rows : cnts[i][r] = rows[r][i]
  BY <1>1, <1>2 DEF Reading, Collected
<1>4. /\ DOMAIN rows = 1..Len(rows)
      /\ DOMAIN cnts[i] = 1..Len(cnts[i])
      /\ DOMAIN tab.storage[i].cells = 1..Len(tab.storage[i].cells)
  <2>1. tab.storage[i] \in ColumnsRead /\ cnts[i] \in Seq(Tokens)
    BY <1>1 DEF Reading, Members
  <2>2. \A c \in ColumnsRead : DOMAIN c.cells = 1..Len(c.cells)
    BY DEF ColumnsRead
  <2> QED
    BY <2>1, <2>2 DEF Reading, Members
<1> QED
  BY <1>1, <1>2, <1>3, <1>4

LEMMA TablesHoldRows == CsvInv => TableHoldsRows
<1> SUFFICES ASSUME CsvInv, HasTable, mode = "manual" \/ Even
             PROVE  /\ \A i \in 1..ColumnSize(tab) :
                         /\ Len(Cells(tab, i - 1)) = Len(rows)
                         /\ \A r \in DOMAIN rows :
                              /\ i \in DOMAIN rows[r]
                              /\ Cells(tab, i - 1)[r].text = rows[r][i]
                    /\ (Even /\ rows # <<>>) => ColumnSize(tab) = Len(cnts)
  BY DEF TableHoldsRows
<1>1. Reading
  BY DEF CsvInv, HasTable, Failed
<1>2. ASSUME NEW i \in 1..ColumnSize(tab)
      PROVE  /\ Len(Cells(tab, i - 1)) = Len(rows)
             /\ \A r \in DOMAIN rows :
                  i \in DOMAIN rows[r] /\ Cells(tab, i - 1)[r].text = rows[r][i]
  <2>1. i \in DOMAIN tab.storage /\ (i - 1) + 1 = i
    BY <1>1 DEF ColumnSize, Reading, Members
  <2> QED
    BY <1>1, <2>1, ColumnsHoldRows DEF Cells
<1>3. ASSUME Even, rows # <<>>
      PROVE  ColumnSize(tab) = Len(cnts)
  <2>1. 1 \in DOMAIN rows
    BY <1>1, <1>3 DEF Reading, Members
  <2>2. Len(rows[1]) = Len(cnts) /\ Len(cnts) <= Len(flags)
    BY <1>1, <1>3, <2>1 DEF Even, Reading, RowsFit
  <2>3. names = Len(cnts)
    BY <1>1 DEF Reading, Stages, HasTable
  <2>4. Len(cnts) \in Nat /\ DOMAIN cnts = 1..Len(cnts) /\ Len(flags) \in Nat
        /\ Len(tab.storage) \in Nat /\ DOMAIN tab.storage = 1..Len(tab.storage)
    BY <1>1 DEF Reading, Members
  <2>5. ~(Len(tab.storage) < Len(cnts))
    BY <1>1, <2>2, <2>3, <2>4 DEF Reading, Stages, ToBuild
  <2>6. Len(tab.storage) = 0 \/ Len(tab.storage) \in DOMAIN cnts
    BY <1>1, <2>4 DEF Reading, Built, ToBuild
  <2> QED
    BY <2>4, <2>5, <2>6 DEF ColumnSize
<1> QED
  BY <1>2, <1>3

LEMMA TextsReadBack == CsvInv => WrittenReadsBack
<1> SUFFICES ASSUME CsvInv, pc = "written", Even, prec > 0,
                    NEW i \in DOMAIN tab.info,
                    \A r \in DOMAIN rows : FlagOf(rows[r][i]) = tab.info[i],
                    NEW r \in DOMAIN out
             PROVE  FlagOf(out[r][i]) = tab.info[i]
  BY DEF WrittenReadsBack
<1>1. Reading /\ HasTable
  BY DEF CsvInv, HasTable, Failed
<1>2. i \in DOMAIN tab.storage /\ tab.info[i] \in Found /\ prec \in Nat
  <2>1. DOMAIN tab.info = 1..Len(tab.info)
    <3>1. \A s : s \in Seq(Found) => DOMAIN s = 1..Len(s)
      OBVIOUS
    <3> QED
      BY <1>1, <3>1 DEF Reading, Members
  <2> QED
    BY <1>1, <2>1 DEF Reading, Members
<1>3. /\ r \in DOMAIN tab.storage[i].cells
      /\ out[r][i] = Printed(tab.info[i], prec, tab.storage[i].cells[r].text)
  BY <1>1 DEF Reading, Written
<1>4. /\ r \in DOMAIN rows /\ i \in DOMAIN rows[r]
      /\ tab.storage[i].cells[r].text = rows[r][i]
  BY <1>1, <1>2, <1>3, ColumnsHoldRows
<1>5. rows[r][i] \in Tokens
  <2>1. rows[r] \in Seq(Tokens)
    BY <1>1, <1>4 DEF Reading, Members
  <2> QED
    BY <1>4, <2>1
<1> QED
  BY <1>2, <1>3, <1>4, <1>5, PrintedKeepsType

-----------------------------------------------------------------------------
(* The invariant is inductive *)

LEMMA CsvInit == Init => CsvInv
<1> SUFFICES ASSUME Init
             PROVE  Reading
  BY DEF CsvInv
<1>1. /\ names = 0 /\ cnts = <<>> /\ tab = EmptyTable /\ pc = "head"
      /\ rows = <<>> /\ prec = 0 /\ out = <<>>
      /\ mode \in {"auto", "manual"} /\ ignore \in BOOLEAN
  BY DEF Init
<1>2. flags \in Seq(Found)
  <2>1. CASE mode = "manual"
    <3>1. PICK w \in Widths : flags \in [1..w -> ManualFlags]
      BY <2>1 DEF Init
    <3>2. w \in Nat /\ ManualFlags \subseteq Found
      BY <3>1, CsvAssumption DEF Widths, ManualFlags, Found
    <3> QED
      BY <3>1, <3>2
  <2>2. CASE mode = "auto"
    BY <2>2 DEF Init
  <2> QED
    BY <1>1, <2>1, <2>2
<1>3. /\ DOMAIN tab = {"storage", "info", "names", "meta", "metaInfo"}
      /\ tab.storage = <<>> /\ tab.info = <<>>
  BY <1>1 DEF EmptyTable
<1>4. Members
  BY <1>1, <1>2, <1>3 DEF Members
<1>5. RowsFit /\ Collected /\ Built
  BY <1>1, <1>3 DEF RowsFit, Collected, Built
<1>6. Stages /\ Written
  BY <1>1, <1>3 DEF Stages, Written, HasTable
<1> QED
  BY <1>4, <1>5, <1>6 DEF Reading

(* The first line, whether it gives the names or only their number.        *)
LEMMA FirstLineKeeps ==
  ASSUME Reading, cnts = <<>>, rows = <<>>, tab.storage = <<>>, out = <<>>,
         NEW w \in Widths, cnts' = EmptyColumns(w), names' \in Nat,
         pc' = "rows", ignore \/ names' = w,
         UNCHANGED <<mode, ignore, flags, tab, rows, prec, out>>
  PROVE  Reading'
<1>1. /\ cnts' \in Seq(Seq(Tokens)) /\ Len(cnts') = w
      /\ \A i \in DOMAIN cnts' : cnts'[i] = <<>>
  BY EmptyColumnsAre
<1>2. Members'
  BY <1>1 DEF Reading, Members
<1>3. RowsFit' /\ Built'
  BY DEF RowsFit, Built
<1>4. Collected'
  BY <1>1 DEF Collected
<1>5. Stages'
  BY <1>1 DEF Stages, HasTable
<1>6. Written'
  BY DEF Reading, Written
<1> QED
  BY <1>2, <1>3, <1>4, <1>5, <1>6 DEF Reading

LEMMA HeadKeeps ==
  ASSUME Reading, ReadHead
  PROVE  Reading'
<1>1. cnts = <<>> /\ rows = <<>> /\ tab.storage = <<>> /\ out = <<>>
      /\ pc = "head" /\ pc' = "rows"
      /\ UNCHANGED <<mode, ignore, flags, tab, rows, prec, out>>
  BY DEF ReadHead, Reading, Stages, Written
<1>2. CASE ~ignore
  <2>1. PICK w \in Widths : names' = w /\ cnts' = EmptyColumns(w)
    BY <1>2 DEF ReadHead
  <2> QED
    BY <1>1, <2>1, EmptyColumnsAre, FirstLineKeeps
<1>3. CASE ignore
  <2>1. UNCHANGED <<names, cnts>>
    BY <1>3 DEF ReadHead
  <2>2. Members' /\ RowsFit' /\ Collected' /\ Built'
    BY <1>1, <2>1 DEF Reading, Members, RowsFit, Collected, Built
  <2>3. Stages' /\ Written'
    BY <1>1, <1>3, <2>1 DEF Reading, Stages, Written, HasTable
  <2> QED
    BY <2>2, <2>3 DEF Reading
<1> QED
  BY <1>2, <1>3

LEMMA IgnoredKeeps ==
  ASSUME Reading, IgnoreLine
  PROVE  Reading'
<1>1. rows = <<>>
  <2> SUFFICES ASSUME rows # <<>>
               PROVE  FALSE
    OBVIOUS
  <2>1. 1 \in DOMAIN rows
    BY DEF Reading, Members
  <2>2. rows[1] \in Seq(Tokens) /\ rows[1] # <<>> /\ Len(rows[1]) <= Len(cnts)
    BY <2>1 DEF Reading, Members, RowsFit
  <2>3. Len(cnts) = 0
    BY DEF IgnoreLine
  <2> QED
    BY <2>2, <2>3
<1>2. tab.storage = <<>> /\ out = <<>> /\ names' \in Nat
  BY DEF IgnoreLine, Reading, Stages, Written, Members
<1>3. PICK w \in Widths : cnts' = EmptyColumns(w)
  BY DEF IgnoreLine
<1> QED
  BY <1>1, <1>2, <1>3, FirstLineKeeps DEF IgnoreLine

(* A row that is as wide as it has to be. *)
LEMMA CollectKeeps ==
  ASSUME Reading, NEW seq \in Seq(Tokens), seq # <<>>, Len(seq) <= Len(cnts),
         cnts' = [i \in DOMAIN cnts |->
                    IF i \in DOMAIN seq THEN Append(cnts[i], seq[i]) ELSE cnts[i]],
         rows' = Append(rows, seq)
  PROVE  /\ cnts' \in Seq(Seq(Tokens)) /\ rows' \in Seq(Seq(Tokens))
         /\ Len(cnts') = Len(cnts)
         /\ \A r \in DOMAIN rows' :
              \/ r \in DOMAIN rows /\ rows'[r] = rows[r]
              \/ rows'[r] = seq
         /\ Collected'
<1>1. /\ cnts \in Seq(Seq(Tokens)) /\ rows \in Seq(Seq(Tokens))
      /\ Len(cnts) \in Nat /\ DOMAIN cnts = 1..Len(cnts)
  BY DEF Reading, Members
<1>2. ASSUME NEW i \in DOMAIN cnts
      PROVE  cnts'[i] \in Seq(Tokens)
  <2>1. cnts[i] \in Seq(Tokens)
    BY <1>1
  <2>2. i \in DOMAIN seq => Append(cnts[i], seq[i]) \in Seq(Tokens)
    BY <2>1
  <2> QED
    BY <2>1, <2>2
<1>3. cnts' \in Seq(Seq(Tokens)) /\ Len(cnts') = Len(cnts)
  BY <1>1, <1>2
<1>4. /\ rows' \in Seq(Seq(Tokens)) /\ Len(rows') = Len(rows) + 1
      /\ DOMAIN rows' = 1..(Len(rows) + 1) /\ rows'[Len(rows) + 1] = seq
      /\ \A p \in 1..Len(rows) : rows'[p] = rows[p]
      /\ Len(rows) \in Nat /\ DOMAIN rows = 1..Len(rows)
  BY <1>1, AppendGives
<1>5. \A r \in DOMAIN rows' :
        \/ r \in DOMAIN rows /\ rows'[r] = rows[r]
        \/ r = Len(rows) + 1 /\ rows'[r] = seq
  BY <1>4
<1>6. ASSUME NEW i \in DOMAIN cnts', \A r \in DOMAIN rows' : i \in DOMAIN rows'[r]
      PROVE  /\ Len(cnts'[i]) = Len(rows')
             /\ \A r \in DOMAIN rows' : cnts'[i][r] = rows'[r][i]
  <2>1. i \in DOMAIN seq /\ i \in DOMAIN cnts /\ cnts[i] \in Seq(Tokens)
    <3>1. i \in DOMAIN cnts
      BY <1>3, <1>1
    <3>2. Len(rows) + 1 \in DOMAIN rows'
      BY <1>4
    <3>3. i \in DOMAIN seq
      BY <1>4, <1>6, <3>2
    <3> QED
      BY <1>1, <3>1, <3>3
  <2>2. \A r \in DOMAIN rows : i \in DOMAIN rows[r]
    BY <1>4, <1>6
  <2>3. /\ Len(cnts[i]) = Len(rows)
        /\ \A r \in DOMAIN rows : cnts[i][r] = rows[r][i]
    BY <2>1, <2>2 DEF Reading, Collected
  <2>4. cnts'[i] = Append(cnts[i], seq[i]) /\ seq[i] \in Tokens
    BY <2>1
  <2>5. /\ Len(cnts'[i]) = Len(cnts[i]) + 1
        /\ cnts'[i][Len(cnts[i]) + 1] = seq[i]
        /\ \A p \in 1..Len(cnts[i]) : cnts'[i][p] = cnts[i][p]
    BY <2>1, <2>4, AppendGives
  <2>6. ASSUME NEW r \in DOMAIN rows'
        PROVE  cnts'[i][r] = rows'[r][i]
    <3>1. CASE r = Len(rows) + 1
      BY <1>4, <2>3, <2>5, <3>1
    <3>2. CASE r \in 1..Len(rows)
      BY <1>4, <2>3, <2>5, <3>2
    <3>3. r \in 1..Len(rows) \/ r = Len(rows) + 1
      BY <1>4, <1>5
    <3> QED
      BY <3>1, <3>2, <3>3
  <2>7. Len(cnts'[i]) = Len(rows')
    BY <1>4, <2>3, <2>5
  <2> QED
    BY <2>6, <2>7
<1> QED
  BY <1>3, <1>4, <1>5, <1>6 DEF Collected

LEMMA RowKeeps ==
  ASSUME Reading, NEW seq \in Lines, ReadRow(seq), pc' \notin Failed
  PROVE  Reading'
<1>1. seq \in Seq(Tokens) /\ seq # <<>>
  BY LinesAre
<1>2. /\ pc = "rows" /\ rows' = Append(rows, seq)
      /\ UNCHANGED <<mode, ignore, names, tab, prec, out>>
      /\ tab.storage = <<>> /\ out = <<>>
  BY DEF ReadRow, Reading, Stages, Written
<1>3. Collect(seq)
  BY DEF ReadRow, ReadRowManual, ReadRowAuto, Failed
<1>4. /\ Len(seq) <= Len(cnts) /\ pc' = pc
      /\ cnts' = [i \in DOMAIN cnts |->
                    IF i \in DOMAIN seq THEN Append(cnts[i], seq[i]) ELSE cnts[i]]
  <2>1. ~(Len(seq) > Len(cnts))
    BY <1>3 DEF Collect, Failed
  <2>2. Len(seq) \in Nat /\ Len(cnts) \in Nat
    BY <1>1 DEF Reading, Members
  <2> QED
    BY <1>3, <2>1, <2>2 DEF Collect
<1>5. /\ cnts' \in Seq(Seq(Tokens)) /\ rows' \in Seq(Seq(Tokens))
      /\ Len(cnts') = Len(cnts)
      /\ \A r \in DOMAIN rows' :
           \/ r \in DOMAIN rows /\ rows'[r] = rows[r]
           \/ rows'[r] = seq
      /\ Collected'
  BY <1>1, <1>2, <1>4, CollectKeeps
<1>6. /\ flags' \in Seq(Found) /\ Len(flags) <= Len(flags') /\ Len(seq) <= Len(flags')
      /\ mode = "manual" => flags' = flags /\ Len(seq) = Len(flags)
      /\ Len(flags) \in Nat
  <2>1. flags \in Seq(Found) /\ Len(flags) \in Nat /\ Len(seq) \in Nat
    BY <1>1 DEF Reading, Members
  <2>2. CASE mode = "manual"
    <3>1. flags' = flags /\ Len(seq) = Len(flags)
      BY <2>2 DEF ReadRow, ReadRowManual, ReadRowAuto, Failed
    <3> QED
      BY <2>1, <3>1
  <2>3. CASE mode # "manual"
    <3> DEFINE more == [i \in DOMAIN seq |-> FlagOf(seq[i])]
    <3>1. flags' = flags \o more
      BY <2>3 DEF ReadRow, ReadRowManual, ReadRowAuto
    <3>2. \A i \in DOMAIN seq : FlagOf(seq[i]) \in Found
      BY <1>1, FlagFound
    <3>3. more \in Seq(Found) /\ Len(more) = Len(seq)
      BY <1>1, <3>2
    <3> HIDE DEF more
    <3>4. flags' \in Seq(Found) /\ Len(flags') = Len(flags) + Len(seq)
      <4>1. \A f, g \in Seq(Found) : f \o g \in Seq(Found) /\ Len(f \o g) = Len(f) + Len(g)
        OBVIOUS
      <4> QED
        BY <2>1, <3>1, <3>3, <4>1
    <3> QED
      BY <2>1, <2>3, <3>4
  <2> QED
    BY <2>2, <2>3
<1>7. Members'
  BY <1>2, <1>5, <1>6 DEF Reading, Members
<1>8. RowsFit'
  <2> SUFFICES ASSUME NEW r \in DOMAIN rows'
               PROVE  /\ rows'[r] # <<>> /\ Len(rows'[r]) <= Len(cnts')
                      /\ mode = "manual" => Len(rows'[r]) = Len(flags')
                      /\ Len(rows'[r]) <= Len(flags')
    BY <1>2 DEF RowsFit
  <2>1. CASE r \in DOMAIN rows /\ rows'[r] = rows[r]
    <3>1. /\ rows[r] # <<>> /\ Len(rows[r]) <= Len(cnts)
          /\ mode = "manual" => Len(rows[r]) = Len(flags)
          /\ Len(rows[r]) <= Len(flags)
      BY <2>1 DEF Reading, RowsFit
    <3>2. rows[r] \in Seq(Tokens) /\ Len(rows[r]) \in Nat /\ Len(flags') \in Nat
      BY <1>6, <2>1 DEF Reading, Members
    <3> QED
      BY <1>5, <1>6, <2>1, <3>1, <3>2
  <2>2. CASE rows'[r] = seq
    BY <1>1, <1>4, <1>5, <1>6, <2>2
  <2> QED
    BY <1>5, <2>1, <2>2
<1>9. Built'
  BY <1>2 DEF Built
<1>10. Stages' /\ Written'
  BY <1>2, <1>4, <1>5 DEF Reading, Stages, Written, HasTable
<1> QED
  BY <1>5, <1>7, <1>8, <1>9, <1>10 DEF Reading

LEMMA EndRowsKeeps ==
  ASSUME Reading, EndRows
  PROVE  Reading'
<1>1. /\ pc = "rows" /\ pc' = "build" /\ tab.storage = <<>>
      /\ UNCHANGED <<mode, ignore, cnts, flags, tab, rows, prec, out>>
      /\ names' = IF ignore THEN Len(cnts) ELSE names
  BY DEF EndRows, Reading, Stages
<1>2. names' = Len(cnts) /\ names' \in Nat
  BY <1>1 DEF Reading, Stages, Members
<1>3. Members' /\ RowsFit' /\ Collected'
  BY <1>1, <1>2 DEF Reading, Members, RowsFit, Collected
<1>4. Built'
  BY <1>1 DEF Built
<1>5. Stages' /\ Written'
  BY <1>1, <1>2 DEF Reading, Stages, Written, HasTable
<1> QED
  BY <1>3, <1>4, <1>5 DEF Reading

(* A column more, or a cell that stops the call. *)
LEMMA BuildKeeps ==
  ASSUME Reading, BuildColumn, pc' \notin Failed
  PROVE  Reading'
<1> DEFINE i == ColumnSize(tab) + 1
           Cell(c, r) == [text |-> cnts[i][r], exact |-> c[r] = "exact"]
<1>1. /\ pc = "build" /\ i \in ToBuild /\ out = <<>>
      /\ UNCHANGED <<mode, ignore, names, cnts, flags, rows, prec, out>>
  BY DEF BuildColumn, Reading, Written
<1>2. PICK c \in Results(i) :
        LET stops == {r \in DOMAIN c : c[r] \in Failed} IN
        \/ /\ stops = {}
           /\ tab' = PushBack(tab, flags[i], [r \in DOMAIN c |-> Cell(c, r)], i)
           /\ UNCHANGED pc
        \/ /\ stops # {}
           /\ pc' = c[Least(stops)]
           /\ UNCHANGED tab
  BY DEF BuildColumn
<1>3. /\ i \in DOMAIN cnts /\ cnts[i] \in Seq(Tokens)
      /\ DOMAIN cnts[i] = 1..Len(cnts[i]) /\ Len(cnts[i]) \in Nat
      /\ i \in DOMAIN flags /\ flags[i] \in Found
  <2>1. i \in DOMAIN cnts /\ i \in Nat /\ i >= 1 /\ i <= Len(flags)
    BY <1>1 DEF Reading, Members, ToBuild
  <2> HIDE DEF i
  <2> QED
    BY <2>1 DEF Reading, Members
<1>4. DOMAIN c = DOMAIN cnts[i]
  BY DEF Results
<1> DEFINE stops == {r \in DOMAIN c : c[r] \in Failed}
<1>5. stops = {}
  <2> SUFFICES ASSUME stops # {}
               PROVE  FALSE
    OBVIOUS
  <2>1. stops \in SUBSET Nat
    BY <1>3, <1>4
  <2>2. Least(stops) \in stops
    <3> HIDE DEF stops
    <3> QED
      BY <2>1, LeastIsLeast
  <2>3. pc' \in Failed
    BY <1>2, <2>2
  <2> QED
    BY <2>3
<1> DEFINE cells == [r \in DOMAIN c |-> Cell(c, r)]
           col == [type |-> flags[i], cells |-> cells]
<1>6. tab' = PushBack(tab, flags[i], cells, i) /\ pc' = pc
  BY <1>2, <1>5
<1>7. /\ cells \in Seq(CellsRead) /\ Len(cells) = Len(cnts[i])
      /\ \A r \in DOMAIN cnts[i] : cells[r].text = cnts[i][r]
  <2>1. \A r \in DOMAIN cnts[i] :
          cells[r] = Cell(c, r) /\ Cell(c, r) \in CellsRead /\ Cell(c, r).text = cnts[i][r]
    BY <1>3, <1>4 DEF CellsRead
  <2>2. DOMAIN cells = 1..Len(cnts[i])
    BY <1>3, <1>4
  <2> HIDE DEF cells, Cell
  <2>3. cells \in [1..Len(cnts[i]) -> CellsRead]
    BY <1>3, <1>4, <2>1 DEF cells
  <2> QED
    BY <1>3, <2>1, <2>2, <2>3
<1>8. /\ tab'.storage = Append(tab.storage, col) /\ tab'.info = Append(tab.info, flags[i])
      /\ DOMAIN tab' = {"storage", "info", "names", "meta", "metaInfo"}
  <2> HIDE DEF cells, i
  <2> QED
    BY <1>6 DEF PushBack, Reading, Members
<1>9. col \in ColumnsRead /\ col.cells = cells
  <2> HIDE DEF cells, i
  <2> QED
    BY <1>3, <1>7 DEF ColumnsRead
<1> HIDE DEF col, cells, stops, Cell
<1>10. /\ tab'.storage \in Seq(ColumnsRead)
       /\ Len(tab'.storage) = i /\ DOMAIN tab'.storage = 1..i
       /\ tab'.storage[i] = col
       /\ \A p \in DOMAIN tab.storage : tab'.storage[p] = tab.storage[p]
       /\ DOMAIN tab.storage = 1..(i - 1)
  <2>1. tab.storage \in Seq(ColumnsRead) /\ i = Len(tab.storage) + 1
    BY DEF Reading, Members, ColumnSize
  <2> HIDE DEF i
  <2>2. /\ Append(tab.storage, col) \in Seq(ColumnsRead)
        /\ Len(Append(tab.storage, col)) = Len(tab.storage) + 1
        /\ DOMAIN Append(tab.storage, col) = 1..(Len(tab.storage) + 1)
        /\ Append(tab.storage, col)[Len(tab.storage) + 1] = col
        /\ \A p \in 1..Len(tab.storage) : Append(tab.storage, col)[p] = tab.storage[p]
        /\ Len(tab.storage) \in Nat /\ DOMAIN tab.storage = 1..Len(tab.storage)
    BY <1>9, <2>1, AppendGives
  <2> QED
    BY <1>8, <2>1, <2>2
<1>11. /\ tab'.info \in Seq(Found)
       /\ Len(tab'.info) = i /\ tab'.info[i] = flags[i]
       /\ \A p \in 1..(i - 1) : tab'.info[p] = tab.info[p]
  <2>1. tab.info \in Seq(Found) /\ i = Len(tab.info) + 1
    BY DEF Reading, Members, ColumnSize
  <2> HIDE DEF i
  <2>2. /\ Append(tab.info, flags[i]) \in Seq(Found)
        /\ Len(Append(tab.info, flags[i])) = Len(tab.info) + 1
        /\ Append(tab.info, flags[i])[Len(tab.info) + 1] = flags[i]
        /\ \A p \in 1..Len(tab.info) : Append(tab.info, flags[i])[p] = tab.info[p]
        /\ Len(tab.info) \in Nat
    BY <1>3, <2>1, AppendGives
  <2> QED
    BY <1>8, <2>1, <2>2
<1>12. Members'
  BY <1>1, <1>8, <1>10, <1>11 DEF Reading, Members
<1>13. RowsFit' /\ Collected'
  BY <1>1 DEF Reading, RowsFit, Collected
<1>14. ToBuild' = ToBuild
  BY <1>1 DEF ToBuild
<1>15. Built'
  <2> SUFFICES ASSUME NEW p \in DOMAIN tab'.storage
               PROVE  /\ p \in ToBuild /\ tab'.info[p] = flags[p]
                      /\ Len(tab'.storage[p].cells) = Len(cnts[p])
                      /\ \A r \in DOMAIN cnts[p] :
                           tab'.storage[p].cells[r].text = cnts[p][r]
    BY <1>1, <1>14 DEF Built
  <2>1. CASE p = i
    BY <1>1, <1>7, <1>9, <1>10, <1>11, <2>1
  <2>2. CASE p \in DOMAIN tab.storage
    BY <1>10, <1>11, <2>2 DEF Reading, Built
  <2> HIDE DEF i
  <2>3. i \in Nat
    BY <1>1, <1>3 DEF Reading, Members, ToBuild
  <2> QED
    BY <1>10, <2>1, <2>2, <2>3
<1>16. Stages' /\ Written'
  BY <1>1, <1>6 DEF Reading, Stages, Written, HasTable
<1> QED
  BY <1>12, <1>13, <1>15, <1>16 DEF Reading

LEMMA FinishKeeps ==
  ASSUME Reading, Finish
  PROVE  Reading'
<1>1. /\ pc = "build" /\ pc' = "done" /\ Len(tab.storage) + 1 \notin ToBuild
      /\ UNCHANGED <<mode, ignore, names, cnts, flags, tab, rows, prec, out>>
      /\ out = <<>> /\ names = Len(cnts)
  BY DEF Finish, readVars, writeVars, ColumnSize, Reading, Stages, Written
<1>2. Members' /\ RowsFit' /\ Collected'
  BY <1>1 DEF Reading, Members, RowsFit, Collected
<1>3. ToBuild' = ToBuild
  BY <1>1 DEF ToBuild
<1>4. Built' /\ Stages' /\ Written'
  BY <1>1, <1>3 DEF Reading, Built, Stages, Written
<1> QED
  BY <1>2, <1>4 DEF Reading

(* The writer only reads what the reader left. *)
LEMMA WriterKeeps ==
  ASSUME Reading, HasTable, HasTable', UNCHANGED readVars, prec' \in {0, 1}
  PROVE  /\ Members' /\ RowsFit' /\ Collected' /\ Built' /\ Stages'
<1>1. UNCHANGED <<mode, ignore, names, cnts, flags, tab, rows>>
  BY DEF readVars
<1>2. Members' /\ RowsFit' /\ Collected'
  BY <1>1 DEF Reading, Members, RowsFit, Collected
<1>3. ToBuild' = ToBuild
  BY <1>1 DEF ToBuild
<1> QED
  BY <1>1, <1>2, <1>3 DEF Reading, Built, Stages, HasTable

LEMMA BeginWriteKeeps ==
  ASSUME Reading, BeginWrite
  PROVE  Reading'
<1>1. /\ pc = "done" /\ HasTable /\ HasTable' /\ UNCHANGED readVars
      /\ prec' \in {0, 1} /\ out' = out /\ out = <<>>
  BY DEF BeginWrite, HasTable, Reading, Written
<1>2. Written'
  BY <1>1 DEF Written
<1> QED
  BY <1>1, <1>2, WriterKeeps DEF Reading

LEMMA WriteRowKeeps ==
  ASSUME Reading, WriteRow, pc' \notin Failed
  PROVE  Reading'
<1> DEFINE r == Len(out) + 1
           Text(i) == Printed(tab.info[i], prec, tab.storage[i].cells[r].text)
           line == [i \in DOMAIN tab.info |-> Text(i)]
<1>1. /\ pc = "write" /\ pc' = pc /\ UNCHANGED readVars /\ prec' = prec
      /\ prec \in {0, 1} /\ HasTable /\ HasTable'
  BY DEF WriteRow, Failed, HasTable, Reading, Members
<1>2. /\ tab.info \in Seq(Found) /\ Len(tab.info) \in Nat
      /\ DOMAIN tab.info = 1..Len(tab.info)
      /\ tab.storage \in Seq(ColumnsRead) /\ DOMAIN tab.storage = DOMAIN tab.info
  <2>1. \A s : s \in Seq(Found) => DOMAIN s = 1..Len(s) /\ Len(s) \in Nat
    OBVIOUS
  <2> QED
    BY <2>1 DEF Reading, Members
<1>3. \A i \in DOMAIN tab.info : Cells(tab, i - 1) = tab.storage[i].cells
  BY <1>2 DEF Cells
<1>4. /\ out' = Append(out, line)
      /\ \A i \in DOMAIN tab.info : r <= Len(tab.storage[i].cells)
  BY <1>3 DEF WriteRow, Failed
<1>5. out \in Seq(Seq(AllTokens)) /\ Len(out) \in Nat
  BY DEF Reading, Written
<1>6. ASSUME NEW i \in DOMAIN tab.info
      PROVE  r \in DOMAIN tab.storage[i].cells /\ Text(i) \in AllTokens
  <2>1. tab.storage[i] \in ColumnsRead /\ tab.info[i] \in Found
    BY <1>2, <1>6
  <2>2. \A c \in ColumnsRead :
          r <= Len(c.cells) => r \in DOMAIN c.cells /\ c.cells[r].text \in Tokens
    <3>1. r \in Nat /\ r >= 1
      BY <1>5
    <3> HIDE DEF r
    <3>2. \A s \in Seq(CellsRead) : r <= Len(s) => r \in DOMAIN s /\ s[r] \in CellsRead
      BY <3>1
    <3>3. \A x \in CellsRead : x.text \in Tokens
      BY DEF CellsRead
    <3>4. \A c \in ColumnsRead : c.cells \in Seq(CellsRead)
      BY DEF ColumnsRead
    <3> QED
      BY <3>2, <3>3, <3>4
  <2>3. r \in DOMAIN tab.storage[i].cells /\ tab.storage[i].cells[r].text \in Tokens
    BY <1>4, <2>1, <2>2
  <2> QED
    BY <2>1, <2>3, PrintedIsToken
<1> HIDE DEF Text
<1>7. line \in Seq(AllTokens) /\ \A i \in DOMAIN tab.info : line[i] = Text(i)
  BY <1>2, <1>6
<1> HIDE DEF line
<1>8. /\ out' \in Seq(Seq(AllTokens)) /\ out'[r] = line
      /\ \A p \in DOMAIN out : out'[p] = out[p]
      /\ \A p \in DOMAIN out' : p \in DOMAIN out \/ p = r
  BY <1>4, <1>5, <1>7, AppendGives
<1>9. tab' = tab
  BY <1>1 DEF readVars
<1>10. Written'
  <2> SUFFICES ASSUME NEW p \in DOMAIN out', NEW i \in DOMAIN tab.info
               PROVE  /\ p \in DOMAIN tab.storage[i].cells
                      /\ out'[p][i] =
                           Printed(tab.info[i], prec, tab.storage[i].cells[p].text)
    BY <1>1, <1>8, <1>9 DEF Written
  <2>1. CASE p \in DOMAIN out
    BY <1>8, <2>1 DEF Reading, Written
  <2>2. CASE p = r
    BY <1>6, <1>7, <1>8, <2>2 DEF Text
  <2> QED
    BY <1>8, <2>1, <2>2
<1> QED
  BY <1>1, <1>10, WriterKeeps DEF Reading

LEMMA EndWriteKeeps ==
  ASSUME Reading, EndWrite
  PROVE  Reading'
<1>1. /\ pc = "write" /\ pc' = "written" /\ HasTable /\ HasTable'
      /\ UNCHANGED readVars /\ UNCHANGED <<prec, out, tab>> /\ prec \in {0, 1}
  BY DEF EndWrite, HasTable, readVars, writeVars, Reading, Members
<1>2. Written'
  BY <1>1 DEF Reading, Written
<1> QED
  BY <1>1, <1>2, WriterKeeps DEF Reading

LEMMA CsvStep == CsvInv /\ [Next]_vars => CsvInv'
<1> SUFFICES ASSUME CsvInv, [Next]_vars, pc' \notin Failed
             PROVE  Reading'
  BY DEF CsvInv
<1>1. CASE UNCHANGED vars
  <2>1. Reading
    BY <1>1 DEF CsvInv, vars
  <2> QED
    BY <1>1, <2>1
       DEF vars, Reading, Members, RowsFit, Collected, Built, ToBuild, Stages, HasTable, Written
<1>2. CASE Next
  <2>1. Reading
    BY <1>2 DEF Next, ReadHead, IgnoreLine, ReadRow, EndRows, BuildColumn, Finish,
                BeginWrite, WriteRow, EndWrite, CsvInv, Failed
  <2>2. CASE ReadHead
    BY <2>1, <2>2, HeadKeeps
  <2>3. CASE IgnoreLine
    BY <2>1, <2>3, IgnoredKeeps
  <2>4. CASE \E seq \in Lines : ReadRow(seq)
    BY <2>1, <2>4, RowKeeps
  <2>5. CASE EndRows
    BY <2>1, <2>5, EndRowsKeeps
  <2>6. CASE BuildColumn
    BY <2>1, <2>6, BuildKeeps
  <2>7. CASE Finish
    BY <2>1, <2>7, FinishKeeps
  <2>8. CASE BeginWrite
    BY <2>1, <2>8, BeginWriteKeeps
  <2>9. CASE WriteRow
    BY <2>1, <2>9, WriteRowKeeps
  <2>10. CASE EndWrite
    BY <2>1, <2>10, EndWriteKeeps
  <2> QED
    BY <1>2, <2>2, <2>3, <2>4, <2>5, <2>6, <2>7, <2>8, <2>9, <2>10 DEF Next
<1> QED
  BY <1>1, <1>2

-----------------------------------------------------------------------------
(* Theorems *)

(* Of a call that has not failed: no row is wider than the columns, the    *)
(* cells of every column that all rows reach are collected in order, and   *)
(* the table has the first of the columns (table.cpp:42-79, 161-207).      *)
THEOREM CsvInvariance == Spec => []CsvInv
<1> QED
  BY CsvInit, CsvStep, PTL DEF Spec

(* Row r of a table that read_csv returns, or read_csv_auto from an even   *)
(* text, is row r of the text (table.cpp:42-79, 161-207, 377-384).         *)
THEOREM RowsAreThoseRead == Spec => []TableHoldsRows
<1> QED
  BY CsvInvariance, TablesHoldRows, PTL

(* The columns of an even text whose cells had the type of the column are  *)
(* found to have it again in what write_csv writes (table.cpp:342-357,     *)
(* container/table.cpp:167-195).                                           *)
THEOREM TypesReadBack == Spec => []WrittenReadsBack
<1> QED
  BY CsvInvariance, TextsReadBack, PTL

=============================================================================
