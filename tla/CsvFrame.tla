------------------------------ MODULE CsvFrame ------------------------------
(***************************************************************************)
(* read_csv_to_frame and write_csv for frames (io/csv/frame.cpp), with     *)
(* literal_detect and literal_cast (core/literal.cpp).  A text is read,    *)
(* the frame it gives is written, and what was written is read again with  *)
(* the types of the columns.  One action per line read, column made, row   *)
(* filled and column written.                                              *)
(*                                                                         *)
(* The text is a sequence of lines, a line the sequence of its cells, an   *)
(* empty line <<>>.  A cell is what the patterns and std::from_chars tell  *)
(* apart, after the blanks around it are trimmed:                          *)
(*   "int" 12   "plus" +12   "dbl" 1.5   "blank" nothing   "word" others   *)
(* The literals of booleans and angles are left out; their conversions are *)
(* those of CsvTable.                                                      *)
(***************************************************************************)
EXTENDS StdContainers

CONSTANTS
  Tokens,     (* the cells of the texts considered, a subset of AllTokens *)
  MaxWidth,   (* bound: cells of a line, and types given                  *)
  MaxLines    (* bound: lines of a text                                   *)

AllTokens == {"int", "plus", "dbl", "blank", "word"}
Literals == {"String", "Digital", "Integer"}

ASSUME CsvFrameAssumption ==
  Tokens \subseteq AllTokens /\ MaxWidth \in Nat \ {0} /\ MaxLines \in Nat

VARIABLES
  text,      (* the lines of the stream                                    *)
  pos,       (* how many of them have been taken                           *)
  ignore,    (* the argument ignore_first_line of the reader               *)
  detect,    (* whether the overload that detects the types was called     *)
  literals,  (* the types given, or detected                               *)
  elems,     (* the lines kept                                             *)
  df,        (* the frame: names, number of rows, columns                  *)
  row_it,    (* the next row to fill, from 0                               *)
  bare,      (* the argument ignore_first_line of the writer               *)
  out,       (* the rows of the writer                                     *)
  round,     (* 1, then 2 for the text that was written                    *)
  pc

vars == <<text, pos, ignore, detect, literals, elems, df, row_it, bare, out,
          round, pc>>

args == <<text, ignore, detect, bare, round>>

Failed == {"abort", "throw", "undefined"}
Ended == Failed \cup {"read", "write", "written"}

NoFrame == [names |-> <<>>, rows |-> 0, cols |-> <<>>]

(* Sequences over S of the given lengths. *)
SequencesOf(S, lengths) == UNION {[1..n -> S] : n \in lengths}

(* literal_detect(t) *)
LiteralOf(t) ==
  CASE t = "dbl" -> "Digital"
    [] t \in {"int", "plus"} -> "Integer"
    [] t \in {"blank", "word"} -> "String"

(* literal_cast(t, literal): whether the value is the one written, or the  *)
(* call aborts.  std::from_chars takes the longest prefix that is a number *)
(* ("inf" and "nan" are) and refuses a leading '+'.                        *)
Conversions(literal, t) ==
  CASE literal = "String" -> {"exact"}
    [] literal # "String" /\ t \in {"plus", "blank"} -> {"abort"}
    [] literal = "Digital" /\ t \in {"int", "dbl"} -> {"exact"}
    [] literal = "Digital" /\ t = "word" -> {"exact", "other", "abort"}
    [] literal = "Integer" /\ t = "int" -> {"exact"}
    [] literal = "Integer" /\ t = "dbl" -> {"other"}
    [] OTHER -> {"other", "abort"}

(* The value of a cell that is not assigned: T{}. *)
Default == [from |-> "none", exact |-> FALSE]

Init ==
  /\ text \in SequencesOf(SequencesOf(Tokens, 0..MaxWidth), 0..MaxLines)
  /\ ignore \in BOOLEAN
  /\ \/ detect = TRUE /\ literals = <<>>
     \/ detect = FALSE /\ literals \in SequencesOf(Literals, 1..MaxWidth)
  /\ pos = 0
  /\ elems = <<>>
  /\ df = NoFrame
  /\ row_it = 0
  /\ bare = FALSE
  /\ out = <<>>
  /\ round = 1
  /\ pc = IF ignore THEN "skip" ELSE "lines"

-----------------------------------------------------------------------------
(* The lines *)

(* std::getline(is, line): at the end there is nothing to take, and a line *)
(* that was empty stays so.                                                *)
NextLine == IF pos < Len(text) THEN text[pos + 1] ELSE <<>>
Consumed == IF pos < Len(text) THEN pos + 1 ELSE pos

(* Wrong variant: one line is taken before the loop, not one in each turn. *)
SkipLineOnce ==
  /\ pc = "skip"
  /\ pos = 0
  /\ pos' = Consumed
  /\ pc' = IF NextLine = <<>> THEN "skip" ELSE "lines"
  /\ UNCHANGED <<args, literals, elems, df, row_it, out>>

(* do { getline } while (line.empty()): the stream is not looked at. *)
SkipLine ==
  /\ pc = "skip"
  /\ pos' = Consumed
  /\ pc' = IF NextLine = <<>> THEN "skip" ELSE "lines"
  /\ UNCHANGED <<args, literals, elems, df, row_it, out>>

ReadLine ==
  /\ pc = "lines"
  /\ NextLine # <<>>
  /\ elems' = Append(elems, NextLine)
  /\ pos' = Consumed
  /\ UNCHANGED <<args, literals, df, row_it, out, pc>>

(* An empty line or the end; elems.at() throws when there is no such line. *)
EndLines ==
  LET typed == IF ignore THEN 1 ELSE 2 IN
  /\ pc = "lines"
  /\ NextLine = <<>>
  /\ pos' = Consumed
  /\ IF detect /\ typed \in DOMAIN elems
     THEN literals' = [i \in DOMAIN elems[typed] |-> LiteralOf(elems[typed][i])]
     ELSE UNCHANGED literals
  /\ pc' = IF detect /\ typed \notin DOMAIN elems THEN "throw" ELSE "check"
  /\ UNCHANGED <<args, elems, df, row_it, out>>

-----------------------------------------------------------------------------
(* The frame *)

SameWidths == \A r \in DOMAIN elems : Len(elems[r]) = Len(elems[1])

(* Without lines the first of them is read all the same. *)
Check ==
  /\ pc = "check"
  /\ pc' = CASE elems = <<>> -> "undefined"
             [] elems # <<>> /\ SameWidths /\ Len(literals) = Len(elems[1]) ->
                  "columns"
             [] OTHER -> "abort"
  /\ df' = [NoFrame EXCEPT !.rows = Len(elems)]
  /\ UNCHANGED <<args, pos, literals, elems, row_it, out>>

(* df.new_col(head.at(i), literals[i]); without a head the names are made  *)
(* up: COL_0, COL_1, ...                                                   *)
NewColumn ==
  LET i == Len(df.cols) + 1 IN
  /\ pc = "columns"
  /\ i \in DOMAIN literals
  /\ df' = [df EXCEPT
              !.names = Append(@, IF ignore THEN elems[1][i] ELSE "word"),
              !.cols = Append(@, [r \in 1..df.rows |-> Default])]
  /\ UNCHANGED <<args, pos, literals, elems, row_it, out, pc>>

BeginFill ==
  /\ pc = "columns"
  /\ Len(df.cols) = Len(literals)
  /\ row_it' = IF ignore THEN 1 ELSE 0
  /\ pc' = "fill"
  /\ UNCHANGED <<args, pos, literals, elems, df, out>>

(* How the conversions of a row may end when none aborts. *)
Results(row) ==
  {c \in [DOMAIN literals -> {"exact", "other"}] :
     \A i \in DOMAIN literals : c[i] \in Conversions(literals[i], row[i])}

Aborts(row) ==
  \E i \in DOMAIN literals : "abort" \in Conversions(literals[i], row[i])

AssignRow(r, row, c) ==
  df' = [df EXCEPT !.cols = [i \in DOMAIN @ |->
           [@[i] EXCEPT ![r] = [from |-> row[i], exact |-> c[i] = "exact"]]]]

(* Wrong variant: the rows of the frame are filled from its first. *)
FillRowFromTop ==
  /\ pc = "fill"
  /\ row_it < df.rows
  /\ LET row == elems[row_it + 1] IN
       \E c \in Results(row) :
         AssignRow(IF ignore THEN row_it ELSE row_it + 1, row, c)
  /\ row_it' = row_it + 1
  /\ UNCHANGED <<args, pos, literals, elems, out, pc>>

(* col.assign_at(row_it, literal_cast(...)) for every column *)
FillRow ==
  LET row == elems[row_it + 1] IN
  /\ pc = "fill"
  /\ row_it < df.rows
  /\ \/ /\ \E c \in Results(row) : AssignRow(row_it + 1, row, c)
        /\ row_it' = row_it + 1
        /\ UNCHANGED pc
     \/ /\ Aborts(row)
        /\ pc' = "abort"
        /\ UNCHANGED <<df, row_it>>
  /\ UNCHANGED <<args, pos, literals, elems, out>>

EndFill ==
  /\ pc = "fill"
  /\ row_it = df.rows
  /\ pc' = "read"
  /\ UNCHANGED <<args, pos, literals, elems, df, row_it, out>>

-----------------------------------------------------------------------------
(* write_csv(os, df, ignore_first_line(bare)) *)

inputs == <<text, pos, ignore, detect, literals, elems, df, row_it, round>>

(* What format() may print of a cell: the shortest text of its value, so   *)
(* 1.0 becomes 1 and a long number gets an exponent ("dbl" here, because   *)
(* the patterns are not asked again).                                      *)
Printed(literal, cell) ==
  IF literal = "String" THEN {IF cell.from = "none" THEN "blank" ELSE cell.from}
  ELSE IF literal = "Integer" \/ cell.from = "none" THEN {"int"}
  ELSE IF cell.from = "word" THEN {"int", "dbl", "word"}
  ELSE {"int", "dbl"}

BeginWrite ==
  /\ pc = "read"
  /\ round = 1
  /\ bare' \in BOOLEAN
  /\ out' = [r \in 1..df.rows |-> <<>>]
  /\ pc' = "write"
  /\ UNCHANGED inputs

(* A frame that was read has a row at least. *)
WriteColumn ==
  LET i == Len(out[1]) + 1 IN
  /\ pc = "write"
  /\ i \in DOMAIN df.cols
  /\ \E cells \in [1..df.rows -> AllTokens] :
       /\ \A r \in 1..df.rows : cells[r] \in Printed(literals[i], df.cols[i][r])
       /\ out' = [r \in DOMAIN out |-> Append(out[r], cells[r])]
  /\ UNCHANGED <<inputs, bare, pc>>

(* A row printed: of a single empty cell nothing is left but the newline. *)
AsLine(row) == IF row = <<"blank">> THEN <<>> ELSE row

(* Wrong variant: the names are always printed. *)
OutputNamed ==
  <<AsLine(df.names)>> \o [r \in DOMAIN out |-> AsLine(out[r])]

Output ==
  (IF bare THEN <<>> ELSE <<AsLine(df.names)>>)
    \o [r \in DOMAIN out |-> AsLine(out[r])]

EndWrite ==
  /\ pc = "write"
  /\ Len(out[1]) = Len(df.cols)
  /\ pc' = "written"
  /\ UNCHANGED <<inputs, bare, out>>

(* A program reads what it has written, giving the types of the columns. *)
Reread ==
  /\ pc = "written"
  /\ round' = 2
  /\ text' = Output
  /\ pos' = 0
  /\ ignore' \in BOOLEAN
  /\ detect' = FALSE
  /\ elems' = <<>>
  /\ df' = NoFrame
  /\ row_it' = 0
  /\ out' = <<>>
  /\ pc' = IF ignore' THEN "skip" ELSE "lines"
  /\ UNCHANGED <<literals, bare>>

Next ==
  \/ SkipLine \/ ReadLine \/ EndLines
  \/ Check \/ NewColumn \/ BeginFill \/ FillRow \/ EndFill
  \/ BeginWrite \/ WriteColumn \/ EndWrite \/ Reread

(* The functions run on: none of their steps waits for anything. *)
Spec == Init /\ [][Next]_vars /\ WF_vars(Next)

-----------------------------------------------------------------------------
(* Properties *)

(* The lines a reader is to take: those between the first non-empty line,  *)
(* when that is skipped, or the start, and the next empty line or the end. *)
Block(t, skip) ==
  LET first == IF skip THEN 1 + Least({i \in DOMAIN t : t[i] # <<>>}) ELSE 1
      stop  == Least({i \in first..Len(t) : t[i] = <<>>} \cup {Len(t) + 1})
  IN  SubSeq(t, first, stop - 1)

(* A call that returns gives a frame with one row per line of the block    *)
(* and one column per cell of a line; row r, column i comes from cell i of *)
(* line r, except that after an ignored line the first of them gives the   *)
(* names and leaves the first row at its defaults (frame.cpp:27-51,        *)
(* 112-129).                                                               *)
FrameHoldsText ==
  pc = "read" =>
    LET b == Block(text, ignore) IN
    /\ df.rows = Len(b)
    /\ \A r \in DOMAIN b :
         /\ Len(b[r]) = Len(df.cols)
         /\ \A i \in DOMAIN df.cols :
              df.cols[i][r].from = IF ignore /\ r = 1 THEN "none" ELSE b[r][i]
    /\ ignore => df.names = b[1]

(* A frame written without its names and read back with the types of its   *)
(* columns, no line ignored, keeps its shape, and no conversion fails on   *)
(* or cuts what the writer printed, unless a row of one empty string ended *)
(* the text early or a column of numbers holds an infinity or a NaN        *)
(* (frame.cpp:40-51, 155-176).                                             *)
BareTextReadsBack ==
  ( /\ round = 2 /\ bare /\ ~ignore
    /\ \A r \in DOMAIN text :
         /\ text[r] # <<>>
         /\ \A i \in DOMAIN literals :
              literals[i] # "String" => text[r][i] # "word" )
  => /\ pc \notin Failed
     /\ pc = "read" =>
          /\ df.rows = Len(text)
          /\ \A i \in DOMAIN df.cols, r \in 1..df.rows : df.cols[i][r].exact

(* The reader ends, with a frame or with a failure, unless it is to ignore *)
(* the first line of a text without any non-empty line: then the loop that *)
(* looks for one never ends (frame.cpp:112-129).                           *)
ReaderEnds ==
  [](round = 1 /\ (ignore => RangeOf(text) \ {<<>>} # {}) => <>(pc \in Ended))

=============================================================================
