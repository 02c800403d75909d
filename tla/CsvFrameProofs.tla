--------------------------- MODULE CsvFrameProofs ---------------------------
(***************************************************************************)
(* The CSV functions for frames, for texts of any length and width: the    *)
(* frame holds the block of lines it was read from, and what the writer    *)
(* prints without names is read back.                                      *)
(***************************************************************************)
EXTENDS CsvFrame, ContainerProofs

Line == Seq(AllTokens)

Cell == [from : AllTokens \cup {"none"}, exact : BOOLEAN]

Typed ==
  /\ text \in Seq(Line)
  /\ pos \in 0..Len(text)
  /\ ignore \in BOOLEAN /\ detect \in BOOLEAN /\ bare \in BOOLEAN
  /\ literals \in Seq(Literals)
  /\ elems \in Seq(Line)
  /\ round \in {1, 2}

(* The lines taken so far: those of the block, up to the first empty line. *)
EmptyLines(t) == {i \in 1..Len(t) : t[i] = <<>>}

Skipped(t, skip) == IF skip THEN Least({i \in DOMAIN t : t[i] # <<>>}) ELSE 0

LinesTaken ==
  /\ pc = "skip" =>
       /\ ignore /\ elems = <<>>
       /\ \A i \in 1..pos : i \in EmptyLines(text)
  /\ pc = "lines" =>
       LET k == Skipped(text, ignore) IN
       /\ k \in 0..pos
       /\ Len(elems) = pos - k
       /\ \A r \in DOMAIN elems : elems[r] = text[k + r] /\ k + r \notin EmptyLines(text)
  /\ pc \notin Failed \cup {"skip", "lines"} => elems = Block(text, ignore)

(* The frame: rows up to row_it are filled, an ignored line is not. *)
Making == {"columns", "fill", "read", "write", "written"}

FrameMade ==
  pc \in Making =>
    /\ DOMAIN df = {"names", "rows", "cols"}
    /\ elems # <<>> /\ df.rows = Len(elems)
    /\ \A r \in DOMAIN elems : Len(elems[r]) = Len(literals)
    /\ df.names \in Line
    /\ df.cols \in Seq([1..df.rows -> Cell])
    /\ Len(df.names) = Len(df.cols)
    /\ Len(df.cols) <= Len(literals)
    /\ ignore => \A i \in DOMAIN df.names : df.names[i] = elems[1][i]

CellFits(i, r) ==
  IF r > row_it \/ (ignore /\ r = 1)
  THEN df.cols[i][r] = Default
  ELSE /\ df.cols[i][r].from = elems[r][i]
       /\ "other" \notin Conversions(literals[i], elems[r][i]) =>
            df.cols[i][r].exact

RowsFilled ==
  /\ pc = "columns" => \A i \in DOMAIN df.cols, r \in 1..df.rows : df.cols[i][r] = Default
  /\ pc \in Making \ {"columns"} =>
       /\ Len(df.cols) = Len(literals)
       /\ row_it \in 0..df.rows /\ (ignore => row_it # 0)
       /\ pc # "fill" => row_it = df.rows
       /\ \A i \in DOMAIN df.cols, r \in 1..df.rows : CellFits(i, r)

(* What the writer may print of a column. *)
Printable(literal) ==
  CASE literal = "String" -> AllTokens
    [] literal = "Digital" -> {"int", "dbl", "word"}
    [] literal = "Integer" -> {"int"}

RowsWritten ==
  pc \in {"write", "written"} =>
    /\ out \in [1..df.rows -> Line]
    /\ \A r \in 1..df.rows :
         /\ Len(out[r]) = Len(out[1])
         /\ \A i \in 1..Len(out[1]) : out[r][i] \in Printable(literals[i])
    /\ Len(out[1]) <= Len(literals)
    /\ pc = "written" => Len(out[1]) = Len(literals)

(* The text of the second round is one the writer printed. *)
TextPrinted ==
  round = 2 =>
    /\ ~detect
    /\ bare => /\ text # <<>>
               /\ \A r \in DOMAIN text : text[r] # <<>> =>
                    /\ Len(text[r]) = Len(literals)
                    /\ \A i \in DOMAIN literals : text[r][i] \in Printable(literals[i])

(* The texts BareTextReadsBack speaks of. *)
Readable ==
  /\ round = 2 /\ bare /\ ~ignore
  /\ \A r \in DOMAIN text :
       /\ text[r] # <<>>
       /\ \A i \in DOMAIN literals :
            literals[i] # "String" => text[r][i] # "word"

CsvFrameInv ==
  /\ Typed /\ LinesTaken /\ FrameMade /\ RowsFilled /\ RowsWritten /\ TextPrinted
  /\ Readable => pc \notin Failed

-----------------------------------------------------------------------------
(* Blocks of lines *)

LEMMA SequencesAreSeq ==
  ASSUME NEW S, NEW L \in SUBSET Nat, NEW s \in SequencesOf(S, L)
  PROVE  s \in Seq(S)
<1>1. PICK n \in L : s \in [1..n -> S]
  BY DEF SequencesOf
<1> QED
  BY <1>1

LEMMA LeastIs ==
  ASSUME NEW S \in SUBSET Nat, NEW p \in S, \A i \in S : p <= i
  PROVE  Least(S) = p
<1>1. Least(S) \in S /\ Least(S) <= p
  BY LeastIsLeast
<1>2. p <= Least(S) /\ Least(S) \in Nat /\ p \in Nat
  BY <1>1
<1> QED
  BY <1>1, <1>2

LEMMA SkippedIs ==
  ASSUME NEW t \in Seq(Line), NEW p \in 1..Len(t), t[p] # <<>>,
         \A i \in 1..(p - 1) : t[i] = <<>>, NEW skip, skip
  PROVE  Skipped(t, skip) = p
<1> DEFINE S == {i \in DOMAIN t : t[i] # <<>>}
<1>1. Len(t) \in Nat /\ DOMAIN t = 1..Len(t)
  OBVIOUS
<1>2. S \in SUBSET Nat /\ p \in S /\ \A i \in S : p <= i
  BY <1>1
<1> HIDE DEF S
<1>3. Least(S) = p
  BY <1>2, LeastIs
<1> QED
  BY <1>3 DEF Skipped, S

(* A block ends before the first empty line behind its start. *)
LEMMA BlockGives ==
  ASSUME NEW t \in Seq(Line), NEW skip, NEW p \in Nat,
         NEW k \in Nat, k <= p, p <= Len(t), k = Skipped(t, skip),
         NEW E, E = EmptyLines(t),
         \A i \in (k + 1)..p : i \notin E, p = Len(t) \/ p + 1 \in E
  PROVE  /\ Block(t, skip) \in Seq(Line)
         /\ Len(Block(t, skip)) = p - k
         /\ \A r \in 1..(p - k) : Block(t, skip)[r] = t[k + r]
<1>1. Len(t) \in Nat
  OBVIOUS
<1> DEFINE S == {i \in (k + 1)..Len(t) : t[i] = <<>>} \cup {Len(t) + 1}
<1>2. S = {i \in (k + 1)..Len(t) : i \in E} \cup {Len(t) + 1}
  BY <1>1 DEF EmptyLines
<1>3. Least(S) = p + 1
  <2>1. S \in SUBSET Nat /\ p + 1 \in S /\ \A i \in S : p + 1 <= i
    BY <1>1, <1>2
  <2> HIDE DEF S
  <2> QED
    BY <2>1, LeastIs
<1>4. Block(t, skip) = SubSeq(t, k + 1, p)
  <2>1. (IF skip THEN 1 + Least({i \in DOMAIN t : t[i] # <<>>}) ELSE 1) = k + 1
    BY DEF Skipped
  <2>2. (p + 1) - 1 = p
    OBVIOUS
  <2>3. Block(t, skip) = SubSeq(t, k + 1, Least(S) - 1)
    BY <2>1 DEF Block
  <2> QED
    BY <1>3, <2>2, <2>3
<1> HIDE DEF S
<1>5. \A i \in (k + 1)..p : t[i] \in Line
  BY <1>1
<1>6. /\ SubSeq(t, k + 1, p) \in Seq(Line)
      /\ Len(SubSeq(t, k + 1, p)) = IF k + 1 <= p THEN p - (k + 1) + 1 ELSE 0
      /\ \A i \in 1..(p - (k + 1) + 1) : SubSeq(t, k + 1, p)[i] = t[(k + 1) + i - 1]
  <2>1. k + 1 \in Int /\ p \in Int
    OBVIOUS
  <2> QED
    BY <1>5, <2>1, SubSeqProperties
<1>7. /\ (IF k + 1 <= p THEN p - (k + 1) + 1 ELSE 0) = p - k
      /\ p - (k + 1) + 1 = p - k
      /\ \A i \in 1..(p - k) : (k + 1) + i - 1 = k + i
  OBVIOUS
<1> QED
  BY <1>4, <1>6, <1>7

LEMMA NextLineIs ==
  ASSUME text \in Seq(Line), pos \in 0..Len(text)
  PROVE  /\ Len(text) \in Nat /\ DOMAIN text = 1..Len(text)
         /\ pos \in Nat /\ pos <= Len(text)
         /\ Consumed \in 0..Len(text)
         /\ NextLine # <<>> =>
              /\ pos + 1 \in 1..Len(text) /\ pos + 1 \notin EmptyLines(text)
              /\ NextLine = text[pos + 1] /\ Consumed = pos + 1
              /\ NextLine \in Line
         /\ NextLine = <<>> =>
              /\ pos = Len(text) \/ pos + 1 \in EmptyLines(text)
              /\ Consumed # pos => Consumed = pos + 1 /\ pos + 1 \in EmptyLines(text)
BY DEF NextLine, Consumed, EmptyLines

-----------------------------------------------------------------------------
(* Reading *)

(* Nothing is said of the frame and what is written before there is one.   *)
LEMMA NothingMade ==
  ASSUME pc' \notin Making
  PROVE  FrameMade' /\ RowsFilled' /\ RowsWritten'
BY DEF FrameMade, RowsFilled, RowsWritten, Making

LEMMA SameText ==
  ASSUME TextPrinted, UNCHANGED <<args, literals>>
  PROVE  TextPrinted' /\ Readable' = Readable
BY DEF TextPrinted, Readable, args, Printable

LEMMA SkipLineKeeps ==
  ASSUME CsvFrameInv, SkipLine
  PROVE  CsvFrameInv'
<1>1. /\ Typed /\ LinesTaken /\ TextPrinted
      /\ text \in Seq(Line) /\ pos \in 0..Len(text)
      /\ pc = "skip" /\ UNCHANGED <<args, literals, elems>>
      /\ pos' = Consumed
      /\ pc' = IF NextLine = <<>> THEN "skip" ELSE "lines"
  BY DEF CsvFrameInv, SkipLine, Typed
<1>2. UNCHANGED <<text, ignore, detect, bare, round, literals, elems>>
  BY <1>1 DEF args
<1>3. /\ ignore /\ elems = <<>>
      /\ \A i \in 1..pos : i \in EmptyLines(text)
  BY <1>1 DEF LinesTaken
<1>4. Typed'
  BY <1>1, <1>2, NextLineIs DEF Typed
<1>5. CASE NextLine = <<>>
  <2>1. \A i \in 1..pos' : i \in EmptyLines(text)
    <3>1. pos' = pos \/ (pos' = pos + 1 /\ pos + 1 \in EmptyLines(text))
      <4>1. Consumed # pos => Consumed = pos + 1 /\ pos + 1 \in EmptyLines(text)
        BY <1>1, <1>5, NextLineIs
      <4>2. pos' = Consumed
        BY <1>1
      <4> QED
        BY <4>1, <4>2
    <3>2. pos \in Nat
      BY <1>1, NextLineIs
    <3> QED
      BY <1>3, <3>1, <3>2
  <2>2. EmptyLines(text)' = EmptyLines(text)
    BY <1>2 DEF EmptyLines
  <2>3. LinesTaken'
    BY <1>1, <1>2, <1>3, <1>5, <2>1, <2>2 DEF LinesTaken
  <2> QED
    BY <1>1, <1>4, <1>5, <2>3, NothingMade, SameText DEF CsvFrameInv, Failed, Making
<1>6. CASE NextLine # <<>>
  <2>1. /\ pos + 1 \in 1..Len(text) /\ pos + 1 \notin EmptyLines(text)
        /\ pos' = pos + 1 /\ pos \in Nat
    BY <1>1, <1>6, NextLineIs
  <2>2. text[pos + 1] # <<>> /\ \A i \in 1..((pos + 1) - 1) : text[i] = <<>>
    BY <1>3, <2>1 DEF EmptyLines
  <2>3. Skipped(text, ignore) = pos + 1
    BY <1>1, <1>3, <2>1, <2>2, SkippedIs
  <2>4. Skipped(text, ignore)' = pos'
    BY <1>2, <2>1, <2>3 DEF Skipped
  <2>5. LinesTaken'
    <3>1. Skipped(text, ignore)' \in 0..pos' /\ pos' - Skipped(text, ignore)' = 0
      BY <2>1, <2>4
    <3>2. Len(elems') = 0 /\ DOMAIN elems' = {} /\ pc' = "lines"
      BY <1>1, <1>2, <1>3, <1>6
    <3> QED
      BY <3>1, <3>2 DEF LinesTaken, Failed
  <2> QED
    BY <1>1, <1>4, <1>6, <2>5, NothingMade, SameText DEF CsvFrameInv, Failed, Making
<1> QED
  BY <1>5, <1>6

LEMMA ReadLineKeeps ==
  ASSUME CsvFrameInv, ReadLine
  PROVE  CsvFrameInv'
<1> DEFINE k == Skipped(text, ignore)
<1>1. /\ Typed /\ LinesTaken /\ TextPrinted
      /\ text \in Seq(Line) /\ pos \in 0..Len(text)
      /\ elems \in Seq(Line)
      /\ pc = "lines" /\ pc' = pc /\ UNCHANGED <<args, literals>>
      /\ NextLine # <<>> /\ elems' = Append(elems, NextLine) /\ pos' = Consumed
  BY DEF CsvFrameInv, ReadLine, Typed
<1>2. UNCHANGED <<text, ignore, detect, bare, round, literals>>
  BY <1>1 DEF args
<1>3. /\ pos + 1 \in 1..Len(text) /\ pos + 1 \notin EmptyLines(text)
      /\ pos' = pos + 1 /\ pos \in Nat
      /\ NextLine = text[pos + 1] /\ NextLine \in Line
      /\ pos' \in 0..Len(text)
  BY <1>1, NextLineIs
<1>4. /\ k \in 0..pos /\ Len(elems) = pos - k
      /\ \A r \in DOMAIN elems : elems[r] = text[k + r] /\ k + r \notin EmptyLines(text)
  BY <1>1 DEF LinesTaken
<1>5. /\ elems' \in Seq(Line) /\ Len(elems') = Len(elems) + 1
      /\ DOMAIN elems' = 1..(Len(elems) + 1)
      /\ elems'[Len(elems) + 1] = NextLine
      /\ \A r \in 1..Len(elems) : elems'[r] = elems[r]
      /\ DOMAIN elems = 1..Len(elems)
  BY <1>1, <1>3, AppendGives
<1>6. Typed'
  BY <1>1, <1>2, <1>3, <1>5 DEF Typed
<1>7. k' = k /\ EmptyLines(text)' = EmptyLines(text)
  BY <1>2 DEF Skipped, EmptyLines
<1> HIDE DEF k
<1>8. ASSUME NEW r \in DOMAIN elems'
      PROVE  elems'[r] = text[k + r] /\ k + r \notin EmptyLines(text)
  <2>1. CASE r = Len(elems) + 1
    <3>1. k + r = pos + 1
      BY <1>3, <1>4, <2>1
    <3> QED
      BY <1>3, <1>5, <2>1, <3>1
  <2>2. CASE r # Len(elems) + 1
    <3>1. r \in 1..Len(elems)
      BY <1>4, <1>3, <1>5, <2>2
    <3> QED
      BY <1>4, <1>5, <3>1
  <2> QED
    BY <2>1, <2>2
<1>9. k \in 0..pos' /\ Len(elems') = pos' - k
  BY <1>3, <1>4, <1>5
<1>10. LinesTaken'
  BY <1>1, <1>2, <1>7, <1>8, <1>9 DEF LinesTaken, Failed, k
<1> QED
  BY <1>1, <1>6, <1>10, NothingMade, SameText DEF CsvFrameInv, Failed, Making

(* A text the writer printed is a block of its own, and its cells convert. *)
LEMMA ReadableBlock ==
  ASSUME Typed, TextPrinted, Readable, elems = Block(text, ignore)
  PROVE  /\ elems = text /\ elems # <<>>
         /\ \A r \in DOMAIN elems :
              /\ Len(elems[r]) = Len(literals)
              /\ \A i \in DOMAIN literals :
                   Conversions(literals[i], elems[r][i]) = {"exact"}
<1>1. /\ text \in Seq(Line) /\ elems \in Seq(Line) /\ literals \in Seq(Literals)
      /\ bare /\ ~ignore /\ text # <<>>
      /\ Len(text) \in Nat /\ DOMAIN text = 1..Len(text)
  BY DEF Typed, TextPrinted, Readable
<1>2. ASSUME NEW r \in DOMAIN text
      PROVE  /\ text[r] # <<>> /\ Len(text[r]) = Len(literals)
             /\ \A i \in DOMAIN literals :
                  /\ text[r][i] \in Printable(literals[i])
                  /\ literals[i] # "String" => text[r][i] # "word"
  BY DEF TextPrinted, Readable
<1>3. Skipped(text, ignore) = 0
  BY <1>1 DEF Skipped
<1>4. EmptyLines(text) = {}
  BY <1>1, <1>2 DEF EmptyLines
<1>5. /\ Len(elems) = Len(text)
      /\ \A r \in 1..Len(text) : elems[r] = text[r]
  <2> DEFINE p == Len(text)
             B == Block(text, ignore)
  <2>1. p \in Nat /\ 0 <= p /\ p <= Len(text)
    BY <1>1
  <2>2. /\ B \in Seq(Line) /\ Len(B) = p - 0
        /\ \A r \in 1..(p - 0) : B[r] = text[0 + r]
    BY <1>1, <1>3, <1>4, <2>1, BlockGives
  <2> HIDE DEF B
  <2>3. p - 0 = p /\ \A r \in 1..p : 0 + r = r
    BY <2>1
  <2>4. elems = B
    BY DEF B
  <2> QED
    BY <2>2, <2>3, <2>4
<1>6. elems = text
  BY <1>1, <1>5, SeqEqual
<1>7. ASSUME NEW r \in DOMAIN text, NEW i \in DOMAIN literals
      PROVE  Conversions(literals[i], text[r][i]) = {"exact"}
  <2>1. literals[i] \in Literals
    BY <1>1
  <2>2. CASE literals[i] = "String"
    BY <2>2 DEF Conversions
  <2>3. CASE literals[i] = "Digital"
    <3>1. text[r][i] \in {"int", "dbl"}
      BY <1>2, <2>3 DEF Printable
    <3> QED
      BY <2>3, <3>1 DEF Conversions
  <2>4. CASE literals[i] = "Integer"
    <3>1. text[r][i] = "int"
      BY <1>2, <2>4 DEF Printable
    <3> QED
      BY <2>4, <3>1 DEF Conversions
  <2> QED
    BY <2>1, <2>2, <2>3, <2>4 DEF Literals
<1>8. \A r \in DOMAIN text :
        /\ Len(text[r]) = Len(literals)
        /\ \A i \in DOMAIN literals :
             Conversions(literals[i], text[r][i]) = {"exact"}
  BY <1>2, <1>7
<1>9. elems = text /\ elems # <<>>
  BY <1>1, <1>6
<1>10. ASSUME NEW r \in DOMAIN elems
       PROVE  /\ Len(elems[r]) = Len(literals)
              /\ \A i \in DOMAIN literals :
                   Conversions(literals[i], elems[r][i]) = {"exact"}
  <2>1. r \in DOMAIN text /\ elems[r] = text[r]
    BY <1>6
  <2> QED
    BY <1>8, <2>1
<1> QED
  BY <1>9, <1>10

LEMMA EndLinesKeeps ==
  ASSUME CsvFrameInv, EndLines
  PROVE  CsvFrameInv'
<1> DEFINE k == Skipped(text, ignore)
           typed == IF ignore THEN 1 ELSE 2
<1>1. /\ Typed /\ LinesTaken /\ TextPrinted
      /\ text \in Seq(Line) /\ pos \in 0..Len(text) /\ elems \in Seq(Line)
      /\ pc = "lines" /\ NextLine = <<>>
  BY DEF CsvFrameInv, EndLines, Typed
<1>2. /\ UNCHANGED <<args, elems>> /\ pos' = Consumed
      /\ pc' = IF detect /\ typed \notin DOMAIN elems THEN "throw" ELSE "check"
      /\ IF detect /\ typed \in DOMAIN elems
         THEN literals' = [i \in DOMAIN elems[typed] |-> LiteralOf(elems[typed][i])]
         ELSE UNCHANGED literals
  BY DEF EndLines
<1>3. UNCHANGED <<text, ignore, detect, bare, round, elems>>
  BY <1>2 DEF args
<1>4. /\ k \in 0..pos /\ Len(elems) = pos - k
      /\ \A r \in DOMAIN elems : elems[r] = text[k + r] /\ k + r \notin EmptyLines(text)
  BY <1>1 DEF LinesTaken
<1>5. /\ pos \in Nat /\ pos <= Len(text) /\ Len(text) \in Nat
      /\ pos = Len(text) \/ pos + 1 \in EmptyLines(text)
      /\ Consumed \in 0..Len(text)
  BY <1>1, NextLineIs
<1>6. elems = Block(text, ignore)
  <2> DEFINE B == Block(text, ignore)
  <2> HIDE DEF k
  <2>1. k \in Nat /\ k <= pos
    BY <1>4, <1>5
  <2>2. DOMAIN elems = 1..(pos - k)
    BY <1>1, <1>4
  <2>3. \A i \in (k + 1)..pos : i \notin EmptyLines(text)
    <3>1. \A i \in (k + 1)..pos : i - k \in 1..(pos - k) /\ k + (i - k) = i
      BY <1>5, <2>1
    <3> QED
      BY <1>4, <2>2, <3>1
  <2>4. /\ B \in Seq(Line) /\ Len(B) = pos - k
        /\ \A r \in 1..(pos - k) : B[r] = text[k + r]
    BY <1>1, <1>5, <2>1, <2>3, BlockGives DEF k
  <2> HIDE DEF B
  <2>5. Len(B) = Len(elems) /\ \A r \in 1..Len(elems) : elems[r] = B[r]
    BY <1>4, <2>2, <2>4
  <2>6. elems = B
    BY <1>1, <2>4, <2>5, SeqEqual
  <2> QED
    BY <2>6 DEF B
<1>7. literals' \in Seq(Literals)
  <2>1. CASE detect /\ typed \in DOMAIN elems
    <3>1. PICK row \in Line : literals' = [i \in DOMAIN row |-> LiteralOf(row[i])]
      BY <1>1, <1>2, <2>1
    <3>2. \A t \in AllTokens : LiteralOf(t) \in Literals
      BY DEF AllTokens, LiteralOf, Literals
    <3>3. /\ Len(row) \in Nat /\ DOMAIN row = 1..Len(row)
          /\ \A i \in 1..Len(row) : row[i] \in AllTokens
      BY DEF Line
    <3> QED
      BY <3>1, <3>2, <3>3
  <2>2. CASE ~ (detect /\ typed \in DOMAIN elems)
    BY <1>1, <1>2, <2>2 DEF Typed
  <2> QED
    BY <2>1, <2>2
<1>8. Typed'
  BY <1>1, <1>2, <1>3, <1>5, <1>7 DEF Typed
<1>9. pc' \in {"throw", "check"}
  BY <1>2
<1>10. LinesTaken'
  <2>1. elems' = Block(text, ignore)'
    BY <1>3, <1>6
  <2> QED
    BY <1>9, <2>1 DEF LinesTaken
<1>11. round = 2 => UNCHANGED literals /\ pc' = "check"
  BY <1>1, <1>2 DEF TextPrinted
<1>12. TextPrinted'
  BY <1>1, <1>3, <1>11 DEF TextPrinted, Printable
<1>13. Readable' => pc' \notin Failed
  BY <1>3, <1>11 DEF Readable, Failed
<1>14. pc' \notin Making
  BY <1>9 DEF Making
<1> QED
  BY <1>8, <1>10, <1>12, <1>13, <1>14, NothingMade DEF CsvFrameInv

LEMMA CheckKeeps ==
  ASSUME CsvFrameInv, Check
  PROVE  CsvFrameInv'
<1>1. /\ Typed /\ LinesTaken /\ TextPrinted
      /\ text \in Seq(Line) /\ elems \in Seq(Line) /\ literals \in Seq(Literals)
      /\ pc = "check" /\ elems = Block(text, ignore)
      /\ Readable => pc \notin Failed
  BY DEF CsvFrameInv, Check, Typed, LinesTaken, Failed
<1>2. /\ UNCHANGED <<args, pos, literals, elems>>
      /\ df' = [NoFrame EXCEPT !.rows = Len(elems)]
  BY DEF Check
<1>3. UNCHANGED <<text, ignore, detect, bare, round, pos, literals, elems>>
  BY <1>2 DEF args
<1>4. Typed' /\ TextPrinted' /\ Readable' = Readable
  BY <1>1, <1>2, <1>3, SameText DEF Typed
<1>5. /\ pc' \in {"undefined", "columns", "abort"}
      /\ (pc' = "columns") <=>
           elems # <<>> /\ SameWidths /\ Len(literals) = Len(elems[1])
  BY DEF Check
<1>6. LinesTaken'
  <2>1. elems' = Block(text, ignore)'
    BY <1>1, <1>3
  <2> QED
    BY <1>5, <2>1 DEF LinesTaken
<1>7. Readable => pc' = "columns"
  <2> SUFFICES ASSUME Readable
               PROVE  elems # <<>> /\ SameWidths /\ Len(literals) = Len(elems[1])
    BY <1>5
  <2>1. elems # <<>> /\ \A r \in DOMAIN elems : Len(elems[r]) = Len(literals)
    BY <1>1, ReadableBlock
  <2>2. 1 \in DOMAIN elems
    BY <1>1, <2>1
  <2> QED
    BY <2>1, <2>2 DEF SameWidths
<1>8. CASE pc' = "columns"
  <2>1. /\ elems # <<>>
        /\ \A r \in DOMAIN elems : Len(elems[r]) = Len(literals)
    BY <1>5, <1>8 DEF SameWidths
  <2>2. /\ DOMAIN df' = {"names", "rows", "cols"}
        /\ df'.rows = Len(elems) /\ df'.names = <<>> /\ df'.cols = <<>>
    BY <1>2 DEF NoFrame
  <2>3. df'.names \in Line /\ df'.cols \in Seq([1..df'.rows -> Cell])
    BY <2>2 DEF Line
  <2>4. Len(literals) \in Nat
    BY <1>1
  <2>5. FrameMade'
    BY <1>3, <2>1, <2>2, <2>3, <2>4 DEF FrameMade
  <2>6. RowsFilled' /\ RowsWritten'
    BY <1>8, <2>2 DEF RowsFilled, RowsWritten, Making
  <2> QED
    BY <1>4, <1>6, <1>8, <2>5, <2>6 DEF CsvFrameInv, Failed
<1>9. CASE pc' # "columns"
  <2>1. pc' \notin Making
    BY <1>5, <1>9 DEF Making
  <2> QED
    BY <1>4, <1>6, <1>7, <1>9, <2>1, NothingMade DEF CsvFrameInv
<1> QED
  BY <1>8, <1>9


-----------------------------------------------------------------------------
(* Making the frame *)

(* What the steps that work on the frame leave alone. *)
LEMMA MakingSame ==
  ASSUME CsvFrameInv, pc \in Making, UNCHANGED <<args, pos, literals, elems>>,
         pc' \in Making \cup Failed, Readable => pc' \notin Failed
  PROVE  /\ Typed' /\ LinesTaken' /\ TextPrinted' /\ (Readable' => pc' \notin Failed)
         /\ UNCHANGED <<text, ignore, literals, elems, round>>
<1>1. Typed /\ LinesTaken /\ TextPrinted
  BY DEF CsvFrameInv
<1>2. UNCHANGED <<text, ignore, detect, bare, round, pos, literals, elems>>
  BY DEF args
<1>3. Typed'
  BY <1>1, <1>2 DEF Typed
<1>4. LinesTaken'
  <2>1. elems = Block(text, ignore)
    BY <1>1 DEF LinesTaken, Making, Failed
  <2>2. elems' = Block(text, ignore)'
    BY <1>2, <2>1
  <2>3. pc' \notin {"skip", "lines"}
    BY DEF Making, Failed
  <2> QED
    BY <2>2, <2>3 DEF LinesTaken
<1> QED
  BY <1>1, <1>2, <1>3, <1>4, SameText

LEMMA MadeGives ==
  ASSUME CsvFrameInv, pc \in Making
  PROVE  /\ literals \in Seq(Literals) /\ elems \in Seq(Line)
         /\ Len(literals) \in Nat /\ DOMAIN literals = 1..Len(literals)
         /\ Len(elems) \in Nat /\ DOMAIN elems = 1..Len(elems)
         /\ 1 \in DOMAIN elems
         /\ DOMAIN df = {"names", "rows", "cols"}
         /\ df.rows = Len(elems) /\ df.rows \in Nat
         /\ \A r \in DOMAIN elems :
              /\ Len(elems[r]) = Len(literals)
              /\ \A i \in DOMAIN literals : elems[r][i] \in AllTokens
         /\ df.names \in Line /\ df.cols \in Seq([1..df.rows -> Cell])
         /\ Len(df.cols) \in Nat /\ DOMAIN df.cols = 1..Len(df.cols)
         /\ DOMAIN df.names = 1..Len(df.cols)
         /\ Len(df.names) = Len(df.cols) /\ Len(df.cols) <= Len(literals)
         /\ \A i \in DOMAIN df.cols : df.cols[i] \in [1..df.rows -> Cell]
         /\ ignore => \A i \in DOMAIN df.names : df.names[i] = elems[1][i]
<1>1. /\ literals \in Seq(Literals) /\ elems \in Seq(Line)
      /\ DOMAIN df = {"names", "rows", "cols"}
      /\ elems # <<>> /\ df.rows = Len(elems)
      /\ \A r \in DOMAIN elems : Len(elems[r]) = Len(literals)
      /\ df.names \in Line
      /\ df.cols \in Seq([1..df.rows -> Cell])
      /\ Len(df.names) = Len(df.cols)
      /\ Len(df.cols) <= Len(literals)
      /\ ignore => \A i \in DOMAIN df.names : df.names[i] = elems[1][i]
  BY DEF CsvFrameInv, Typed, FrameMade
<1>2. /\ Len(literals) \in Nat /\ DOMAIN literals = 1..Len(literals)
      /\ Len(elems) \in Nat /\ DOMAIN elems = 1..Len(elems)
      /\ 1 \in DOMAIN elems /\ df.rows \in Nat
  BY <1>1
<1>3. Len(df.cols) \in Nat /\ DOMAIN df.cols = 1..Len(df.cols)
      /\ \A i \in DOMAIN df.cols : df.cols[i] \in [1..df.rows -> Cell]
  BY <1>1
<1>4. DOMAIN df.names = 1..Len(df.names)
  BY <1>1 DEF Line
<1>5. ASSUME NEW r \in DOMAIN elems, NEW i \in DOMAIN literals
      PROVE  elems[r][i] \in AllTokens
  <2>1. elems[r] \in Seq(AllTokens)
    BY <1>1 DEF Line
  <2>2. DOMAIN elems[r] = DOMAIN literals
    BY <1>1, <1>2, <2>1
  <2> QED
    BY <2>1, <2>2
<1> QED
  BY <1>1, <1>2, <1>3, <1>4, <1>5

LEMMA NewColumnKeeps ==
  ASSUME CsvFrameInv, NewColumn
  PROVE  CsvFrameInv'
<1> DEFINE n == Len(df.cols)
           name == IF ignore THEN elems[1][n + 1] ELSE "word"
           col == [r \in 1..df.rows |-> Default]
<1>1. /\ pc = "columns" /\ pc' = pc
      /\ UNCHANGED <<args, pos, literals, elems>>
      /\ n + 1 \in DOMAIN literals
      /\ df' = [df EXCEPT !.names = Append(@, name), !.cols = Append(@, col)]
  BY DEF NewColumn
<1>2. pc \in Making /\ pc' \in Making /\ pc' \notin Failed
  BY <1>1 DEF Making, Failed
<1>3. /\ Typed' /\ LinesTaken' /\ TextPrinted' /\ (Readable' => pc' \notin Failed)
      /\ UNCHANGED <<text, ignore, literals, elems>>
  BY <1>1, <1>2, MakingSame
<1>4. /\ literals \in Seq(Literals) /\ elems \in Seq(Line)
      /\ Len(literals) \in Nat /\ DOMAIN literals = 1..Len(literals)
      /\ 1 \in DOMAIN elems
      /\ DOMAIN df = {"names", "rows", "cols"}
      /\ df.rows = Len(elems) /\ df.rows \in Nat
      /\ \A r \in DOMAIN elems :
           /\ Len(elems[r]) = Len(literals)
           /\ \A i \in DOMAIN literals : elems[r][i] \in AllTokens
      /\ df.names \in Seq(AllTokens) /\ df.cols \in Seq([1..df.rows -> Cell])
      /\ n \in Nat /\ DOMAIN df.cols = 1..n
      /\ DOMAIN df.names = 1..n
      /\ Len(df.names) = n
      /\ ignore => \A i \in DOMAIN df.names : df.names[i] = elems[1][i]
  BY <1>2, MadeGives DEF Line
<1>5. Default \in Cell /\ name \in AllTokens
  BY <1>1, <1>4 DEF Default, Cell, AllTokens
<1>6. col \in [1..df.rows -> Cell] /\ \A r \in 1..df.rows : col[r] = Default
  BY <1>5
<1> HIDE DEF col
<1>7. /\ DOMAIN df' = {"names", "rows", "cols"} /\ df'.rows = df.rows
      /\ df'.names = Append(df.names, name) /\ df'.cols = Append(df.cols, col)
  BY <1>1, <1>4
<1>8. ignore => name = elems[1][n + 1]
  OBVIOUS
<1> HIDE DEF name
<1>9. /\ df'.cols \in Seq([1..df.rows -> Cell]) /\ Len(df'.cols) = n + 1
      /\ DOMAIN df'.cols = 1..(n + 1)
      /\ df'.cols[n + 1] = col
      /\ \A i \in 1..n : df'.cols[i] = df.cols[i]
  BY <1>4, <1>6, <1>7, AppendGives
<1>10. /\ df'.names \in Seq(AllTokens) /\ Len(df'.names) = n + 1
       /\ DOMAIN df'.names = 1..(n + 1)
       /\ df'.names[n + 1] = name
       /\ \A i \in 1..n : df'.names[i] = df.names[i]
  BY <1>4, <1>5, <1>7, AppendGives
<1>11. \A i \in 1..(n + 1) : i \in 1..n \/ i = n + 1
  BY <1>4
<1>12. FrameMade'
  <2>1. elems # <<>>
    BY <1>4
  <2>2. ignore => \A i \in DOMAIN df'.names : df'.names[i] = elems[1][i]
    BY <1>4, <1>8, <1>10, <1>11
  <2>3. n + 1 <= Len(literals)
    BY <1>1, <1>4
  <2> QED
    BY <1>3, <1>4, <1>7, <1>9, <1>10, <2>1, <2>2, <2>3 DEF FrameMade, Line
<1>13. RowsFilled'
  <2>1. \A i \in DOMAIN df.cols, r \in 1..df.rows : df.cols[i][r] = Default
    BY <1>1 DEF CsvFrameInv, RowsFilled
  <2>2. \A i \in DOMAIN df'.cols, r \in 1..df'.rows : df'.cols[i][r] = Default
    BY <1>4, <1>6, <1>7, <1>9, <1>11, <2>1
  <2> QED
    BY <1>1, <2>2 DEF RowsFilled, Making
<1>14. RowsWritten'
  BY <1>1 DEF RowsWritten
<1> QED
  BY <1>3, <1>12, <1>13, <1>14 DEF CsvFrameInv

LEMMA BeginFillKeeps ==
  ASSUME CsvFrameInv, BeginFill
  PROVE  CsvFrameInv'
<1>1. /\ pc = "columns" /\ pc' = "fill"
      /\ Len(df.cols) = Len(literals)
      /\ row_it' = IF ignore THEN 1 ELSE 0
      /\ UNCHANGED <<args, pos, literals, elems>> /\ UNCHANGED df
  BY DEF BeginFill
<1>2. pc \in Making /\ pc' \in Making /\ pc' \notin Failed
  BY <1>1 DEF Making, Failed
<1>3. /\ Typed' /\ LinesTaken' /\ TextPrinted' /\ (Readable' => pc' \notin Failed)
      /\ UNCHANGED <<text, ignore, literals, elems>>
  BY <1>1, <1>2, MakingSame
<1>4. df.rows \in Nat /\ 1 <= df.rows
  BY <1>2, MadeGives
<1>5. FrameMade'
  BY <1>1, <1>2, <1>3 DEF CsvFrameInv, FrameMade
<1>6. ASSUME NEW i \in DOMAIN df'.cols, NEW r \in 1..df'.rows
      PROVE  CellFits(i, r)'
  <2>1. df'.cols[i][r] = Default
    BY <1>1 DEF CsvFrameInv, RowsFilled
  <2>2. r > row_it' \/ (ignore' /\ r = 1)
    BY <1>1, <1>3, <1>4
  <2> QED
    BY <2>1, <2>2 DEF CellFits
<1>7. row_it' \in 0..df'.rows /\ (ignore' => row_it' # 0)
  BY <1>1, <1>3, <1>4
<1>8. RowsFilled'
  BY <1>1, <1>3, <1>6, <1>7 DEF RowsFilled
<1>9. RowsWritten'
  BY <1>1 DEF RowsWritten
<1> QED
  BY <1>3, <1>5, <1>8, <1>9 DEF CsvFrameInv


(* A row filled, when no conversion of it aborts. *)
LEMMA RowFilled ==
  ASSUME CsvFrameInv, pc = "fill", row_it < df.rows,
         UNCHANGED <<args, pos, literals, elems, pc>>,
         NEW c \in Results(elems[row_it + 1]),
         AssignRow(row_it + 1, elems[row_it + 1], c), row_it' = row_it + 1
  PROVE  CsvFrameInv'
<1> DEFINE s == row_it + 1
           row == elems[s]
           cell(i) == [from |-> row[i], exact |-> c[i] = "exact"]
<1>1. pc \in Making /\ pc' \in Making /\ pc' \notin Failed
  BY DEF Making, Failed
<1>2. /\ Typed' /\ LinesTaken' /\ TextPrinted' /\ (Readable' => pc' \notin Failed)
      /\ UNCHANGED <<text, ignore, literals, elems>>
  BY <1>1, MakingSame
<1>3. /\ literals \in Seq(Literals) /\ DOMAIN literals = 1..Len(literals)
      /\ DOMAIN elems = 1..Len(elems)
      /\ DOMAIN df = {"names", "rows", "cols"}
      /\ df.rows = Len(elems) /\ df.rows \in Nat
      /\ \A r \in DOMAIN elems :
           /\ Len(elems[r]) = Len(literals)
           /\ \A i \in DOMAIN literals : elems[r][i] \in AllTokens
      /\ df.cols \in Seq([1..df.rows -> Cell])
      /\ Len(df.cols) \in Nat /\ DOMAIN df.cols = 1..Len(df.cols)
      /\ \A i \in DOMAIN df.cols : df.cols[i] \in [1..df.rows -> Cell]
  BY <1>1, MadeGives
<1>4. /\ Len(df.cols) = Len(literals)
      /\ row_it \in 0..df.rows /\ (ignore => row_it # 0)
      /\ \A i \in DOMAIN df.cols, r \in 1..df.rows : CellFits(i, r)
  BY DEF CsvFrameInv, RowsFilled, Making
<1>5. s \in 1..df.rows /\ s \in DOMAIN elems /\ row_it \in Nat /\ (ignore => s # 1)
  BY <1>3, <1>4
<1>6. DOMAIN df.cols = DOMAIN literals
  BY <1>3, <1>4
<1>7. /\ DOMAIN df' = DOMAIN df /\ df'.rows = df.rows /\ df'.names = df.names
      /\ df'.cols = [i \in DOMAIN df.cols |-> [df.cols[i] EXCEPT ![s] = cell(i)]]
  BY <1>3 DEF AssignRow
<1>8. ASSUME NEW i \in DOMAIN df.cols
      PROVE  /\ cell(i) \in Cell /\ cell(i).from = elems[s][i]
             /\ "other" \notin Conversions(literals[i], elems[s][i]) => cell(i).exact
  <2>1. row[i] \in AllTokens
    BY <1>3, <1>5, <1>6
  <2>2. c[i] \in {"exact", "other"} /\ c[i] \in Conversions(literals[i], row[i])
    BY <1>6 DEF Results
  <2>3. cell(i) \in Cell
    BY <2>1 DEF Cell
  <2>4. cell(i).from = elems[s][i] /\ cell(i).exact = (c[i] = "exact")
    OBVIOUS
  <2> QED
    BY <2>2, <2>3, <2>4
<1> HIDE DEF cell, s, row
<1>9. /\ DOMAIN df'.cols = DOMAIN df.cols
      /\ \A i \in DOMAIN df.cols :
           /\ df'.cols[i] \in [1..df.rows -> Cell]
           /\ df'.cols[i][s] = cell(i)
           /\ \A r \in 1..df.rows : r # s => df'.cols[i][r] = df.cols[i][r]
  BY <1>3, <1>5, <1>7, <1>8
<1>10. df'.cols \in Seq([1..df.rows -> Cell]) /\ Len(df'.cols) = Len(df.cols)
  <2>1. df'.cols \in [1..Len(df.cols) -> [1..df.rows -> Cell]]
    BY <1>3, <1>7, <1>9
  <2> DEFINE X == [1..df.rows -> Cell]
             n == Len(df.cols)
             f == df'.cols
  <2>2. n \in Nat /\ f \in [1..n -> X]
    BY <1>3, <2>1
  <2> HIDE DEF X, n, f
  <2>3. f \in Seq(X) /\ Len(f) = n
    BY <2>2
  <2> QED
    BY <2>3 DEF X, n, f
<1>11. FrameMade'
  BY <1>1, <1>2, <1>7, <1>10 DEF CsvFrameInv, FrameMade
<1>12. ASSUME NEW i \in DOMAIN df'.cols, NEW r \in 1..df'.rows
       PROVE  CellFits(i, r)'
  <2>1. CellFits(i, r) /\ i \in DOMAIN df.cols /\ r \in 1..df.rows
    BY <1>4, <1>7, <1>9
  <2>2. CASE r = s
    <3>1. ~ (r > row_it' \/ (ignore' /\ r = 1))
      BY <1>2, <1>5, <2>2 DEF s
    <3>2. /\ df'.cols[i][r].from = elems[r][i]
          /\ "other" \notin Conversions(literals[i], elems[r][i]) => df'.cols[i][r].exact
      BY <1>8, <1>9, <2>1, <2>2
    <3> QED
      BY <1>2, <3>1, <3>2 DEF CellFits
  <2>3. CASE r # s
    <3>1. r > row_it' <=> r > row_it
      BY <1>5, <2>1, <2>3 DEF s
    <3>2. df'.cols[i][r] = df.cols[i][r]
      BY <1>9, <2>1, <2>3
    <3> QED
      BY <1>2, <2>1, <3>1, <3>2 DEF CellFits
  <2> QED
    BY <2>2, <2>3
<1>13. row_it' \in 0..df'.rows /\ (ignore' => row_it' # 0)
  BY <1>2, <1>3, <1>5, <1>7 DEF s
<1>14. RowsFilled'
  BY <1>2, <1>4, <1>10, <1>12, <1>13 DEF RowsFilled
<1>15. RowsWritten'
  BY DEF RowsWritten
<1> QED
  BY <1>2, <1>11, <1>14, <1>15 DEF CsvFrameInv

LEMMA FillRowKeeps ==
  ASSUME CsvFrameInv, FillRow
  PROVE  CsvFrameInv'
<1>1. /\ pc = "fill" /\ row_it < df.rows
      /\ UNCHANGED <<args, pos, literals, elems>>
  BY DEF FillRow
<1>2. CASE /\ \E c \in Results(elems[row_it + 1]) :
                AssignRow(row_it + 1, elems[row_it + 1], c)
           /\ row_it' = row_it + 1
           /\ UNCHANGED pc
  BY <1>1, <1>2, RowFilled
<1>3. CASE Aborts(elems[row_it + 1]) /\ pc' = "abort"
  <2>1. pc \in Making /\ pc' \in Failed /\ pc' \notin Making
    BY <1>1, <1>3 DEF Making, Failed
  <2>2. ~Readable
    <3> SUFFICES ASSUME Readable PROVE FALSE
      OBVIOUS
    <3>1. Typed /\ TextPrinted /\ elems = Block(text, ignore)
      BY <1>1 DEF CsvFrameInv, LinesTaken, Failed
    <3>2. row_it \in 0..df.rows
      BY <1>1 DEF CsvFrameInv, RowsFilled, Making
    <3>3. df.rows = Len(elems) /\ DOMAIN elems = 1..Len(elems) /\ Len(elems) \in Nat
      BY <2>1, MadeGives
    <3>4. row_it + 1 \in DOMAIN elems
      BY <1>1, <3>2, <3>3
    <3>5. \A i \in DOMAIN literals :
            Conversions(literals[i], elems[row_it + 1][i]) = {"exact"}
      BY <3>1, <3>4, ReadableBlock
    <3> QED
      BY <1>3, <3>5 DEF Aborts
  <2> QED
    BY <1>1, <2>1, <2>2, MakingSame, NothingMade DEF CsvFrameInv
<1> QED
  BY <1>2, <1>3 DEF FillRow

LEMMA EndFillKeeps ==
  ASSUME CsvFrameInv, EndFill
  PROVE  CsvFrameInv'
<1>1. /\ pc = "fill" /\ row_it = df.rows /\ pc' = "read"
      /\ UNCHANGED <<args, pos, literals, elems, df, row_it>>
  BY DEF EndFill
<1>2. pc \in Making /\ pc' \in Making /\ pc' \notin Failed
  BY <1>1 DEF Making, Failed
<1>3. /\ Typed' /\ LinesTaken' /\ TextPrinted' /\ (Readable' => pc' \notin Failed)
      /\ UNCHANGED <<text, ignore, literals, elems>>
  BY <1>1, <1>2, MakingSame
<1>4. FrameMade'
  BY <1>1, <1>2, <1>3 DEF CsvFrameInv, FrameMade
<1>5. RowsFilled'
  BY <1>1, <1>2, <1>3 DEF CsvFrameInv, RowsFilled, CellFits
<1>6. RowsWritten'
  BY <1>1 DEF RowsWritten
<1> QED
  BY <1>3, <1>4, <1>5, <1>6 DEF CsvFrameInv


-----------------------------------------------------------------------------
(* Writing *)

LEMMA PrintedIsPrintable ==
  ASSUME NEW literal \in Literals, NEW cell \in Cell, NEW t \in Printed(literal, cell)
  PROVE  t \in Printable(literal)
<1>1. cell.from \in AllTokens \cup {"none"}
  BY DEF Cell
<1>2. CASE literal = "String"
  BY <1>1, <1>2 DEF Printed, Printable, AllTokens
<1>3. CASE literal = "Digital"
  BY <1>3 DEF Printed, Printable
<1>4. CASE literal = "Integer"
  BY <1>4 DEF Printed, Printable
<1> QED
  BY <1>2, <1>3, <1>4 DEF Literals

(* The steps of the writer leave the frame alone. *)
LEMMA FrameSame ==
  ASSUME CsvFrameInv, UNCHANGED <<ignore, literals, elems, df, row_it>>,
         pc \in Making \ {"columns", "fill"}, pc' \in Making \ {"columns", "fill"}
  PROVE  FrameMade' /\ RowsFilled'
<1>1. FrameMade'
  BY DEF CsvFrameInv, FrameMade
<1>2. \A i \in DOMAIN df.cols, r \in 1..df.rows : CellFits(i, r)' <=> CellFits(i, r)
  BY DEF CellFits
<1>3. RowsFilled'
  BY <1>2 DEF CsvFrameInv, RowsFilled
<1> QED
  BY <1>1, <1>3

LEMMA BeginWriteKeeps ==
  ASSUME CsvFrameInv, BeginWrite
  PROVE  CsvFrameInv'
<1>1. /\ pc = "read" /\ round = 1 /\ bare' \in BOOLEAN /\ pc' = "write"
      /\ out' = [r \in 1..df.rows |-> <<>>]
      /\ UNCHANGED <<text, pos, ignore, detect, literals, elems, df, row_it, round>>
  BY DEF BeginWrite, inputs
<1>2. Typed /\ LinesTaken
  BY DEF CsvFrameInv
<1>3. Typed'
  BY <1>1, <1>2 DEF Typed
<1>4. LinesTaken'
  <2>1. elems = Block(text, ignore)
    BY <1>1, <1>2 DEF LinesTaken, Failed
  <2>2. elems' = Block(text, ignore)'
    BY <1>1, <2>1
  <2> QED
    BY <1>1, <2>2 DEF LinesTaken
<1>5. FrameMade' /\ RowsFilled'
  BY <1>1, FrameSame DEF Making
<1>6. RowsWritten'
  <2>1. /\ df.rows \in Nat /\ 1 \in 1..df.rows /\ Len(literals) \in Nat
    BY <1>1, MadeGives DEF Making
  <2>2. \A r \in 1..df.rows : out'[r] = <<>> /\ Len(out'[r]) = 0
    BY <1>1
  <2>3. out' \in [1..df.rows -> Line]
    BY <1>1 DEF Line
  <2> QED
    BY <1>1, <2>1, <2>2, <2>3 DEF RowsWritten
<1>7. TextPrinted' /\ ~Readable'
  BY <1>1 DEF TextPrinted, Readable
<1> QED
  BY <1>3, <1>4, <1>5, <1>6, <1>7 DEF CsvFrameInv

LEMMA WriteColumnKeeps ==
  ASSUME CsvFrameInv, WriteColumn
  PROVE  CsvFrameInv'
<1> DEFINE n == Len(out[1])
<1>1. /\ pc = "write" /\ pc' = pc /\ n + 1 \in DOMAIN df.cols
      /\ UNCHANGED <<text, pos, ignore, detect, literals, elems, df, row_it, round, bare>>
  BY DEF WriteColumn, inputs
<1>2. PICK cells \in [1..df.rows -> AllTokens] :
        /\ \A r \in 1..df.rows :
             cells[r] \in Printed(literals[n + 1], df.cols[n + 1][r])
        /\ out' = [r \in DOMAIN out |-> Append(out[r], cells[r])]
  BY DEF WriteColumn
<1>3. pc \in Making /\ pc' \in Making /\ pc' \notin Failed
  BY <1>1 DEF Making, Failed
<1>4. Typed' /\ LinesTaken' /\ TextPrinted' /\ (Readable' => pc' \notin Failed)
  BY <1>1, <1>3, MakingSame DEF args
<1>5. FrameMade' /\ RowsFilled'
  BY <1>1, FrameSame DEF Making
<1>6. /\ literals \in Seq(Literals) /\ DOMAIN literals = 1..Len(literals)
      /\ df.rows \in Nat /\ 1 \in 1..df.rows
      /\ DOMAIN df.cols = 1..Len(df.cols) /\ Len(df.cols) \in Nat
      /\ Len(df.cols) <= Len(literals) /\ Len(literals) \in Nat
      /\ \A i \in DOMAIN df.cols : df.cols[i] \in [1..df.rows -> Cell]
  BY <1>3, MadeGives
<1>7. /\ out \in [1..df.rows -> Line]
      /\ \A r \in 1..df.rows :
           /\ Len(out[r]) = n
           /\ \A i \in 1..n : out[r][i] \in Printable(literals[i])
  BY <1>1 DEF CsvFrameInv, RowsWritten
<1>8. n \in Nat
  BY <1>6, <1>7 DEF Line
<1>9. literals[n + 1] \in Literals /\ n + 1 <= Len(literals)
  BY <1>1, <1>6, <1>8
<1> HIDE DEF n
<1>10. ASSUME NEW r \in 1..df.rows
       PROVE  /\ out'[r] \in Line /\ Len(out'[r]) = n + 1
              /\ \A i \in 1..(n + 1) : out'[r][i] \in Printable(literals[i])
  <2>1. out'[r] = Append(out[r], cells[r]) /\ out[r] \in Seq(AllTokens)
        /\ cells[r] \in AllTokens
    BY <1>2, <1>7 DEF Line
  <2>2. /\ out'[r] \in Seq(AllTokens) /\ Len(out'[r]) = n + 1
        /\ out'[r][n + 1] = cells[r]
        /\ \A i \in 1..n : out'[r][i] = out[r][i]
    BY <1>7, <2>1, AppendGives
  <2>3. cells[r] \in Printable(literals[n + 1])
    <3>1. df.cols[n + 1][r] \in Cell
      BY <1>1, <1>6
    <3>2. cells[r] \in Printed(literals[n + 1], df.cols[n + 1][r])
      BY <1>2
    <3> QED
      BY <1>9, <3>1, <3>2, PrintedIsPrintable
  <2>4. \A i \in 1..(n + 1) : i \in 1..n \/ i = n + 1
    BY <1>8
  <2> QED
    BY <1>7, <2>2, <2>3, <2>4 DEF Line
<1>11. out' \in [1..df.rows -> Line]
  BY <1>2, <1>7, <1>10
<1>12. RowsWritten'
  BY <1>1, <1>6, <1>9, <1>10, <1>11 DEF RowsWritten
<1> QED
  BY <1>4, <1>5, <1>12 DEF CsvFrameInv

LEMMA EndWriteKeeps ==
  ASSUME CsvFrameInv, EndWrite
  PROVE  CsvFrameInv'
<1>1. /\ pc = "write" /\ pc' = "written" /\ Len(out[1]) = Len(df.cols)
      /\ UNCHANGED <<text, pos, ignore, detect, literals, elems, df, row_it, round,
                     bare, out>>
  BY DEF EndWrite, inputs
<1>2. pc \in Making /\ pc' \in Making /\ pc' \notin Failed
  BY <1>1 DEF Making, Failed
<1>3. Typed' /\ LinesTaken' /\ TextPrinted' /\ (Readable' => pc' \notin Failed)
  BY <1>1, <1>2, MakingSame DEF args
<1>4. FrameMade' /\ RowsFilled'
  BY <1>1, FrameSame DEF Making
<1>5. Len(df.cols) = Len(literals)
  BY <1>1 DEF CsvFrameInv, RowsFilled, Making
<1>6. RowsWritten'
  BY <1>1, <1>5 DEF CsvFrameInv, RowsWritten
<1> QED
  BY <1>3, <1>4, <1>6 DEF CsvFrameInv

(* What is printed without the names is the rows, but those of one empty   *)
(* string are empty lines.                                                 *)
LEMMA OutputGives ==
  ASSUME CsvFrameInv, pc = "written"
  PROVE  /\ Output \in Seq(Line)
         /\ bare => /\ Output # <<>>
                    /\ \A r \in DOMAIN Output : Output[r] # <<>> =>
                         /\ Len(Output[r]) = Len(literals)
                         /\ \A i \in DOMAIN literals :
                              Output[r][i] \in Printable(literals[i])
<1> DEFINE body == [r \in DOMAIN out |-> AsLine(out[r])]
           head == <<AsLine(df.names)>>
           n == df.rows
<1>1. pc \in Making
  BY DEF Making
<1>2. /\ n \in Nat /\ 1 \in 1..n /\ df.names \in Line
      /\ DOMAIN literals = 1..Len(literals)
  BY <1>1, MadeGives
<1>3. /\ out \in [1..n -> Line]
      /\ \A r \in 1..n :
           /\ Len(out[r]) = Len(literals)
           /\ \A i \in 1..Len(literals) : out[r][i] \in Printable(literals[i])
  BY DEF CsvFrameInv, RowsWritten
<1>4. \A row \in Line : AsLine(row) \in Line /\ AsLine(row) \in {row, <<>>}
  BY DEF AsLine, Line
<1>5. /\ body \in [1..n -> Line]
      /\ \A r \in 1..n : body[r] \in {out[r], <<>>}
  BY <1>3, <1>4
<1> HIDE DEF body, n
<1>6. body \in Seq(Line) /\ Len(body) = n /\ DOMAIN body = 1..n
  BY <1>2, <1>5
<1>7. CASE bare
  <2>1. Output = <<>> \o body
    BY <1>7 DEF Output, body
  <2>2. <<>> \o body = body
    BY <1>6, ConcatEmptySeq
  <2>3. Output = body
    BY <2>1, <2>2
  <2>4. ASSUME NEW r \in DOMAIN body, body[r] # <<>>
        PROVE  /\ Len(body[r]) = Len(literals)
               /\ \A i \in DOMAIN literals : body[r][i] \in Printable(literals[i])
    <3>1. body[r] = out[r] /\ r \in 1..n
      BY <1>5, <1>6, <2>4
    <3> QED
      BY <1>2, <1>3, <3>1
  <2>5. body # <<>>
    BY <1>2, <1>6
  <2> QED
    BY <1>6, <2>3, <2>4, <2>5
<1>8. CASE ~bare
  <2>1. Output = head \o body
    BY <1>8 DEF Output, body
  <2>2. head \in Seq(Line)
    BY <1>2, <1>4
  <2> QED
    BY <1>6, <1>8, <2>1, <2>2, ConcatProperties
<1> QED
  BY <1>7, <1>8

LEMMA RereadKeeps ==
  ASSUME CsvFrameInv, Reread
  PROVE  CsvFrameInv'
<1>1. /\ pc = "written" /\ round' = 2 /\ text' = Output /\ pos' = 0
      /\ ignore' \in BOOLEAN /\ detect' = FALSE /\ elems' = <<>>
      /\ pc' = IF ignore' THEN "skip" ELSE "lines"
      /\ UNCHANGED <<literals, bare>>
  BY DEF Reread
<1>2. /\ Output \in Seq(Line)
      /\ bare => /\ Output # <<>>
                 /\ \A r \in DOMAIN Output : Output[r] # <<>> =>
                      /\ Len(Output[r]) = Len(literals)
                      /\ \A i \in DOMAIN literals :
                           Output[r][i] \in Printable(literals[i])
  BY <1>1, OutputGives
<1>3. Typed'
  <2>1. 0 \in 0..Len(text') /\ elems' \in Seq(Line)
    BY <1>1, <1>2
  <2> QED
    BY <1>1, <1>2, <2>1 DEF CsvFrameInv, Typed
<1>4. TextPrinted'
  BY <1>1, <1>2 DEF TextPrinted, Printable
<1>5. LinesTaken'
  <2>1. ~ignore' => Skipped(text, ignore)' = 0
    BY DEF Skipped
  <2>2. \A i \in 1..0 : FALSE
    OBVIOUS
  <2>3. Len(elems') = 0 /\ DOMAIN elems' = {}
    BY <1>1
  <2> QED
    BY <1>1, <2>1, <2>2, <2>3 DEF LinesTaken
<1>6. pc' \notin Making /\ pc' \notin Failed
  BY <1>1 DEF Making, Failed
<1> QED
  BY <1>3, <1>4, <1>5, <1>6, NothingMade DEF CsvFrameInv

LEMMA CsvFrameInitInv == Init => CsvFrameInv
<1> SUFFICES ASSUME Init PROVE CsvFrameInv
  OBVIOUS
<1>1. /\ ignore \in BOOLEAN /\ pos = 0 /\ elems = <<>> /\ bare = FALSE /\ round = 1
      /\ pc = IF ignore THEN "skip" ELSE "lines"
  BY DEF Init
<1>2. text \in Seq(Line)
  <2>1. 0..MaxLines \in SUBSET Nat /\ 0..MaxWidth \in SUBSET Nat
    BY CsvFrameAssumption
  <2> DEFINE L == SequencesOf(Tokens, 0..MaxWidth)
  <2>2. \A l \in L : l \in Line
    <3>1. \A l \in L : l \in Seq(Tokens)
      BY <2>1, SequencesAreSeq
    <3> QED
      BY <3>1, CsvFrameAssumption DEF Line
  <2>3. text \in SequencesOf(L, 0..MaxLines)
    BY DEF Init
  <2> HIDE DEF L
  <2>4. text \in Seq(L)
    BY <2>1, <2>3, SequencesAreSeq
  <2> QED
    BY <2>2, <2>4
<1>3. detect \in BOOLEAN /\ literals \in Seq(Literals)
  <2>1. 1..MaxWidth \in SUBSET Nat
    BY CsvFrameAssumption
  <2>2. \A l \in SequencesOf(Literals, 1..MaxWidth) : l \in Seq(Literals)
    BY <2>1, SequencesAreSeq
  <2>3. literals = <<>> \/ literals \in SequencesOf(Literals, 1..MaxWidth)
    BY DEF Init
  <2>4. literals \in Seq(Literals)
    <3>1. CASE literals = <<>>
      BY <3>1
    <3> QED
      BY <2>2, <2>3, <3>1
  <2> QED
    BY <2>4 DEF Init
<1>4. Typed
  <2>1. 0 \in 0..Len(text) /\ elems \in Seq(Line) /\ round \in {1, 2}
    BY <1>1, <1>2
  <2>2. bare \in BOOLEAN
    BY <1>1
  <2> QED
    BY <1>1, <1>2, <1>3, <2>1, <2>2 DEF Typed
<1>5. LinesTaken
  <2>1. ~ignore => Skipped(text, ignore) = 0
    BY DEF Skipped
  <2>2. Len(elems) = 0 /\ DOMAIN elems = {} /\ \A i \in 1..0 : FALSE
    BY <1>1
  <2> QED
    BY <1>1, <2>1, <2>2 DEF LinesTaken
<1>6. TextPrinted /\ ~Readable
  BY <1>1 DEF TextPrinted, Readable
<1>7. FrameMade /\ RowsFilled /\ RowsWritten
  BY <1>1 DEF FrameMade, RowsFilled, RowsWritten, Making
<1> QED
  BY <1>4, <1>5, <1>6, <1>7 DEF CsvFrameInv


LEMMA CsvFrameStepInv == CsvFrameInv /\ [Next]_vars => CsvFrameInv'
<1> SUFFICES ASSUME CsvFrameInv, [Next]_vars PROVE CsvFrameInv'
  OBVIOUS
<1>1. CASE UNCHANGED vars
  <2>1. UNCHANGED <<text, pos, ignore, detect, literals, elems, df, row_it, bare,
                    out, round, pc>>
    BY <1>1 DEF vars
  <2>2. /\ Typed /\ LinesTaken /\ FrameMade /\ RowsFilled /\ RowsWritten
        /\ TextPrinted /\ (Readable => pc \notin Failed)
    BY DEF CsvFrameInv
  <2>3. Typed' /\ FrameMade' /\ RowsWritten'
    BY <2>1, <2>2 DEF Typed, FrameMade, RowsWritten
  <2>4. LinesTaken'
    <3>1. /\ Skipped(text, ignore)' = Skipped(text, ignore)
          /\ EmptyLines(text)' = EmptyLines(text)
          /\ Block(text, ignore)' = Block(text, ignore)
      BY <2>1
    <3> QED
      BY <2>1, <2>2, <3>1 DEF LinesTaken
  <2>5. RowsFilled'
    BY <2>1, <2>2 DEF RowsFilled, CellFits
  <2>6. TextPrinted' /\ (Readable' => pc' \notin Failed)
    BY <2>1, <2>2 DEF TextPrinted, Readable
  <2> QED
    BY <2>3, <2>4, <2>5, <2>6 DEF CsvFrameInv
<1> QED
  BY <1>1, SkipLineKeeps, ReadLineKeeps, EndLinesKeeps, CheckKeeps, NewColumnKeeps,
     BeginFillKeeps, FillRowKeeps, EndFillKeeps, BeginWriteKeeps, WriteColumnKeeps,
     EndWriteKeeps, RereadKeeps DEF Next

(* The lines, the frame and the rows written are in every state what the   *)
(* text makes them, however the calls end.                                 *)
THEOREM CsvFrameInvariance == Spec => []CsvFrameInv
  BY CsvFrameInitInv, CsvFrameStepInv, PTL DEF Spec

(* A frame that is read has one row per line of its block and one column   *)
(* per cell, each from its cell; but an ignored line leaves the first row  *)
(* at its defaults (frame.cpp:27-51, 112-129).                             *)
THEOREM FramesHoldText == Spec => []FrameHoldsText
<1>1. CsvFrameInv => FrameHoldsText
  <2>0. ASSUME CsvFrameInv, pc = "read" PROVE elems = Block(text, ignore)
    BY <2>0 DEF CsvFrameInv, LinesTaken, Failed
  <2> SUFFICES ASSUME CsvFrameInv, pc = "read"
               PROVE  /\ df.rows = Len(elems)
                      /\ \A r \in DOMAIN elems :
                           /\ Len(elems[r]) = Len(df.cols)
                           /\ \A i \in DOMAIN df.cols :
                                df.cols[i][r].from =
                                  IF ignore /\ r = 1 THEN "none" ELSE elems[r][i]
                      /\ ignore => df.names = elems[1]
    BY <2>0 DEF FrameHoldsText
  <2>1. pc \in Making
    BY DEF Making
  <2>2. /\ literals \in Seq(Literals) /\ elems \in Seq(Line)
        /\ 1 \in DOMAIN elems /\ DOMAIN elems = 1..Len(elems) /\ Len(elems) \in Nat
        /\ df.rows = Len(elems)
        /\ \A r \in DOMAIN elems : Len(elems[r]) = Len(literals)
        /\ df.names \in Line
        /\ DOMAIN df.names = 1..Len(df.cols) /\ Len(df.names) = Len(df.cols)
        /\ ignore => \A i \in DOMAIN df.names : df.names[i] = elems[1][i]
    BY <2>1, MadeGives
  <2>3. /\ Len(df.cols) = Len(literals) /\ row_it = df.rows
        /\ \A i \in DOMAIN df.cols, r \in 1..df.rows : CellFits(i, r)
    BY DEF CsvFrameInv, RowsFilled, Making
  <2>4. ASSUME NEW r \in DOMAIN elems, NEW i \in DOMAIN df.cols
        PROVE  df.cols[i][r].from = IF ignore /\ r = 1 THEN "none" ELSE elems[r][i]
    <3>1. CellFits(i, r) /\ ~ (r > row_it)
      BY <2>2, <2>3
    <3> QED
      BY <3>1 DEF CellFits, Default
  <2>5. ASSUME ignore PROVE df.names = elems[1]
    <3> DEFINE a == df.names
               b == elems[1]
    <3>1. a \in Seq(AllTokens) /\ b \in Seq(AllTokens) /\ Len(a) = Len(b)
      <4>1. elems[1] \in Line /\ Len(elems[1]) = Len(literals)
        BY <2>2
      <4> QED
        BY <2>2, <2>3, <4>1 DEF Line
    <3>2. \A i \in DOMAIN a : a[i] = b[i]
      BY <2>2, <2>5
    <3> HIDE DEF a, b
    <3>3. \A i \in 1..Len(a) : a[i] = b[i]
      BY <3>1, <3>2
    <3>4. a = b
      BY <3>1, <3>3, SeqEqual
    <3> QED
      BY <3>4 DEF a, b
  <2> QED
    BY <2>2, <2>3, <2>4, <2>5
<1> QED
  BY <1>1, CsvFrameInvariance, PTL

(* What write_csv prints of a frame without its names reads back with the  *)
(* types of its columns, in the same shape and without a conversion that   *)
(* fails or cuts, but for rows of one empty string and columns of numbers  *)
(* with an infinity or a NaN (frame.cpp:40-51, 155-176).                   *)
THEOREM BareTextsReadBack == Spec => []BareTextReadsBack
<1>1. CsvFrameInv => BareTextReadsBack
  <2> SUFFICES ASSUME CsvFrameInv, Readable
               PROVE  /\ pc \notin Failed
                      /\ pc = "read" =>
                           /\ df.rows = Len(text)
                           /\ \A i \in DOMAIN df.cols, r \in 1..df.rows :
                                df.cols[i][r].exact
    BY DEF BareTextReadsBack, Readable
  <2>1. pc \notin Failed
    BY DEF CsvFrameInv
  <2>2. ASSUME pc = "read"
        PROVE  /\ df.rows = Len(text)
               /\ \A i \in DOMAIN df.cols, r \in 1..df.rows : df.cols[i][r].exact
    <3>1. Typed /\ TextPrinted /\ elems = Block(text, ignore) /\ ~ignore
      BY <2>2 DEF CsvFrameInv, LinesTaken, Failed, Readable
    <3>2. /\ elems = text
          /\ \A r \in DOMAIN elems : \A i \in DOMAIN literals :
               Conversions(literals[i], elems[r][i]) = {"exact"}
      BY <3>1, ReadableBlock
    <3>3. /\ df.rows = Len(elems) /\ DOMAIN elems = 1..Len(elems)
          /\ Len(elems) \in Nat
          /\ DOMAIN df.cols = 1..Len(df.cols) /\ DOMAIN literals = 1..Len(literals)
      BY <2>2, MadeGives DEF Making
    <3>4. /\ Len(df.cols) = Len(literals) /\ row_it = df.rows
          /\ \A i \in DOMAIN df.cols, r \in 1..df.rows : CellFits(i, r)
      BY <2>2 DEF CsvFrameInv, RowsFilled, Making
    <3>5. ASSUME NEW i \in DOMAIN df.cols, NEW r \in 1..df.rows
          PROVE  df.cols[i][r].exact
      <4>1. CellFits(i, r) /\ ~ (r > row_it)
        BY <3>3, <3>4
      <4>2. "other" \notin Conversions(literals[i], elems[r][i])
        <5>1. i \in DOMAIN literals /\ r \in DOMAIN elems
          BY <3>3, <3>4
        <5>2. Conversions(literals[i], elems[r][i]) = {"exact"}
          BY <3>2, <5>1
        <5> QED
          BY <5>2
      <4> QED
        BY <3>1, <4>1, <4>2 DEF CellFits
    <3> QED
      BY <3>2, <3>3, <3>5
  <2> QED
    BY <2>1, <2>2
<1> QED
  BY <1>1, CsvFrameInvariance, PTL

=============================================================================
