-------------------------------- MODULE Rinex --------------------------------
(***************************************************************************)
(* read_rinex3_nav (io/rinex3/nav.cpp) and read_rinex2_nav                 *)
(* (io/rinex2/nav.cpp): a header of labelled lines becomes the meta data   *)
(* of a gaa::Table, then records of eight lines become its columns.  One   *)
(* action per line of the header, per line of a record, per record parsed  *)
(* and per group of columns pushed.                                        *)
(*                                                                         *)
(* A line of the header is the kind of fields it stores, and the value it  *)
(* stores is its place in the header; an IONOSPHERIC CORR line is the key  *)
(* it names and stores itself under.  A line of a record stands for its    *)
(* fields, and they for one column, the group of columns of that line:     *)
(*   "full" numbers, as many characters as the format has                  *)
(*   "blank" blanks, or nothing where the numbers should be                *)
(*   "bad" something else     "long", "short" another number of characters *)
(***************************************************************************)
EXTENDS Table

CONSTANTS
  TrimmedKeys,    (* what trimming leaves of five characters             *)
  FiveCharacters, (* five characters as they are, blanks included        *)
  SubLines,       (* lines of a record after its first (7 in the code)   *)
  MaxHeader,      (* bound: lines of a header before its end             *)
  MaxRecords      (* bound: records of a file                            *)

ASSUME RinexAssumption ==
  SubLines \in Nat \ {0} /\ MaxHeader \in Nat /\ MaxRecords \in Nat

(* The keys that IONOSPHERIC CORR lines may name.  None has more than five *)
(* characters, as these names have, and no field has a name of just five.  *)
Keys == TrimmedKeys \cup FiveCharacters

ASSUME KeysAssumption ==
  /\ Keys \cap {"comment", "comments", "version", "BDS version", "program",
                "first time corr", "later time corr", "leap seconds",
                "ion alpha", "ion beta", "delta utc", "satellite system",
                "rinex type", "runner", "time corr type", "UTC ID"} = {}
  /\ FiveCharacters \cap {"date", "BDSA", "BDSB", "a0", "a1", "T", "W", "S",
                          "tLS", "tLSF", "WN", "DN"} = {}

VARIABLES
  fmt,     (* 3 or 2: which of the two functions runs               *)
  trim,    (* trim_string                                           *)
  head,    (* history: the kinds of the lines of the header         *)
  tab,     (* the table of the Rinex3_nav or Rinex2_nav             *)
  stage,   (* time_sys_corr_stage                                   *)
  line,    (* the lines of the record put together so far           *)
  sys,     (* the vector sys of a Rinex 3 file                      *)
  cols,    (* the vectors of the fields of each line of a record    *)
  recs,    (* history: the records parsed                           *)
  pc       (* "header", "data", "push", or how the call ended       *)

vars == <<fmt, trim, head, tab, stage, line, sys, cols, recs, pc>>

Groups == 1..(SubLines + 1)

(* The first characters of records: those sat_sys_rinex3(char) has a case  *)
(* for, and the systems of the files considered.                           *)
Known == {"C", "G", "R"}
Systems == {"C", "E"}

(* The first line of a record is taken as it is; the others lose their     *)
(* trailing blanks and are filled up with blanks, so none is short.        *)
FirstLines == {"full", "blank", "bad", "long", "short"}
OtherLines == {"full", "blank", "bad", "long"}

(* The types of fields: doubles, strings, integers, vectors of doubles. *)
Typed(doubles, strings, integers, vectors) ==
  [k \in doubles \cup strings \cup integers \cup vectors |->
     IF k \in doubles THEN "Tab_Double"
     ELSE IF k \in strings THEN "Tab_String"
     ELSE IF k \in integers THEN "Tab_Integer" ELSE "Tab_Vector_Double"]

(* What each kind of line of a Rinex 3 header stores, and as what: version *)
(* lines of BeiDou files and of others, the first and the later TIME       *)
(* SYSTEM CORR, and IONOSPHERIC CORR, which stores a vector under whatever *)
(* key it begins with.                                                     *)
Fields3 ==
  [kind \in {"BDS version", "version", "program", "first time corr",
             "later time corr", "leap seconds"} \cup Keys |->
     CASE kind \in {"BDS version", "version"} ->
            Typed({"version"}, {"rinex type", "satellite system"}, {}, {})
       [] kind = "program" -> Typed({}, {"program", "runner", "date"}, {}, {})
       [] kind = "first time corr" ->
            Typed({"a0", "a1"}, {"time corr type"}, {"T", "W"}, {})
       [] kind = "later time corr" -> Typed({}, {"S"}, {"UTC ID"}, {})
       [] kind = "leap seconds" ->
            Typed({}, {}, {"tLS", "tLSF", "WN", "DN"}, {})
       [] OTHER -> Typed({}, {}, {}, {kind})]

(* The same for Rinex 2. *)
Fields2 ==
  [kind \in {"version", "program", "ion alpha", "ion beta", "delta utc",
             "leap seconds"} |->
     CASE kind = "version" -> Typed({"version"}, {"rinex type"}, {}, {})
       [] kind = "program" -> Typed({}, {"program", "runner", "date"}, {}, {})
       [] kind = "ion alpha" -> Typed({}, {}, {}, {"iona"})
       [] kind = "ion beta" -> Typed({}, {}, {}, {"ionb"})
       [] kind = "delta utc" -> Typed({"a0", "a1"}, {}, {"T", "W"}, {})
       [] kind = "leap seconds" -> Typed({}, {}, {"leap seconds"}, {})]

Fields(f) == IF f = 3 THEN Fields3 ELSE Fields2

(* What the getters ask for, besides the comments. *)
Getters3 ==
  Typed({"version"},
        {"satellite system", "rinex type", "program", "runner", "date",
         "time corr type"},
        {"a0", "a1", "T", "W", "UTC ID", "tLS", "tLSF", "WN", "DN"},
        {"BDSA", "BDSB"})

(* Wrong variant: the leap seconds are asked for as a double. *)
Getters2Double ==
  Typed({"version", "a0", "a1", "leap seconds"},
        {"rinex type", "program", "runner", "date"}, {"T", "W"},
        {"iona", "ionb"})

Getters2 ==
  Typed({"version", "a0", "a1"}, {"rinex type", "program", "runner", "date"},
        {"T", "W", "leap seconds"}, {"iona", "ionb"})

Getters(f) ==
  Put(IF f = 3 THEN Getters3 ELSE Getters2, "comments", "Tab_Vector_String")

Init ==
  /\ fmt \in {2, 3}
  /\ trim \in BOOLEAN
  /\ head = <<>>
  /\ tab = EmptyTable
  /\ stage = 0
  /\ line = <<>>
  /\ sys = <<>>
  /\ cols = [g \in Groups |-> <<>>]
  /\ recs = <<>>
  /\ pc = "header"

-----------------------------------------------------------------------------
(* The header *)

dataVars == <<line, sys, cols, recs>>

(* Wrong variant of Stored: a field that is there keeps its value. *)
StoredOnce(t, kind, n) ==
  LET types == Fields(fmt)[kind]
      values == [k \in DOMAIN types |-> [type |-> types[k], value |-> n]]
  IN  [t EXCEPT !.meta = PutAll(values, @), !.metaInfo = PutAll(types, @)]

(* meta_ioa for every field of line n *)
Stored(t, kind, n) ==
  LET types == Fields(fmt)[kind]
      values == [k \in DOMAIN types |-> [type |-> types[k], value |-> n]]
  IN  [t EXCEPT !.meta = PutAll(@, values), !.metaInfo = PutAll(@, types)]

HeaderLine(kind) ==
  /\ pc = "header"
  /\ Len(head) < MaxHeader
  /\ head' = Append(head, kind)
  /\ UNCHANGED <<fmt, trim, dataVars, pc>>

(* Any line but a comment and TIME SYSTEM CORR. *)
ReadField(kind) ==
  /\ HeaderLine(kind)
  /\ kind \notin {"first time corr", "later time corr"}
  /\ kind \in Keys => kind \in IF trim THEN TrimmedKeys ELSE FiveCharacters
  /\ tab' = Stored(tab, kind, Len(head'))
  /\ UNCHANGED stage

(* The first comment makes the vector, unless there is one. *)
ReadComment ==
  /\ HeaderLine("comment")
  /\ tab' = IF MetaAtAccepts(tab, "Tab_Vector_String", "comments")
            THEN [tab EXCEPT !.meta["comments"].value = Append(@, Len(head'))]
            ELSE MetaIoa(tab, "Tab_Vector_String", "comments", <<Len(head')>>)
  /\ UNCHANGED stage

(* The first TIME SYSTEM CORR line is read one way, every later one        *)
(* another: the stage stays 1.                                             *)
ReadTimeCorr ==
  LET kind == IF stage = 0 THEN "first time corr" ELSE "later time corr" IN
  /\ fmt = 3
  /\ HeaderLine(kind)
  /\ tab' = Stored(tab, kind, Len(head'))
  /\ stage' = 1

(* END OF HEADER, an empty line or the end of the stream.  A Rinex 3 file  *)
(* has to be of BeiDou.                                                    *)
EndHeader ==
  LET key == "satellite system"
      isBDS == /\ MetaAtAccepts(tab, "Tab_String", key)
               /\ head[tab.meta[key].value] = "BDS version"
  IN
  /\ pc = "header"
  /\ pc' = IF fmt = 3 /\ ~isBDS THEN "abort" ELSE "data"
  /\ UNCHANGED <<fmt, trim, head, tab, stage, dataVars>>

(* An unknown label, or a body its rule does not parse. *)
BadHeaderLine ==
  /\ pc = "header"
  /\ pc' = "abort"
  /\ UNCHANGED <<fmt, trim, head, tab, stage, dataVars>>

-----------------------------------------------------------------------------
(* The records *)

headVars == <<fmt, trim, head, tab, stage>>

ReadFirst(kind) ==
  /\ pc = "data"
  /\ line = <<>>
  /\ Len(recs) < MaxRecords
  /\ line' = <<kind>>
  /\ UNCHANGED <<headVars, sys, cols, recs, pc>>

(* A line that stays longer than its format aborts. *)
ReadOther(kind) ==
  /\ pc = "data"
  /\ Len(line) \in 1..SubLines
  /\ IF kind = "long"
     THEN pc' = "abort" /\ UNCHANGED line
     ELSE line' = Append(line, kind) /\ UNCHANGED pc
  /\ UNCHANGED <<headVars, sys, cols, recs>>

StreamEndsInRecord ==
  /\ pc = "data"
  /\ Len(line) \in 1..SubLines
  /\ pc' = "abort"
  /\ UNCHANGED <<headVars, dataVars>>

(* What p2int and p2dbl may make of the field of line g: blanks are zero,  *)
(* anything else that is not a number aborts.  A first line of another     *)
(* length shifts the window of every field to whatever lies there.         *)
Value(rec, g) ==
  IF rec[1] \in {"long", "short"} THEN {"shifted", "abort"}
  ELSE CASE rec[g] = "bad" -> {"abort"}
         [] rec[g] = "blank" -> {"zero"}
         [] OTHER -> {"number"}

(* Wrong variant: that the rule failed is not noticed. *)
ParsesAlways(rec) == TRUE

(* The rule takes exactly as many characters as the lines of a record have *)
(* and does not ask for the end: it fails only when there are too few.     *)
Parses(rec) == rec[1] # "short"

(* The lines of a record are parsed together, and every field is pushed to *)
(* its vector.                                                             *)
ReadRecord ==
  /\ pc = "data"
  /\ Len(line) = SubLines + 1
  /\ \/ \E v \in [Groups -> {"number", "zero", "shifted"}] :
          /\ Parses(line)
          /\ \A g \in Groups : v[g] \in Value(line, g)
          /\ cols' = [g \in Groups |->
                        Append(cols[g], [rec |-> Len(recs) + 1, as |-> v[g]])]
          /\ recs' = Append(recs, line)
          /\ line' = <<>>
          /\ IF fmt = 3 THEN \E c \in Systems : sys' = Append(sys, c)
                        ELSE UNCHANGED sys
          /\ UNCHANGED pc
     \/ /\ ~Parses(line) \/ \E g \in Groups : "abort" \in Value(line, g)
        /\ pc' = "abort"
        /\ UNCHANGED dataVars
  /\ UNCHANGED headVars

(* The end of the stream or an empty line. *)
EndRecords ==
  /\ pc = "data"
  /\ line = <<>>
  /\ pc' = "push"
  /\ UNCHANGED <<headVars, dataVars>>

-----------------------------------------------------------------------------
(* The columns *)

(* Rinex 3 files have the system in a column of its own; a character       *)
(* sat_sys_rinex3 has no case for aborts.                                  *)
PushSystems ==
  /\ pc = "push"
  /\ fmt = 3
  /\ ColumnSize(tab) = 0
  /\ IF RangeOf(sys) \subseteq Known
     THEN tab' = PushBack(tab, "Tab_Sat_Sys", sys, "sat sys") /\ UNCHANGED pc
     ELSE pc' = "abort" /\ UNCHANGED tab
  /\ UNCHANGED <<fmt, trim, head, stage, dataVars>>

(* The index of the column of group g. *)
ColumnOfLine(g) == IF fmt = 3 THEN g ELSE g - 1

(* dbl_vec, through which a Rinex 2 file's years go, asserts that there is *)
(* one.                                                                    *)
PushColumn(g) ==
  /\ pc = "push"
  /\ ColumnSize(tab) = ColumnOfLine(g)
  /\ IF fmt = 2 /\ g = 1 /\ cols[g] = <<>>
     THEN pc' = "abort" /\ UNCHANGED tab
     ELSE tab' = PushBack(tab, "Tab_Double", cols[g], g) /\ UNCHANGED pc
  /\ UNCHANGED <<fmt, trim, head, stage, dataVars>>

Finish ==
  /\ pc = "push"
  /\ ColumnSize(tab) = ColumnOfLine(SubLines + 1) + 1
  /\ pc' = "done"
  /\ UNCHANGED <<headVars, dataVars>>

Next ==
  \/ \E kind \in DOMAIN Fields(fmt) : ReadField(kind)
  \/ ReadComment \/ ReadTimeCorr \/ EndHeader \/ BadHeaderLine
  \/ \E kind \in FirstLines : ReadFirst(kind)
  \/ \E kind \in OtherLines : ReadOther(kind)
  \/ StreamEndsInRecord \/ ReadRecord \/ EndRecords
  \/ PushSystems \/ (\E g \in Groups : PushColumn(g)) \/ Finish

Spec == Init /\ [][Next]_vars

-----------------------------------------------------------------------------
(* Properties *)

(* The lines of a header that store a field, and the last of them. *)
Storing(key) ==
  {n \in DOMAIN head : head[n] # "comment" /\ key \in DOMAIN Fields(fmt)[head[n]]}

Last(S) == CHOOSE n \in S : \A m \in S : m <= n

(* A call that returns has kept its header: every field has the value of   *)
(* the last line that gave it one, whatever other lines came between, the  *)
(* comments are all there in their order, and there is nothing else        *)
(* (rinex3/nav.cpp:292-383, rinex2/nav.cpp:108-171).                       *)
HeaderKept ==
  LET comments == {n \in DOMAIN head : head[n] = "comment"} IN
  pc = "done" =>
    /\ \A key \in DOMAIN tab.meta \ {"comments"} :
         Storing(key) # {} /\ tab.meta[key].value = Last(Storing(key))
    /\ \A n \in DOMAIN head \ comments :
         DOMAIN Fields(fmt)[head[n]] \subseteq DOMAIN tab.meta
    /\ IF comments = {} THEN "comments" \notin DOMAIN tab.meta
       ELSE LET kept == tab.meta["comments"].value IN
            /\ RangeOf(kept) = comments
            /\ \A p, q \in DOMAIN kept : p < q => kept[p] < kept[q]

(* The last line that stored the field is an IONOSPHERIC CORR line that    *)
(* names it, and the field is none of the two vectors such lines are for.  *)
Overwritten(key) ==
  /\ key \notin {"BDSA", "BDSB"}
  /\ \E n \in Storing(key) :
       head[n] \in Keys /\ \A m \in Storing(key) : m <= n

(* The getter of a field that is there asks for the type it was last       *)
(* stored with, whatever lines came in whatever order, in all cases but    *)
(* two, in which it aborts: the coefficients of a Rinex 3 header, stored   *)
(* as double and asked for as int, and a field that an IONOSPHERIC CORR    *)
(* line has overwritten with its vector (rinex3/nav.cpp:74-135, 322-336,   *)
(* rinex2/nav.cpp:32-75, table.hpp:253-265).                               *)
GettersAccept ==
  \A key \in DOMAIN Getters(fmt) \cap DOMAIN tab.meta :
    MetaAtAccepts(tab, Getters(fmt)[key], key) <=>
      (fmt = 3 => key \notin {"a0", "a1"}) /\ ~Overwritten(key)

(* Row r of a table that is returned is record r, in every column: no      *)
(* field of a record is lost, doubled or taken from another record, and a  *)
(* field is 0 only where the record has blanks.  Only a first line longer  *)
(* than its format shifts the fields of its own record                     *)
(* (rinex3/nav.cpp:159-260, rinex2/nav.cpp:197-295).                       *)
RecordsAligned ==
  pc = "done" =>
    \A g \in Groups :
      LET c == Cells(tab, ColumnOfLine(g)) IN
      /\ Len(c) = Len(recs)
      /\ \A r \in DOMAIN recs :
           /\ c[r].rec = r
           /\ recs[r][1] # "long" =>
                c[r].as = IF recs[r][g] = "blank" THEN "zero" ELSE "number"

=============================================================================
