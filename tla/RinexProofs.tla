----------------------------- MODULE RinexProofs -----------------------------
(***************************************************************************)
(* The navigation readers, for headers of any length, records of any       *)
(* number of lines and files of any number of records: the header is kept, *)
(* the getters ask for the types that were stored, and row r of every      *)
(* column is record r.                                                     *)
(***************************************************************************)
EXTENDS Rinex, ContainerProofs

-----------------------------------------------------------------------------
(* The header: HeaderKept speaks of calls that return; while the header is *)
(* read its parts hold of the lines so far.                                *)

Kinds == DOMAIN Fields(fmt) \cup {"comment"}

Comments == {n \in DOMAIN head : head[n] = "comment"}

FieldsStored ==
  /\ \A key \in DOMAIN tab.meta \ {"comments"} :
       Storing(key) # {} /\ tab.meta[key].value = Last(Storing(key))
  /\ \A n \in DOMAIN head \ Comments :
       DOMAIN Fields(fmt)[head[n]] \subseteq DOMAIN tab.meta

CommentsStored ==
  IF Comments = {} THEN "comments" \notin DOMAIN tab.meta
  ELSE /\ "comments" \in DOMAIN tab.meta
       /\ DOMAIN tab.meta["comments"] = {"type", "value"}
       /\ LET kept == tab.meta["comments"].value IN
          /\ kept \in Seq(Nat)
          /\ RangeOf(kept) = Comments
          /\ \A p, q \in DOMAIN kept : p < q => kept[p] < kept[q]

TableParts ==
  /\ fmt \in {2, 3}
  /\ DOMAIN tab = {"storage", "info", "names", "meta", "metaInfo"}

HeaderInv ==
  /\ TableParts
  /\ head \in Seq(Kinds)
  /\ DOMAIN tab.meta = DOMAIN tab.metaInfo
  /\ FieldsStored
  /\ CommentsStored
  /\ GettersAccept

(* The records. *)
Field == [rec : Nat, as : {"number", "zero", "shifted"}]

ARecord == Seq(FirstLines)

Aligned(c, g) ==
  /\ Len(c) = Len(recs)
  /\ \A r \in DOMAIN recs :
       /\ c[r].rec = r
       /\ recs[r][1] # "long" =>
            c[r].as = IF recs[r][g] = "blank" THEN "zero" ELSE "number"

AColumn == [type : Flags, cells : Seq(Systems) \cup Seq(Field)]

(* RecordsAligned is what the vectors of the fields are while the file is  *)
(* read, and the columns once they are pushed.                             *)
RecordsInv ==
  /\ TableParts
  /\ line \in ARecord
  /\ recs \in Seq(ARecord)
  /\ sys \in Seq(Systems)
  /\ cols \in [Groups -> Seq(Field)]
  /\ \A g \in Groups : Aligned(cols[g], g)
  /\ tab.storage \in Seq(AColumn)
  /\ pc \in {"header", "data"} => tab.storage = <<>>
  /\ \A g \in Groups :
       ColumnOfLine(g) < ColumnSize(tab) => Cells(tab, ColumnOfLine(g)) = cols[g]
  /\ pc = "done" => ColumnSize(tab) = ColumnOfLine(SubLines + 1) + 1

-----------------------------------------------------------------------------
(* What the kinds of lines store *)

LEMMA PutAllGives ==
  ASSUME NEW m, NEW n
  PROVE  /\ DOMAIN PutAll(m, n) = DOMAIN m \cup DOMAIN n
         /\ \A k \in DOMAIN n : PutAll(m, n)[k] = n[k]
         /\ \A k \in DOMAIN m \ DOMAIN n : PutAll(m, n)[k] = m[k]
BY DEF PutAll

(* A line with the key of an IONOSPHERIC CORR line stores a vector that    *)
(* only the two getters for such vectors ask for.                          *)
StoresVector(kind, key) == kind \in Keys /\ key \notin {"BDSA", "BDSB"}

(* No line of fields stores comments, and a field is stored as what its    *)
(* getter asks for, but for the two coefficients of a Rinex 3 header and   *)
(* the vectors under other names.                                          *)
LEMMA FieldsFitGetters ==
  ASSUME fmt \in {2, 3}
  PROVE  /\ "comment" \notin DOMAIN Fields(fmt)
         /\ \A kind \in DOMAIN Fields(fmt) :
              /\ "comments" \notin DOMAIN Fields(fmt)[kind]
              /\ \A key \in DOMAIN Fields(fmt)[kind] \cap DOMAIN Getters(fmt) :
                   Getters(fmt)[key] = Fields(fmt)[kind][key] <=>
                     /\ fmt = 3 => key \notin {"a0", "a1"}
                     /\ ~StoresVector(kind, key)
         /\ "comments" \in DOMAIN Getters(fmt)
         /\ Getters(fmt)["comments"] = "Tab_Vector_String"
<1> DEFINE asked == IF fmt = 3 THEN Getters3 ELSE Getters2
<1>1. /\ DOMAIN Getters(fmt) = DOMAIN asked \cup {"comments"}
      /\ Getters(fmt)["comments"] = "Tab_Vector_String"
      /\ \A key \in DOMAIN asked : key # "comments" => Getters(fmt)[key] = asked[key]
  BY DEF Getters, Put
<1>2. CASE fmt = 3
  <2>1. Fields(fmt) = Fields3 /\ asked = Getters3
    BY <1>2 DEF Fields
  <2>2. DOMAIN Fields3 = {"BDS version", "version", "program", "first time corr",
                          "later time corr", "leap seconds"} \cup Keys
    BY DEF Fields3
  <2>3. ASSUME NEW kind \in DOMAIN Fields3
        PROVE  /\ "comments" \notin DOMAIN Fields3[kind]
               /\ \A key \in DOMAIN Fields3[kind] \cap DOMAIN Getters3 :
                    Getters3[key] = Fields3[kind][key] <=>
                      key \notin {"a0", "a1"} /\ ~StoresVector(kind, key)
    <3> USE KeysAssumption DEF StoresVector
    <3>1. CASE kind \in {"BDS version", "version"}
      <4>1. Fields3[kind] = Typed({"version"}, {"rinex type", "satellite system"}, {}, {})
        BY <3>1 DEF Fields3
      <4> QED
        BY <3>1, <4>1 DEF Getters3, Typed
    <3>2. CASE kind = "program"
      <4>1. Fields3[kind] = Typed({}, {"program", "runner", "date"}, {}, {})
        BY <3>2 DEF Fields3
      <4> QED
        BY <3>2, <4>1 DEF Getters3, Typed
    <3>3. CASE kind = "first time corr"
      <4>1. Fields3[kind] = Typed({"a0", "a1"}, {"time corr type"}, {"T", "W"}, {})
        BY <3>3 DEF Fields3
      <4> QED
        BY <3>3, <4>1 DEF Getters3, Typed
    <3>4. CASE kind = "later time corr"
      <4>1. Fields3[kind] = Typed({}, {"S"}, {"UTC ID"}, {})
        BY <3>4 DEF Fields3
      <4> QED
        BY <3>4, <4>1 DEF Getters3, Typed
    <3>5. CASE kind = "leap seconds"
      <4>1. Fields3[kind] = Typed({}, {}, {"tLS", "tLSF", "WN", "DN"}, {})
        BY <3>5 DEF Fields3
      <4> QED
        BY <3>5, <4>1 DEF Getters3, Typed
    <3>6. CASE kind \in Keys
      <4>1. Fields3[kind] = Typed({}, {}, {}, {kind})
        BY <3>6 DEF Fields3
      <4>2. DOMAIN Fields3[kind] = {kind} /\ Fields3[kind][kind] = "Tab_Vector_Double"
        BY <4>1 DEF Typed
      <4>3. kind \in DOMAIN Getters3 =>
              (Getters3[kind] = "Tab_Vector_Double" <=> kind \in {"BDSA", "BDSB"})
        BY DEF Getters3, Typed
      <4>4. kind # "comments"
        BY <3>6
      <4> QED
        BY <3>6, <4>2, <4>3, <4>4
    <3> QED
      BY <2>2, <2>3, <3>1, <3>2, <3>3, <3>4, <3>5, <3>6
  <2>4. "comment" \notin DOMAIN Fields3
    BY <2>2, KeysAssumption
  <2> QED
    BY <1>1, <1>2, <2>1, <2>3, <2>4
<1>3. CASE fmt = 2
  <2>1. Fields(fmt) = Fields2 /\ asked = Getters2
    BY <1>3 DEF Fields
  <2>2. DOMAIN Fields2 = {"version", "program", "ion alpha", "ion beta",
                          "delta utc", "leap seconds"}
    BY DEF Fields2
  <2>3. ASSUME NEW kind \in DOMAIN Fields2
        PROVE  /\ "comments" \notin DOMAIN Fields2[kind]
               /\ \A key \in DOMAIN Fields2[kind] \cap DOMAIN Getters2 :
                    /\ Getters2[key] = Fields2[kind][key]
                    /\ ~StoresVector(kind, key)
    <3> USE KeysAssumption DEF StoresVector
    <3>1. CASE kind = "version"
      <4>1. Fields2[kind] = Typed({"version"}, {"rinex type"}, {}, {})
        BY <3>1 DEF Fields2
      <4> QED
        BY <3>1, <4>1 DEF Getters2, Typed
    <3>2. CASE kind = "program"
      <4>1. Fields2[kind] = Typed({}, {"program", "runner", "date"}, {}, {})
        BY <3>2 DEF Fields2
      <4> QED
        BY <3>2, <4>1 DEF Getters2, Typed
    <3>3. CASE kind = "ion alpha"
      <4>1. Fields2[kind] = Typed({}, {}, {}, {"iona"})
        BY <3>3 DEF Fields2
      <4> QED
        BY <3>3, <4>1 DEF Getters2, Typed
    <3>4. CASE kind = "ion beta"
      <4>1. Fields2[kind] = Typed({}, {}, {}, {"ionb"})
        BY <3>4 DEF Fields2
      <4> QED
        BY <3>4, <4>1 DEF Getters2, Typed
    <3>5. CASE kind = "delta utc"
      <4>1. Fields2[kind] = Typed({"a0", "a1"}, {}, {"T", "W"}, {})
        BY <3>5 DEF Fields2
      <4> QED
        BY <3>5, <4>1 DEF Getters2, Typed
    <3>6. CASE kind = "leap seconds"
      <4>1. Fields2[kind] = Typed({}, {}, {"leap seconds"}, {})
        BY <3>6 DEF Fields2
      <4> QED
        BY <3>6, <4>1 DEF Getters2, Typed
    <3> QED
      BY <2>2, <2>3, <3>1, <3>2, <3>3, <3>4, <3>5, <3>6
  <2>4. "comment" \notin DOMAIN Fields2
    BY <2>2
  <2>5. DOMAIN Getters(fmt) = DOMAIN Getters2 \cup {"comments"}
    BY <1>1, <2>1
  <2> HIDE DEF asked
  <2> QED
    BY <1>1, <1>3, <2>1, <2>3, <2>4, <2>5
<1> QED
  BY <1>2, <1>3

-----------------------------------------------------------------------------
(* Lines of the header *)

LEMMA LastIs ==
  ASSUME NEW S \in SUBSET Nat, NEW n \in S, \A m \in S : m <= n
  PROVE  Last(S) = n
<1>1. \A m \in S : m = n \/ ~ (n <= m)
  OBVIOUS
<1> QED
  BY <1>1 DEF Last

(* A line of the header more, whatever it is. *)
LEMMA LineMore ==
  ASSUME HeaderInv, NEW kind \in Kinds, head' = Append(head, kind), fmt' = fmt
  PROVE  /\ Len(head) \in Nat /\ DOMAIN head = 1..Len(head)
         /\ head' \in Seq(Kinds) /\ Kinds' = Kinds
         /\ Len(head') = Len(head) + 1
         /\ DOMAIN head' = 1..(Len(head) + 1)
         /\ head'[Len(head) + 1] = kind
         /\ \A p \in DOMAIN head : head'[p] = head[p]
<1>1. head \in Seq(Kinds)
  BY DEF HeaderInv
<1>2. Len(head) \in Nat /\ DOMAIN head = 1..Len(head)
  BY <1>1
<1>3. Kinds' = Kinds
  BY DEF Kinds
<1> QED
  BY <1>1, <1>2, <1>3, AppendGives

(* No line of fields stores comments. *)
LEMMA CommentsLast ==
  ASSUME HeaderInv
  PROVE  ~Overwritten("comments")
<1>1. head \in Seq(Kinds) /\ fmt \in {2, 3}
  BY DEF HeaderInv, TableParts
<1>2. \A n \in DOMAIN head : head[n] \in Kinds
  BY <1>1
<1>3. Storing("comments") = {}
  BY <1>1, <1>2, FieldsFitGetters DEF Storing, Kinds
<1> QED
  BY <1>3 DEF Overwritten

LEMMA FieldsLine ==
  ASSUME HeaderInv, NEW kind \in DOMAIN Fields(fmt),
         head' = Append(head, kind), fmt' = fmt,
         tab' = Stored(tab, kind, Len(head'))
  PROVE  HeaderInv'
<1> DEFINE n == Len(head) + 1
           types == Fields(fmt)[kind]
           values == [k \in DOMAIN types |-> [type |-> types[k], value |-> n]]
<1>0. kind \in Kinds
  BY DEF Kinds
<1>1. /\ Len(head) \in Nat /\ DOMAIN head = 1..Len(head)
      /\ head' \in Seq(Kinds) /\ Kinds' = Kinds
      /\ Len(head') = n
      /\ DOMAIN head' = 1..n
      /\ head'[n] = kind
      /\ \A p \in DOMAIN head : head'[p] = head[p]
  BY <1>0, LineMore
<1>2. /\ TableParts
      /\ DOMAIN tab.meta = DOMAIN tab.metaInfo
      /\ FieldsStored /\ CommentsStored /\ GettersAccept
      /\ fmt \in {2, 3}
  BY DEF HeaderInv, TableParts
<1>3. /\ "comment" \notin DOMAIN Fields(fmt)
      /\ "comments" \notin DOMAIN types
      /\ \A key \in DOMAIN types \cap DOMAIN Getters(fmt) :
           Getters(fmt)[key] = types[key] <=>
             (fmt = 3 => key \notin {"a0", "a1"}) /\ ~StoresVector(kind, key)
  BY <1>2, FieldsFitGetters
<1>4. tab' = [tab EXCEPT !.meta = PutAll(@, values), !.metaInfo = PutAll(@, types)]
  BY <1>1 DEF Stored
<1>5. /\ TableParts'
      /\ tab'.meta = PutAll(tab.meta, values)
      /\ tab'.metaInfo = PutAll(tab.metaInfo, types)
  BY <1>2, <1>4 DEF TableParts
<1>6. /\ DOMAIN values = DOMAIN types
      /\ \A k \in DOMAIN types : values[k].value = n
  OBVIOUS
<1> HIDE DEF values, types
<1>7. /\ DOMAIN tab'.meta = DOMAIN tab.meta \cup DOMAIN types
      /\ DOMAIN tab'.metaInfo = DOMAIN tab'.meta
      /\ \A k \in DOMAIN types : tab'.meta[k].value = n /\ tab'.metaInfo[k] = types[k]
      /\ \A k \in DOMAIN tab.meta \ DOMAIN types :
           tab'.meta[k] = tab.meta[k] /\ tab'.metaInfo[k] = tab.metaInfo[k]
  <2>1. /\ DOMAIN tab'.meta = DOMAIN tab.meta \cup DOMAIN types
        /\ \A k \in DOMAIN types : tab'.meta[k] = values[k]
        /\ \A k \in DOMAIN tab.meta \ DOMAIN types : tab'.meta[k] = tab.meta[k]
    <3>1. /\ DOMAIN PutAll(tab.meta, values) = DOMAIN tab.meta \cup DOMAIN values
          /\ \A k \in DOMAIN values : PutAll(tab.meta, values)[k] = values[k]
          /\ \A k \in DOMAIN tab.meta \ DOMAIN values :
               PutAll(tab.meta, values)[k] = tab.meta[k]
      BY PutAllGives, Zenon
    <3> QED
      BY <1>5, <1>6, <3>1
  <2>2. /\ DOMAIN tab'.metaInfo = DOMAIN tab.metaInfo \cup DOMAIN types
        /\ \A k \in DOMAIN types : tab'.metaInfo[k] = types[k]
        /\ \A k \in DOMAIN tab.metaInfo \ DOMAIN types :
             tab'.metaInfo[k] = tab.metaInfo[k]
    <3>1. /\ DOMAIN PutAll(tab.metaInfo, types) =
               DOMAIN tab.metaInfo \cup DOMAIN types
          /\ \A k \in DOMAIN types : PutAll(tab.metaInfo, types)[k] = types[k]
          /\ \A k \in DOMAIN tab.metaInfo \ DOMAIN types :
               PutAll(tab.metaInfo, types)[k] = tab.metaInfo[k]
      BY PutAllGives, Zenon
    <3> QED
      BY <1>5, <3>1
  <2> QED
    BY <1>2, <1>6, <2>1, <2>2
<1>8. Comments' = Comments
  <2>1. \A p \in DOMAIN head' : p \in DOMAIN head \/ p = n
    BY <1>1
  <2>2. \A p \in DOMAIN head : p \in DOMAIN head'
    BY <1>1
  <2>3. head'[n] # "comment"
    BY <1>1, <1>3
  <2> QED
    BY <1>1, <2>1, <2>2, <2>3 DEF Comments
<1>9. ASSUME NEW key
      PROVE  Storing(key)' = IF key \in DOMAIN types THEN Storing(key) \cup {n}
                             ELSE Storing(key)
  <2>1. \A p : p \in DOMAIN head' <=> p \in DOMAIN head \/ p = n
    BY <1>1
  <2>2. n \notin DOMAIN head
    BY <1>1
  <2>3. head'[n] # "comment" /\ Fields(fmt)[head'[n]] = types
    BY <1>1, <1>3 DEF types
  <2>4. Storing(key)' =
          {p \in DOMAIN head' : head'[p] # "comment" /\ key \in DOMAIN Fields(fmt)[head'[p]]}
    BY DEF Storing
  <2>5. Storing(key) =
          {p \in DOMAIN head : head[p] # "comment" /\ key \in DOMAIN Fields(fmt)[head[p]]}
    BY DEF Storing
  <2>6. \A p \in DOMAIN head : p \in Storing(key)' <=> p \in Storing(key)
    BY <1>1, <2>1, <2>4, <2>5
  <2>7. n \in Storing(key)' <=> key \in DOMAIN types
    BY <2>1, <2>3, <2>4
  <2>8. Storing(key) \subseteq DOMAIN head /\ Storing(key)' \subseteq DOMAIN head \cup {n}
    BY <2>1, <2>4, <2>5
  <2> HIDE DEF n
  <2>9. CASE key \in DOMAIN types
    BY <2>2, <2>6, <2>7, <2>8, <2>9
  <2>10. CASE key \notin DOMAIN types
    <3>1. \A p : p \in Storing(key)' <=> p \in Storing(key)
      BY <2>2, <2>6, <2>7, <2>8, <2>10
    <3>2. Storing(key)' = Storing(key)
      BY <3>1
    <3> QED
      BY <3>2, <2>10
  <2> QED
    BY <2>9, <2>10
<1>10. FieldsStored'
  <2>1. ASSUME NEW key \in DOMAIN tab'.meta \ {"comments"}
        PROVE  Storing(key)' # {} /\ tab'.meta[key].value = Last(Storing(key)')
    <3>1. CASE key \in DOMAIN types
      <4>1. Storing(key)' = Storing(key) \cup {n}
        BY <1>9, <3>1
      <4>2. Storing(key) \subseteq 1..Len(head)
        BY <1>1 DEF Storing
      <4>3. Storing(key)' \in SUBSET Nat /\ n \in Storing(key)'
            /\ \A m \in Storing(key)' : m <= n
        BY <1>1, <4>1, <4>2
      <4>4. Last(Storing(key)') = n
        BY <4>3, LastIs
      <4> QED
        BY <1>7, <3>1, <4>3, <4>4
    <3>2. CASE key \notin DOMAIN types
      <4>1. Storing(key)' = Storing(key) /\ key \in DOMAIN tab.meta \ {"comments"}
        BY <1>7, <1>9, <2>1, <3>2
      <4> QED
        BY <1>2, <1>7, <3>2, <4>1 DEF FieldsStored
    <3> QED
      BY <3>1, <3>2
  <2>2. ASSUME NEW p \in DOMAIN head' \ Comments'
        PROVE  DOMAIN Fields(fmt)[head'[p]] \subseteq DOMAIN tab'.meta
    <3>1. CASE p = n
      BY <1>1, <1>7, <3>1 DEF types
    <3>2. CASE p # n
      <4>1. p \in DOMAIN head \ Comments /\ head'[p] = head[p]
        BY <1>1, <1>8, <2>2, <3>2
      <4> QED
        BY <1>2, <1>7, <4>1 DEF FieldsStored
    <3> QED
      BY <3>1, <3>2
  <2> QED
    BY <2>1, <2>2 DEF FieldsStored
<1>11. CommentsStored'
  BY <1>2, <1>3, <1>7, <1>8 DEF CommentsStored
<1>12. GettersAccept'
  <2> SUFFICES ASSUME NEW key \in DOMAIN Getters(fmt) \cap DOMAIN tab'.meta
               PROVE  MetaAtAccepts(tab', Getters(fmt)[key], key) <=>
                        /\ fmt = 3 => key \notin {"a0", "a1"}
                        /\ ~Overwritten(key)'
    BY DEF GettersAccept
  <2>1. CASE key \in DOMAIN types
    <3>1. Storing(key)' = Storing(key) \cup {n} /\ Storing(key) \subseteq 1..Len(head)
      BY <1>1, <1>9, <2>1 DEF Storing
    <3>2. n \in Storing(key)' /\ \A m \in Storing(key)' : m \in Nat /\ m <= n
      BY <1>1, <3>1
    <3>3. \A p \in Storing(key)' : (\A m \in Storing(key)' : m <= p) => p = n
      BY <1>1, <3>2
    <3> HIDE DEF n
    <3>4. Overwritten(key)' <=> StoresVector(kind, key)
      BY <1>1, <3>2, <3>3 DEF Overwritten, StoresVector, Keys
    <3> QED
      BY <1>3, <1>7, <2>1, <3>4 DEF MetaAtAccepts
  <2>2. CASE key \notin DOMAIN types
    <3>1. key \in DOMAIN tab.meta
      BY <1>7, <2>2
    <3>2. Storing(key)' = Storing(key) /\ Storing(key) \subseteq DOMAIN head
      BY <1>9, <2>2 DEF Storing
    <3>3. Overwritten(key)' <=> Overwritten(key)
      BY <1>1, <3>2 DEF Overwritten, Keys
    <3> QED
      BY <1>2, <1>7, <2>2, <3>1, <3>3 DEF GettersAccept, MetaAtAccepts
  <2> QED
    BY <2>1, <2>2
<1> QED
  BY <1>1, <1>5, <1>7, <1>10, <1>11, <1>12 DEF HeaderInv

LEMMA CommentLine ==
  ASSUME HeaderInv, head' = Append(head, "comment"), fmt' = fmt,
         tab' = IF MetaAtAccepts(tab, "Tab_Vector_String", "comments")
                THEN [tab EXCEPT !.meta["comments"].value = Append(@, Len(head'))]
                ELSE MetaIoa(tab, "Tab_Vector_String", "comments", <<Len(head')>>)
  PROVE  HeaderInv'
<1> DEFINE n == Len(head) + 1
           key == "comments"
<1>0. "comment" \in Kinds
  BY DEF Kinds
<1>1. /\ Len(head) \in Nat /\ DOMAIN head = 1..Len(head)
      /\ head' \in Seq(Kinds) /\ Kinds' = Kinds
      /\ Len(head') = n
      /\ DOMAIN head' = 1..n
      /\ head'[n] = "comment"
      /\ \A p \in DOMAIN head : head'[p] = head[p]
  BY <1>0, LineMore
<1>2. /\ TableParts
      /\ DOMAIN tab.meta = DOMAIN tab.metaInfo
      /\ FieldsStored /\ CommentsStored /\ GettersAccept
      /\ fmt \in {2, 3}
  BY DEF HeaderInv, TableParts
<1>3. key \in DOMAIN Getters(fmt) /\ Getters(fmt)[key] = "Tab_Vector_String"
  BY <1>2, FieldsFitGetters
<1>4. key \in DOMAIN tab.meta => MetaAtAccepts(tab, "Tab_Vector_String", key)
  BY <1>2, <1>3, CommentsLast DEF GettersAccept
<1>5. Comments' = Comments \cup {n} /\ n \notin Comments
      /\ Comments \subseteq 1..Len(head)
  <2>1. \A p : p \in DOMAIN head' <=> p \in DOMAIN head \/ p = n
    BY <1>1
  <2>2. n \notin DOMAIN head
    BY <1>1
  <2>3. \A p : p \in Comments' <=> p \in Comments \/ p = n
    BY <1>1, <2>1, <2>2 DEF Comments
  <2> QED
    BY <1>1, <2>2, <2>3 DEF Comments
<1>6. ASSUME NEW k PROVE Storing(k)' = Storing(k)
  <2>1. \A p : p \in DOMAIN head' <=> p \in DOMAIN head \/ p = n
    BY <1>1
  <2>2. n \notin DOMAIN head
    BY <1>1
  <2>3. \A p : p \in Storing(k)' <=> p \in Storing(k)
    BY <1>1, <2>1, <2>2 DEF Storing
  <2>4. Storing(k) \subseteq DOMAIN head /\ Storing(k)' \subseteq DOMAIN head'
    BY DEF Storing
  <2> QED
    BY <2>3, <2>4
<1>7. /\ TableParts'
      /\ DOMAIN tab'.meta = DOMAIN tab.meta \cup {key}
      /\ DOMAIN tab'.metaInfo = DOMAIN tab'.meta
      /\ \A k \in DOMAIN tab.meta \ {key} :
           tab'.meta[k] = tab.meta[k] /\ tab'.metaInfo[k] = tab.metaInfo[k]
      /\ tab'.metaInfo[key] = "Tab_Vector_String"
  <2>1. CASE key \in DOMAIN tab.meta
    <3>1. tab' = [tab EXCEPT !.meta[key].value = Append(@, Len(head'))]
      BY <1>4, <2>1
    <3>2. tab.metaInfo[key] = "Tab_Vector_String"
      BY <1>4, <2>1 DEF MetaAtAccepts
    <3> QED
      BY <1>2, <2>1, <3>1, <3>2 DEF TableParts
  <2>2. CASE key \notin DOMAIN tab.meta
    <3>1. tab' = [tab EXCEPT !.meta = Put(@, key, [type |-> "Tab_Vector_String",
                                                   value |-> <<Len(head')>>]),
                             !.metaInfo = Put(@, key, "Tab_Vector_String")]
      BY <2>2 DEF MetaAtAccepts, MetaIoa
    <3>2. /\ TableParts'
          /\ tab'.meta = Put(tab.meta, key, [type |-> "Tab_Vector_String",
                                             value |-> <<Len(head')>>])
          /\ tab'.metaInfo = Put(tab.metaInfo, key, "Tab_Vector_String")
      BY <1>2, <3>1 DEF TableParts
    <3> QED
      BY <1>2, <3>2 DEF Put
  <2> QED
    BY <2>1, <2>2
<1>8. CommentsStored'
  <2> SUFFICES
        /\ DOMAIN tab'.meta[key] = {"type", "value"}
        /\ tab'.meta[key].value \in Seq(Nat)
        /\ RangeOf(tab'.meta[key].value) = Comments'
        /\ \A p, q \in DOMAIN tab'.meta[key].value :
             p < q => tab'.meta[key].value[p] < tab'.meta[key].value[q]
    BY <1>5, <1>7 DEF CommentsStored
  <2>1. CASE key \in DOMAIN tab.meta
    <3> DEFINE kept == tab.meta[key].value
               kept1 == tab'.meta[key].value
    <3>1. /\ DOMAIN tab.meta[key] = {"type", "value"}
          /\ kept \in Seq(Nat)
          /\ RangeOf(kept) = Comments
          /\ \A p, q \in DOMAIN kept : p < q => kept[p] < kept[q]
      BY <1>2, <2>1 DEF CommentsStored
    <3>2. tab' = [tab EXCEPT !.meta[key].value = Append(@, n)]
      BY <1>1, <1>4, <2>1
    <3>3. kept1 = Append(kept, n) /\ DOMAIN tab'.meta[key] = {"type", "value"}
      BY <1>2, <2>1, <3>1, <3>2 DEF TableParts
    <3> HIDE DEF kept, kept1
    <3>4. n \in Nat
      BY <1>1
    <3>5. Len(kept) \in Nat /\ DOMAIN kept = 1..Len(kept)
      BY <3>1
    <3>6. /\ kept1 \in Seq(Nat)
          /\ DOMAIN kept1 = 1..(Len(kept) + 1)
          /\ kept1[Len(kept) + 1] = n
          /\ \A p \in 1..Len(kept) : kept1[p] = kept[p]
      BY <3>1, <3>3, <3>4, AppendGives
    <3>7. RangeOf(kept1) = Comments'
      <4>1. \A p : p \in DOMAIN kept1 <=> p \in DOMAIN kept \/ p = Len(kept) + 1
        BY <3>5, <3>6
      <4>2. RangeOf(kept1) = RangeOf(kept) \cup {n}
        BY <3>5, <3>6, <4>1 DEF RangeOf
      <4> QED
        BY <1>5, <3>1, <4>2
    <3>8. ASSUME NEW p \in DOMAIN kept1, NEW q \in DOMAIN kept1, p < q
          PROVE  kept1[p] < kept1[q]
      <4>1. p \in DOMAIN kept /\ kept1[p] = kept[p] /\ kept[p] \in Comments
        BY <3>1, <3>5, <3>6, <3>8 DEF RangeOf
      <4>2. CASE q = Len(kept) + 1
        BY <1>1, <1>5, <3>6, <4>1, <4>2
      <4>3. CASE q # Len(kept) + 1
        <5>1. p < q
          BY <3>8
        <5>2. q \in DOMAIN kept
          BY <3>5, <3>6, <3>8, <4>3
        <5>3. kept1[q] = kept[q]
          BY <3>5, <3>6, <5>2
        <5>4. kept[p] < kept[q]
          BY ONLY <3>1, <4>1, <5>1, <5>2
        <5> QED
          BY ONLY <4>1, <5>3, <5>4
      <4> QED
        BY <4>2, <4>3
    <3> QED
      BY <3>3, <3>6, <3>7, <3>8 DEF kept1
  <2>2. CASE key \notin DOMAIN tab.meta
    <3>1. Comments = {}
      BY <1>2, <2>2 DEF CommentsStored
    <3>2. tab' = [tab EXCEPT !.meta = Put(@, key, [type |-> "Tab_Vector_String",
                                                   value |-> <<n>>]),
                             !.metaInfo = Put(@, key, "Tab_Vector_String")]
      BY <1>1, <2>2 DEF MetaAtAccepts, MetaIoa
    <3> DEFINE r == [type |-> "Tab_Vector_String", value |-> <<n>>]
    <3>3. r.value = <<n>> /\ DOMAIN r = {"type", "value"}
      OBVIOUS
    <3> HIDE DEF r
    <3>4. tab'.meta = Put(tab.meta, key, r)
      BY <1>2, <3>2 DEF TableParts, r
    <3>4a. tab'.meta[key] = r
      BY <3>4 DEF Put
    <3>5. n \in Nat /\ Comments' = {n}
      BY <1>1, <1>5, <3>1
    <3>6. RangeOf(<<n>>) = {n}
      BY DEF RangeOf
    <3> QED
      <4>1. tab'.meta[key].value = <<n>>
        BY <3>3, <3>4a
      <4>2. <<n>> \in Seq(Nat) /\ \A p, q \in DOMAIN <<n>> : ~ (p < q)
        BY <3>5
      <4> HIDE DEF n
      <4> QED
        BY <3>3, <3>4a, <3>5, <3>6, <4>1, <4>2
  <2> QED
    BY <2>1, <2>2
<1>9. FieldsStored'
  <2>1. ASSUME NEW p \in DOMAIN head' \ Comments'
        PROVE  DOMAIN Fields(fmt)[head'[p]] \subseteq DOMAIN tab'.meta
    <3>1. p \in DOMAIN head \ Comments /\ head'[p] = head[p]
      BY <1>1, <1>5, <2>1
    <3> QED
      BY <1>2, <1>7, <3>1 DEF FieldsStored
  <2> QED
    BY <1>2, <1>6, <1>7, <2>1 DEF FieldsStored
<1>10. \A k : Overwritten(k)' <=> Overwritten(k)
  <2> SUFFICES ASSUME NEW k PROVE Overwritten(k)' <=> Overwritten(k)
    OBVIOUS
  <2>1. Storing(k)' = Storing(k) /\ Storing(k) \subseteq DOMAIN head
    BY <1>6 DEF Storing
  <2> QED
    BY <1>1, <2>1 DEF Overwritten, Keys
<1>11. GettersAccept'
  <2> SUFFICES ASSUME NEW k \in DOMAIN Getters(fmt) \cap DOMAIN tab'.meta
               PROVE  MetaAtAccepts(tab', Getters(fmt)[k], k) <=>
                        (fmt = 3 => k \notin {"a0", "a1"}) /\ ~Overwritten(k)'
    BY DEF GettersAccept
  <2>1. CASE k = key
    BY <1>3, <1>7, <1>10, <2>1, CommentsLast DEF MetaAtAccepts
  <2>2. CASE k # key
    <3>1. k \in DOMAIN tab.meta
      BY <1>7, <2>2
    <3> QED
      BY <1>2, <1>7, <1>10, <2>2, <3>1 DEF GettersAccept, MetaAtAccepts
  <2> QED
    BY <2>1, <2>2
<1> QED
  BY <1>1, <1>7, <1>8, <1>9, <1>11 DEF HeaderInv

LEMMA HeaderSame ==
  ASSUME HeaderInv, fmt' = fmt, head' = head, DOMAIN tab' = DOMAIN tab,
         tab'.meta = tab.meta, tab'.metaInfo = tab.metaInfo
  PROVE  HeaderInv'
<1>1. TableParts' /\ Kinds' = Kinds /\ Comments' = Comments
  BY DEF HeaderInv, TableParts, Kinds, Comments
<1>2. \A key : Storing(key)' = Storing(key)
  BY DEF Storing
<1>3. FieldsStored' /\ CommentsStored'
  BY <1>1, <1>2 DEF HeaderInv, FieldsStored, CommentsStored
<1>4. GettersAccept'
  <2>1. \A key : Overwritten(key)' <=> Overwritten(key)
    BY <1>2 DEF Overwritten, Keys
  <2> QED
    BY <2>1 DEF HeaderInv, GettersAccept, MetaAtAccepts
<1> QED
  BY <1>1, <1>3, <1>4 DEF HeaderInv

LEMMA HeaderInitInv == Init => HeaderInv
<1> SUFFICES ASSUME Init PROVE HeaderInv
  OBVIOUS
<1>1. TableParts
  BY DEF Init, TableParts, EmptyTable
<1>2. head \in Seq(Kinds) /\ DOMAIN head = {}
  BY DEF Init
<1>3. DOMAIN tab.meta = {} /\ DOMAIN tab.metaInfo = {}
  BY DEF Init, EmptyTable, EmptyMap
<1>4. FieldsStored /\ CommentsStored /\ GettersAccept
  BY <1>2, <1>3 DEF FieldsStored, CommentsStored, GettersAccept, Comments
<1> QED
  BY <1>1, <1>2, <1>3, <1>4 DEF HeaderInv

(* Pushing columns leaves the meta data alone, and reading records the     *)
(* whole table.                                                            *)
LEMMA HeaderStepInv == HeaderInv /\ [Next]_vars => HeaderInv'
<1> SUFFICES ASSUME HeaderInv, [Next]_vars PROVE HeaderInv'
  OBVIOUS
<1> USE DEF HeaderLine, dataVars, headVars
<1>1. ASSUME NEW kind \in DOMAIN Fields(fmt), ReadField(kind)
      PROVE  HeaderInv'
  BY <1>1, FieldsLine DEF ReadField
<1>2. CASE ReadComment
  BY <1>2, CommentLine DEF ReadComment
<1>3. CASE ReadTimeCorr
  <2> DEFINE kind == IF stage = 0 THEN "first time corr" ELSE "later time corr"
  <2>1. kind \in DOMAIN Fields(fmt)
    BY <1>3 DEF ReadTimeCorr, Fields, Fields3
  <2>2. fmt' = fmt /\ head' = Append(head, kind) /\ tab' = Stored(tab, kind, Len(head'))
    BY <1>3 DEF ReadTimeCorr
  <2> HIDE DEF kind
  <2> QED
    BY <2>1, <2>2, FieldsLine
<1>4. ASSUME UNCHANGED <<fmt, head, tab>> PROVE HeaderInv'
  BY <1>4, HeaderSame
<1>5. CASE EndHeader
  BY <1>4, <1>5 DEF EndHeader
<1>6. CASE BadHeaderLine
  BY <1>4, <1>6 DEF BadHeaderLine
<1>7. ASSUME NEW kind \in FirstLines, ReadFirst(kind) PROVE HeaderInv'
  BY <1>4, <1>7 DEF ReadFirst
<1>8. ASSUME NEW kind \in OtherLines, ReadOther(kind) PROVE HeaderInv'
  BY <1>4, <1>8 DEF ReadOther
<1>9. CASE StreamEndsInRecord
  BY <1>4, <1>9 DEF StreamEndsInRecord
<1>10. CASE ReadRecord
  BY <1>4, <1>10 DEF ReadRecord
<1>11. CASE EndRecords
  BY <1>4, <1>11 DEF EndRecords
<1>12. ASSUME NEW flag, NEW cells, NEW name,
              fmt' = fmt, head' = head,
              tab' = PushBack(tab, flag, cells, name) \/ tab' = tab
       PROVE  HeaderInv'
  <2>1. DOMAIN tab = {"storage", "info", "names", "meta", "metaInfo"}
    BY DEF HeaderInv, TableParts
  <2>2. DOMAIN tab' = DOMAIN tab /\ tab'.meta = tab.meta /\ tab'.metaInfo = tab.metaInfo
    BY <1>12, <2>1 DEF PushBack
  <2> QED
    BY <1>12, <2>2, HeaderSame
<1>13. CASE PushSystems
  BY <1>12, <1>13 DEF PushSystems
<1>14. ASSUME NEW g \in Groups, PushColumn(g) PROVE HeaderInv'
  BY <1>12, <1>14 DEF PushColumn
<1>15. CASE Finish
  BY <1>4, <1>15 DEF Finish
<1>16. CASE UNCHANGED vars
  BY <1>4, <1>16 DEF vars
<1> QED
  BY <1>1, <1>2, <1>3, <1>5, <1>6, <1>7, <1>8, <1>9, <1>10, <1>11, <1>13,
     <1>14, <1>15, <1>16 DEF Next

(* A call that returns has kept its header, whatever lines came in         *)
(* whatever order (rinex3/nav.cpp:292-383, rinex2/nav.cpp:108-171).        *)
THEOREM HeadersKept == Spec => []HeaderKept
<1>1. HeaderInv => HeaderKept
  BY DEF HeaderInv, FieldsStored, CommentsStored, HeaderKept, Comments
<1> QED
  BY <1>1, HeaderInitInv, HeaderStepInv, PTL DEF Spec

(* A getter asks for the type that the header stored last, in all cases    *)
(* but the two in which it aborts: the coefficients of a Rinex 3 header,   *)
(* and a field that an IONOSPHERIC CORR line named (rinex3/nav.cpp:74-135, *)
(* 322-336, rinex2/nav.cpp:32-75).                                         *)
THEOREM GettersFit == Spec => []GettersAccept
<1>1. HeaderInv => GettersAccept
  BY DEF HeaderInv
<1> QED
  BY <1>1, HeaderInitInv, HeaderStepInv, PTL DEF Spec

-----------------------------------------------------------------------------
(* The records *)

LEMMA RecordsSame ==
  ASSUME RecordsInv, TableParts', fmt' = fmt, line' \in ARecord, recs' = recs,
         sys' = sys, cols' = cols, tab'.storage = tab.storage,
         pc' \in {"header", "data"} => pc \in {"header", "data"},
         pc' = "done" =>
           pc = "done" \/ ColumnSize(tab) = ColumnOfLine(SubLines + 1) + 1
  PROVE  RecordsInv'
BY DEF RecordsInv, Aligned, ColumnOfLine, ColumnSize, Cells

LEMMA RecordsInitInv == Init => RecordsInv
<1> SUFFICES ASSUME Init PROVE RecordsInv
  OBVIOUS
<1>1. /\ TableParts /\ tab.storage = <<>> /\ pc = "header"
      /\ line = <<>> /\ recs = <<>> /\ sys = <<>>
      /\ cols = [g \in Groups |-> <<>>]
  BY DEF Init, TableParts, EmptyTable
<1>2. /\ line \in ARecord /\ recs \in Seq(ARecord) /\ sys \in Seq(Systems)
      /\ cols \in [Groups -> Seq(Field)] /\ tab.storage \in Seq(AColumn)
  BY <1>1 DEF ARecord
<1>3. \A g \in Groups : Aligned(cols[g], g)
  BY <1>1 DEF Aligned
<1>4. \A g \in Groups : ~ (ColumnOfLine(g) < ColumnSize(tab))
  BY <1>1, RinexAssumption DEF Groups, ColumnOfLine, ColumnSize, TableParts
<1> QED
  BY <1>1, <1>2, <1>3, <1>4 DEF RecordsInv

(* A field is what its line has, unless the first line is too long. *)
LEMMA ValueIs ==
  ASSUME NEW rec \in ARecord, NEW g \in Groups,
         NEW v \in {"number", "zero", "shifted"}, v \in Value(rec, g),
         Parses(rec), rec[1] # "long"
  PROVE  v = IF rec[g] = "blank" THEN "zero" ELSE "number"
<1>1. rec[1] \notin {"long", "short"}
  BY DEF Parses
<1>2. CASE rec[g] = "bad"
  BY <1>1, <1>2 DEF Value
<1>3. CASE rec[g] = "blank"
  BY <1>1, <1>3 DEF Value
<1>4. CASE rec[g] # "bad" /\ rec[g] # "blank"
  BY <1>1, <1>4 DEF Value
<1> QED
  BY <1>2, <1>3, <1>4

(* A record parsed becomes the last of every vector. *)
LEMMA RecordMore ==
  ASSUME RecordsInv, pc = "data", UNCHANGED <<fmt, tab, pc>>,
         NEW v \in [Groups -> {"number", "zero", "shifted"}],
         Parses(line), \A g \in Groups : v[g] \in Value(line, g),
         cols' = [g \in Groups |->
                    Append(cols[g], [rec |-> Len(recs) + 1, as |-> v[g]])],
         recs' = Append(recs, line), line' = <<>>, sys' \in Seq(Systems)
  PROVE  RecordsInv'
<1> DEFINE n == Len(recs) + 1
<1>1. /\ line \in ARecord /\ recs \in Seq(ARecord)
      /\ cols \in [Groups -> Seq(Field)] /\ tab.storage = <<>>
      /\ \A g \in Groups : Aligned(cols[g], g)
      /\ TableParts
  BY DEF RecordsInv
<1>2. Len(recs) \in Nat /\ n \in Nat /\ DOMAIN recs = 1..Len(recs)
  BY <1>1
<1>3. /\ recs' \in Seq(ARecord) /\ Len(recs') = n
      /\ DOMAIN recs' = 1..n /\ recs'[n] = line
      /\ \A r \in 1..Len(recs) : recs'[r] = recs[r]
  BY <1>1, AppendGives
<1>4. ASSUME NEW g \in Groups
      PROVE  cols'[g] \in Seq(Field) /\ Aligned(cols[g], g)'
  <2> DEFINE e == [rec |-> n, as |-> v[g]]
             c == cols[g]
             c1 == cols'[g]
  <2>1. c \in Seq(Field) /\ e \in Field /\ c1 = Append(c, e)
    BY <1>1, <1>2 DEF Field
  <2>2. e.rec = n /\ e.as = v[g]
    OBVIOUS
  <2>3. /\ Len(c) = Len(recs)
        /\ \A r \in DOMAIN recs :
             /\ c[r].rec = r
             /\ recs[r][1] # "long" =>
                  c[r].as = IF recs[r][g] = "blank" THEN "zero" ELSE "number"
    BY <1>1 DEF Aligned
  <2>4. line[1] # "long" => v[g] = IF line[g] = "blank" THEN "zero" ELSE "number"
    BY <1>1, ValueIs
  <2> HIDE DEF e, c, c1
  <2>5. /\ c1 \in Seq(Field) /\ Len(c1) = Len(c) + 1
        /\ c1[Len(c) + 1] = e
        /\ \A r \in 1..Len(c) : c1[r] = c[r]
    BY <2>1, AppendGives
  <2>6. ASSUME NEW r \in DOMAIN recs'
        PROVE  /\ c1[r].rec = r
               /\ recs'[r][1] # "long" =>
                    c1[r].as = IF recs'[r][g] = "blank" THEN "zero" ELSE "number"
    <3>1. CASE r = n
      BY <1>3, <2>2, <2>3, <2>4, <2>5, <3>1
    <3>2. CASE r # n
      <4>1. r \in 1..Len(recs)
        BY <1>2, <1>3, <3>2
      <4> QED
        BY <1>2, <1>3, <2>3, <2>5, <4>1
    <3> QED
      BY <3>1, <3>2
  <2> QED
    BY <1>3, <2>3, <2>5, <2>6 DEF Aligned, c1
<1>5. cols' \in [Groups -> Seq(Field)]
  BY <1>4
<1>6. TableParts' /\ line' \in ARecord /\ tab'.storage = <<>>
  BY <1>1 DEF TableParts, ARecord
<1>7. \A g \in Groups : ~ (ColumnOfLine(g) < ColumnSize(tab))'
  BY <1>1, <1>6, RinexAssumption DEF Groups, ColumnOfLine, ColumnSize, TableParts
<1> QED
  BY <1>3, <1>4, <1>5, <1>6, <1>7 DEF RecordsInv

(* A column pushed is the vector of its group. *)
LEMMA ColumnMore ==
  ASSUME RecordsInv, pc = "push", UNCHANGED <<fmt, line, recs, sys, cols, pc>>,
         NEW flag \in Flags, NEW cells \in Seq(Systems) \cup Seq(Field), NEW name,
         tab' = PushBack(tab, flag, cells, name),
         \A g \in Groups : ColumnOfLine(g) = ColumnSize(tab) => cells = cols[g]
  PROVE  RecordsInv'
<1>1. TableParts /\ tab.storage \in Seq(AColumn)
  BY DEF RecordsInv
<1> DEFINE col == [type |-> flag, cells |-> cells]
           n == Len(tab.storage)
<1>2. col \in AColumn /\ col.cells = cells
  BY DEF AColumn
<1>3. TableParts' /\ tab'.storage = Append(tab.storage, col)
  BY <1>1 DEF TableParts, PushBack
<1> HIDE DEF col
<1>4. /\ tab'.storage \in Seq(AColumn)
      /\ Len(tab'.storage) = n + 1
      /\ tab'.storage[n + 1] = col
      /\ \A p \in 1..n : tab'.storage[p] = tab.storage[p]
      /\ n \in Nat
  BY <1>1, <1>2, <1>3, AppendGives
<1> HIDE DEF n
<1>5. ASSUME NEW g \in Groups, (ColumnOfLine(g) < ColumnSize(tab))'
      PROVE  (Cells(tab, ColumnOfLine(g)) = cols[g])'
  <2> DEFINE k == ColumnOfLine(g)
  <2>1. k \in Nat /\ ColumnOfLine(g)' = k
    BY <1>1, RinexAssumption DEF Groups, ColumnOfLine, TableParts
  <2>2. ColumnSize(tab) = n /\ ColumnSize(tab)' = n + 1
    BY <1>4 DEF ColumnSize, n
  <2> HIDE DEF k
  <2>3. CASE k = n
    BY <1>2, <1>4, <2>1, <2>2, <2>3 DEF Cells, k
  <2>4. CASE k # n
    <3>1. k < n /\ k + 1 \in 1..n
      BY <1>4, <1>5, <2>1, <2>2, <2>4
    <3>2. Cells(tab, k) = cols[g]
      BY <2>2, <3>1 DEF RecordsInv, k
    <3>3. tab'.storage[k + 1] = tab.storage[k + 1]
      BY <1>4, <3>1
    <3> QED
      BY <2>1, <3>2, <3>3 DEF Cells
  <2> QED
    BY <2>3, <2>4
<1>6. pc' = "push"
  OBVIOUS
<1> QED
  BY <1>3, <1>4, <1>5, <1>6 DEF RecordsInv, Aligned

LEMMA RecordsStepInv == RecordsInv /\ [Next]_vars => RecordsInv'
<1> SUFFICES ASSUME RecordsInv, [Next]_vars PROVE RecordsInv'
  OBVIOUS
<1> USE DEF dataVars, headVars
<1>1. /\ TableParts /\ line \in ARecord /\ sys \in Seq(Systems)
      /\ cols \in [Groups -> Seq(Field)]
  BY DEF RecordsInv
<1>2. ASSUME UNCHANGED <<fmt, line, recs, sys, cols, pc>>, TableParts',
             tab'.storage = tab.storage
      PROVE  RecordsInv'
  BY <1>1, <1>2, RecordsSame
<1>3. ASSUME NEW kind, tab' = Stored(tab, kind, Len(head')), fmt' = fmt
      PROVE  TableParts' /\ tab'.storage = tab.storage
  BY <1>1, <1>3 DEF TableParts, Stored
<1>4. ASSUME NEW kind \in DOMAIN Fields(fmt), ReadField(kind)
      PROVE  RecordsInv'
  <2>1. tab' = Stored(tab, kind, Len(head')) /\ UNCHANGED <<fmt, line, recs, sys, cols, pc>>
    BY <1>4 DEF ReadField, HeaderLine
  <2> QED
    BY <1>2, <1>3, <2>1
<1>5. CASE ReadComment
  <2>1. UNCHANGED <<fmt, line, recs, sys, cols, pc>>
    BY <1>5 DEF ReadComment, HeaderLine
  <2>2. TableParts' /\ tab'.storage = tab.storage
    BY <1>1, <1>5, <2>1 DEF ReadComment, TableParts, MetaIoa
  <2> QED
    BY <1>2, <2>1, <2>2
<1>6. CASE ReadTimeCorr
  <2>1. UNCHANGED <<fmt, line, recs, sys, cols, pc>>
    BY <1>6 DEF ReadTimeCorr, HeaderLine
  <2>2. TableParts' /\ tab'.storage = tab.storage
    BY <1>3, <1>6, <2>1 DEF ReadTimeCorr
  <2> QED
    BY <1>2, <2>1, <2>2
<1>7. ASSUME UNCHANGED <<fmt, tab, recs, sys, cols>>, line' \in ARecord,
             pc' \in {"header", "data"} => pc \in {"header", "data"},
             pc' = "done" =>
               pc = "done" \/ ColumnSize(tab) = ColumnOfLine(SubLines + 1) + 1
      PROVE  RecordsInv'
  <2>1. TableParts'
    BY <1>1, <1>7 DEF TableParts
  <2> QED
    BY <1>7, <2>1, RecordsSame
<1>8. CASE EndHeader
  BY <1>1, <1>7, <1>8 DEF EndHeader
<1>9. CASE BadHeaderLine
  BY <1>1, <1>7, <1>9 DEF BadHeaderLine
<1>10. ASSUME NEW kind \in FirstLines, ReadFirst(kind) PROVE RecordsInv'
  BY <1>7, <1>10 DEF ReadFirst, ARecord
<1>11. ASSUME NEW kind \in OtherLines, ReadOther(kind) PROVE RecordsInv'
  <2>1. kind \in FirstLines
    BY DEF OtherLines, FirstLines
  <2>2. Append(line, kind) \in ARecord
    BY <1>1, <2>1 DEF ARecord
  <2> QED
    BY <1>1, <1>7, <1>11, <2>2 DEF ReadOther
<1>12. CASE StreamEndsInRecord
  BY <1>1, <1>7, <1>12 DEF StreamEndsInRecord
<1>13. CASE ReadRecord
  <2>1. CASE pc' = "abort" /\ UNCHANGED dataVars
    BY <1>1, <1>7, <1>13, <2>1 DEF ReadRecord
  <2>2. CASE \E v \in [Groups -> {"number", "zero", "shifted"}] :
               /\ Parses(line)
               /\ \A g \in Groups : v[g] \in Value(line, g)
               /\ cols' = [g \in Groups |->
                             Append(cols[g], [rec |-> Len(recs) + 1, as |-> v[g]])]
               /\ recs' = Append(recs, line)
               /\ line' = <<>>
               /\ IF fmt = 3 THEN \E c \in Systems : sys' = Append(sys, c)
                             ELSE UNCHANGED sys
               /\ UNCHANGED pc
    <3>1. sys' \in Seq(Systems)
      <4>1. sys' = sys \/ \E c \in Systems : sys' = Append(sys, c)
        BY <2>2
      <4> QED
        BY <1>1, <4>1
    <3>2. pc = "data" /\ UNCHANGED <<fmt, tab>>
      BY <1>13 DEF ReadRecord
    <3> QED
      BY <2>2, <3>1, <3>2, RecordMore
  <2> QED
    BY <1>13, <2>1, <2>2 DEF ReadRecord
<1>14. CASE EndRecords
  BY <1>1, <1>7, <1>14 DEF EndRecords
<1>15. CASE PushSystems
  <2>1. CASE tab' = tab
    BY <1>1, <1>7, <1>15, <2>1 DEF PushSystems
  <2>2. CASE tab' = PushBack(tab, "Tab_Sat_Sys", sys, "sat sys") /\ UNCHANGED pc
    <3>1. \A g \in Groups : ColumnOfLine(g) # ColumnSize(tab)
      <4>1. fmt = 3 /\ ColumnSize(tab) = 0
        BY <1>15 DEF PushSystems
      <4>2. \A g \in Groups : g # 0
        BY RinexAssumption DEF Groups
      <4> QED
        BY <4>1, <4>2 DEF ColumnOfLine
    <3>2. "Tab_Sat_Sys" \in Flags
      BY DEF Flags, ScalarFlags
    <3> QED
      BY <1>1, <1>15, <2>2, <3>1, <3>2, ColumnMore DEF PushSystems
  <2> QED
    BY <1>15, <2>1, <2>2 DEF PushSystems
<1>16. ASSUME NEW g \in Groups, PushColumn(g) PROVE RecordsInv'
  <2>1. CASE tab' = tab /\ pc' = "abort"
    BY <1>1, <1>7, <1>16, <2>1 DEF PushColumn
  <2>2. CASE tab' = PushBack(tab, "Tab_Double", cols[g], g) /\ UNCHANGED pc
    <3>1. \A h \in Groups : ColumnOfLine(h) = ColumnSize(tab) => h = g
      BY <1>16, RinexAssumption DEF PushColumn, Groups, ColumnOfLine
    <3>2. "Tab_Double" \in Flags
      BY DEF Flags, ScalarFlags
    <3>3. cols[g] \in Seq(Systems) \cup Seq(Field)
      BY <1>1
    <3>4. \A h \in Groups : ColumnOfLine(h) = ColumnSize(tab) => cols[g] = cols[h]
      BY <3>1
    <3> QED
      BY <1>16, <2>2, <3>2, <3>3, <3>4, ColumnMore DEF PushColumn
  <2> QED
    BY <1>16, <2>1, <2>2 DEF PushColumn
<1>17. CASE Finish
  BY <1>1, <1>7, <1>17 DEF Finish
<1>18. CASE UNCHANGED vars
  BY <1>1, <1>7, <1>18 DEF vars
<1> QED
  BY <1>4, <1>5, <1>6, <1>8, <1>9, <1>10, <1>11, <1>12, <1>13, <1>14, <1>15,
     <1>16, <1>17, <1>18 DEF Next

(* A table that is returned has the fields of record r in row r of every   *)
(* column, and a field is 0 only where the record has blanks               *)
(* (rinex3/nav.cpp:159-260, rinex2/nav.cpp:197-295).                       *)
THEOREM RecordsInRows == Spec => []RecordsAligned
<1>1. RecordsInv => RecordsAligned
  <2> SUFFICES ASSUME RecordsInv, pc = "done", NEW g \in Groups
               PROVE  Aligned(Cells(tab, ColumnOfLine(g)), g)
    BY DEF RecordsAligned, Aligned
  <2>1. ColumnOfLine(g) < ColumnSize(tab)
    BY RinexAssumption DEF RecordsInv, TableParts, Groups, ColumnOfLine
  <2> QED
    BY <2>1 DEF RecordsInv
<1> QED
  BY <1>1, RecordsInitInv, RecordsStepInv, PTL DEF Spec

=============================================================================
