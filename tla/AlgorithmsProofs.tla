-------------------------- MODULE AlgorithmsProofs --------------------------
(***************************************************************************)
(* What the calls of Algorithms answer, for every value of the constants:  *)
(* first lemmas about the operators each function is built from, then what *)
(* a call keeps until it is answered, then the properties.                 *)
(***************************************************************************)
EXTENDS Algorithms, ContainerProofs

-----------------------------------------------------------------------------
(* Days *)

(* The day a date falls on, up to the origin. *)
DayOf(Y, M, D) ==
  IF M <= 2 THEN YearDays(Y - 1) + MonthDays(M + 12) + D
  ELSE YearDays(Y) + MonthDays(M) + D

Date(t) ==
  /\ t \in [Y : Nat \ {0}, M : 1..12, D : 1..31, H : {0, 23}, m : {0, 59}, S : {0}]
  /\ t.D <= MonthLength(t.Y, t.M)

LEMMA MonthDaysAre ==
  /\ MonthDays(3) = 122 /\ MonthDays(4) = 153 /\ MonthDays(5) = 183
  /\ MonthDays(6) = 214 /\ MonthDays(7) = 244 /\ MonthDays(8) = 275
  /\ MonthDays(9) = 306 /\ MonthDays(10) = 336 /\ MonthDays(11) = 367
  /\ MonthDays(12) = 397 /\ MonthDays(13) = 428 /\ MonthDays(14) = 459
  BY DEF MonthDays

(* In the Julian calendar, which the formula follows, every fourth year is *)
(* a leap year.                                                            *)
LEMMA YearDaysStep ==
  ASSUME NEW Y \in Nat \ {0}
  PROVE  YearDays(Y) = YearDays(Y - 1) + (IF Y % 4 = 0 THEN 366 ELSE 365)
<1>1. YearDays(Y) = (1461 * Y) \div 4 /\ YearDays(Y - 1) = (1461 * (Y - 1)) \div 4
  BY DEF YearDays
<1>2. PICK q \in Nat, r \in 0..3 : Y = 4 * q + r
  <2> DEFINE q == Y \div 4
             r == Y % 4
  <2>1. q \in Nat /\ r \in 0..3 /\ Y = 4 * q + r
    OBVIOUS
  <2> QED BY <2>1
<1>3. Y % 4 = r
  BY <1>2
<1>4. r = 0 => YearDays(Y) = 1461 * q /\ YearDays(Y - 1) = 1461 * q - 366
  BY <1>1, <1>2
<1>5. r = 1 => YearDays(Y) = 1461 * q + 365 /\ YearDays(Y - 1) = 1461 * q
  BY <1>1, <1>2
<1>6. r = 2 => YearDays(Y) = 1461 * q + 730 /\ YearDays(Y - 1) = 1461 * q + 365
  BY <1>1, <1>2
<1>7. r = 3 => YearDays(Y) = 1461 * q + 1095 /\ YearDays(Y - 1) = 1461 * q + 730
  BY <1>1, <1>2
<1> QED
  BY <1>2, <1>3, <1>4, <1>5, <1>6, <1>7

(* Minutes and seconds are cut off. *)
LEMMA JulianHoursAre ==
  ASSUME NEW t, t.M \in 1..12, t.H \in {0, 23}, t.m \in {0, 59}, t.S = 0
  PROVE  JulianHours(t) = 24 * (DayOf(t.Y, t.M, t.D) + 1720981) + 12 + t.H
<1>1. (3600 * t.H + 60 * t.m + t.S) \div 3600 = t.H
  OBVIOUS
<1>2. CASE t.M = 1 \/ t.M = 2
  <2>1. t.M <= 2
    BY <1>2
  <2> QED
    BY <1>1, <1>2, <2>1 DEF JulianHours, DayOf
<1>3. CASE ~(t.M = 1 \/ t.M = 2)
  <2>1. ~(t.M <= 2)
    BY <1>3
  <2> QED
    BY <1>1, <1>3, <2>1 DEF JulianHours, DayOf
<1> QED
  BY <1>2, <1>3

(* The day after the last of a month is the first of the next, but after   *)
(* the 28th of February of a century year.                                 *)
LEMMA NextMonth ==
  ASSUME NEW Y \in Nat \ {0}, NEW M \in 1..11
  PROVE  DayOf(Y, M + 1, 1)
           = DayOf(Y, M, MonthLength(Y, M))
               + (IF M = 2 /\ Y % 4 = 0 /\ ~IsLeap(Y) THEN 2 ELSE 1)
<1> USE MonthDaysAre, YearDaysStep
<1>0. YearDays(Y) \in Int /\ YearDays(Y - 1) \in Int
  BY DEF YearDays
<1>1. CASE M = 1
  <2>1. MonthLength(Y, M) = 31
    BY <1>1 DEF MonthLength
  <2> QED
    BY <1>0, <1>1, <2>1 DEF DayOf
<1>2. CASE M = 2
  <2>1. MonthLength(Y, M) = IF IsLeap(Y) THEN 29 ELSE 28
    BY <1>2 DEF MonthLength
  <2>2. IsLeap(Y) => Y % 4 = 0
    BY DEF IsLeap
  <2>3. DayOf(Y, 3, 1) = YearDays(Y) + 123
    BY <1>0 DEF DayOf
  <2>4. DayOf(Y, 2, MonthLength(Y, M)) = YearDays(Y - 1) + 459 + MonthLength(Y, M)
    BY <1>0 DEF DayOf
  <2> HIDE DEF DayOf
  <2>5. CASE IsLeap(Y)
    BY <1>0, <1>2, <2>1, <2>2, <2>3, <2>4, <2>5
  <2>6. CASE ~IsLeap(Y)
    BY <1>0, <1>2, <2>1, <2>3, <2>4, <2>6
  <2> QED
    BY <2>5, <2>6
<1>3. CASE M \in {4, 6, 9, 11}
  <2>1. MonthLength(Y, M) = 30
    BY <1>3 DEF MonthLength
  <2> QED
    BY <1>0, <1>3, <2>1 DEF DayOf
<1>4. CASE M \in {3, 5, 7, 8, 10}
  <2>1. MonthLength(Y, M) = 31
    BY <1>4 DEF MonthLength
  <2> QED
    BY <1>0, <1>4, <2>1 DEF DayOf
<1> QED
  BY <1>1, <1>2, <1>3, <1>4

LEMMA NextYear ==
  ASSUME NEW Y \in Nat \ {0}
  PROVE  DayOf(Y + 1, 1, 1) = DayOf(Y, 12, MonthLength(Y, 12)) + 1
<1>1. MonthLength(Y, 12) = 31
  BY DEF MonthLength
<1>2. YearDays(Y) \in Int /\ Y + 1 - 1 = Y
  BY DEF YearDays
<1> QED
  BY <1>1, <1>2, MonthDaysAre DEF DayOf

LEMMA DaysGoOn ==
  ASSUME NEW t, Date(t)
  PROVE  JulianHours(NextDay(t))
           = JulianHours(t)
               + (IF t.M = 2 /\ t.D = 28 /\ t.Y % 4 = 0 /\ ~IsLeap(t.Y) THEN 48 ELSE 24)
<1>1. /\ t.Y \in Nat \ {0} /\ t.M \in 1..12 /\ t.D \in 1..31
      /\ t.H \in {0, 23} /\ t.m \in {0, 59} /\ t.S = 0
      /\ t.D <= MonthLength(t.Y, t.M)
  BY DEF Date
<1> DEFINE n == NextDay(t)
           skipped == t.M = 2 /\ t.D = 28 /\ t.Y % 4 = 0 /\ ~IsLeap(t.Y)
<1> SUFFICES JulianHours(n) = JulianHours(t) + (IF skipped THEN 48 ELSE 24)
  OBVIOUS
<1>2. JulianHours(t) = 24 * (DayOf(t.Y, t.M, t.D) + 1720981) + 12 + t.H
  BY <1>1, JulianHoursAre
<1>3. MonthLength(t.Y, t.M) \in Nat
  BY <1>1 DEF MonthLength
<1>0. DayOf(t.Y, t.M, t.D) \in Int
  BY <1>1 DEF DayOf, YearDays, MonthDays
<1>4. CASE t.D < MonthLength(t.Y, t.M)
  <2>1. n = [t EXCEPT !.D = @ + 1]
    BY <1>1, <1>3, <1>4, SMT DEF NextDay
  <2>2. /\ n.Y = t.Y /\ n.M = t.M /\ n.D = t.D + 1
        /\ n.H = t.H /\ n.m = t.m /\ n.S = t.S
    BY <2>1 DEF Date
  <2>3. JulianHours(n) = 24 * (DayOf(t.Y, t.M, t.D + 1) + 1720981) + 12 + t.H
    <3> HIDE DEF n
    <3> QED BY <1>1, <2>2, JulianHoursAre
  <2>4. DayOf(t.Y, t.M, t.D + 1) = DayOf(t.Y, t.M, t.D) + 1
    BY <1>1 DEF DayOf, YearDays, MonthDays
  <2>5. ~skipped
    BY <1>4 DEF MonthLength
  <2> HIDE DEF n, skipped
  <2> QED
    BY <1>0, <1>1, <1>2, <2>3, <2>4, <2>5
<1>5. CASE t.D = MonthLength(t.Y, t.M) /\ t.M < 12
  <2>1. n = [t EXCEPT !.D = 1, !.M = @ + 1]
    BY <1>1, <1>3, <1>5, SMT DEF NextDay
  <2>2. /\ n.Y = t.Y /\ n.M = t.M + 1 /\ n.D = 1
        /\ n.H = t.H /\ n.m = t.m /\ n.S = t.S
    BY <2>1 DEF Date
  <2>3. JulianHours(n) = 24 * (DayOf(t.Y, t.M + 1, 1) + 1720981) + 12 + t.H
    <3> HIDE DEF n
    <3>1. n.M \in 1..12
      BY <1>1, <1>5, <2>2
    <3> QED BY <1>1, <2>2, <3>1, JulianHoursAre
  <2>4. t.M \in 1..11
    BY <1>1, <1>5
  <2>5. DayOf(t.Y, t.M + 1, 1)
          = DayOf(t.Y, t.M, t.D)
              + (IF t.M = 2 /\ t.Y % 4 = 0 /\ ~IsLeap(t.Y) THEN 2 ELSE 1)
    BY <1>1, <1>5, <2>4, NextMonth
  <2>6. (t.M = 2 /\ ~IsLeap(t.Y)) => t.D = 28
    BY <1>5 DEF MonthLength
  <2>7. skipped <=> t.M = 2 /\ t.Y % 4 = 0 /\ ~IsLeap(t.Y)
    BY <2>6
  <2> HIDE DEF n
  <2>8. CASE skipped
    BY <1>0, <1>1, <1>2, <2>3, <2>5, <2>7, <2>8
  <2>9. CASE ~skipped
    BY <1>0, <1>1, <1>2, <2>3, <2>5, <2>7, <2>9
  <2> QED
    BY <2>8, <2>9
<1>6. CASE t.D = MonthLength(t.Y, t.M) /\ t.M = 12
  <2>1. n = [t EXCEPT !.D = 1, !.M = 1, !.Y = @ + 1]
    BY <1>1, <1>3, <1>6, SMT DEF NextDay
  <2>2. /\ n.Y = t.Y + 1 /\ n.M = 1 /\ n.D = 1
        /\ n.H = t.H /\ n.m = t.m /\ n.S = t.S
    BY <2>1 DEF Date
  <2>3. JulianHours(n) = 24 * (DayOf(t.Y + 1, 1, 1) + 1720981) + 12 + t.H
    <3> HIDE DEF n
    <3> QED BY <1>1, <2>2, JulianHoursAre
  <2>4. DayOf(t.Y + 1, 1, 1) = DayOf(t.Y, t.M, t.D) + 1
    BY <1>1, <1>6, NextYear
  <2>5. ~skipped
    BY <1>6
  <2> HIDE DEF n, skipped
  <2> QED
    BY <1>0, <1>1, <1>2, <2>3, <2>4, <2>5
<1> HIDE DEF n, skipped
<1> QED
  BY <1>1, <1>3, <1>4, <1>5, <1>6

-----------------------------------------------------------------------------
(* Expressions *)

LEMMA LeavesAndNodes ==
  ASSUME NEW e, RefersBack(e), NEW k \in DOMAIN e
  PROVE  \/ /\ e[k].args = <<>>
            /\ e[k] = Leaf(e[k].leaf)
         \/ /\ e[k] # Scalar /\ e[k].args # <<>>
            /\ e[k].args[1] \in 1..(k - 1) /\ e[k].args[2] \in 1..(k - 1)
<1>1. CASE e[k] \in Wraps
  <2>1. PICK c : e[k] = Leaf(c)
    BY <1>1 DEF Wraps, Scalar
  <2> QED
    BY <2>1 DEF Leaf
<1>2. CASE \E i, j \in 1..(k - 1) : e[k] = Node(i, j)
  <2>1. PICK i \in 1..(k - 1), j \in 1..(k - 1) : e[k] = Node(i, j)
    BY <1>2
  <2>2. e[k].args = <<i, j>> /\ <<i, j>> # <<>> /\ <<i, j>>[1] = i /\ <<i, j>>[2] = j
    BY <2>1 DEF Node
  <2>3. Scalar.args = <<>>
    BY DEF Scalar, Leaf
  <2> QED
    BY <2>2, <2>3
<1> QED
  BY <1>1, <1>2 DEF RefersBack

(* size() of every object, from those of the objects it refers to. *)
SizeStep(e, len, size, k) ==
  IF e[k] = Scalar THEN QuietNaN
  ELSE IF e[k].args = <<>> THEN len[e[k].leaf]
  ELSE IF ValidSize(size[e[k].args[1]]) THEN size[e[k].args[1]]
  ELSE size[e[k].args[2]]

ReadStep(e, reads, k) ==
  IF e[k].args = <<>> THEN {e[k].leaf} \ {"scalar"}
  ELSE reads[e[k].args[1]] \union reads[e[k].args[2]]

LEMMA SizeLooksBack ==
  ASSUME NEW e, RefersBack(e), NEW k \in DOMAIN e, NEW len, NEW f, NEW g,
         \A j \in 1..(k - 1) : f[j] = g[j]
  PROVE  SizeStep(e, len, f, k) = SizeStep(e, len, g, k)
  BY LeavesAndNodes DEF SizeStep

LEMMA ReadLooksBack ==
  ASSUME NEW e, RefersBack(e), NEW k \in DOMAIN e, NEW f, NEW g,
         \A j \in 1..(k - 1) : f[j] = g[j]
  PROVE  ReadStep(e, f, k) = ReadStep(e, g, k)
  BY LeavesAndNodes DEF ReadStep

(* The recursive functions are what their definitions say: for each prefix *)
(* of the objects there is such a function.                                *)
LEMMA SizesAre ==
  ASSUME NEW n \in Nat, NEW e, DOMAIN e = 1..n, Len(e) = n, RefersBack(e), NEW len
  PROVE  SizesIn(e, len) = [k \in 1..n |-> SizeStep(e, len, SizesIn(e, len), k)]
<1> DEFINE Solves(m, g) == g = [k \in 1..m |-> SizeStep(e, len, g, k)]
           S == {m \in 0..n : \A g : ~Solves(m, g)}
<1>1. S = {}
  <2> SUFFICES ASSUME S # {} PROVE FALSE
    OBVIOUS
  <2> DEFINE m == Least(S)
  <2>1. S \in SUBSET Nat
    OBVIOUS
  <2>2. m \in S /\ \A y \in S : m <= y
    <3> HIDE DEF S
    <3> QED BY <2>1, LeastIsLeast
  <2>3. m \in 0..n
    BY <2>2
  <2> HIDE DEF m
  <2>4. CASE m = 0
    <3>1. Solves(0, [k \in 1..0 |-> 0])
      OBVIOUS
    <3> QED
      BY <2>2, <2>4, <3>1
  <2>5. CASE m > 0
    <3>1. m - 1 \in 0..n /\ m - 1 \notin S
      BY <2>2, <2>3, <2>5
    <3>2. PICK g : g = [k \in 1..(m - 1) |-> SizeStep(e, len, g, k)]
      BY <3>1
    <3> DEFINE h == [k \in 1..m |-> IF k = m THEN SizeStep(e, len, g, m) ELSE g[k]]
    <3>3. \A j \in 1..(m - 1) : h[j] = g[j]
      BY <2>3
    <3>4. ASSUME NEW k \in 1..m PROVE h[k] = SizeStep(e, len, h, k)
      <4>1. k \in DOMAIN e /\ \A j \in 1..(k - 1) : h[j] = g[j]
        <5> HIDE DEF h
        <5> QED BY <2>3, <3>3
      <4>2. SizeStep(e, len, h, k) = SizeStep(e, len, g, k)
        <5> HIDE DEF h
        <5> QED BY <4>1, SizeLooksBack
      <4>3. h[k] = SizeStep(e, len, g, k)
        <5>1. CASE k = m
          BY <5>1
        <5>2. CASE k # m
          <6>1. k \in 1..(m - 1)
            BY <2>3, <5>2
          <6>2. g[k] = SizeStep(e, len, g, k)
            <7> HIDE DEF h
            <7> QED BY <3>2, <6>1
          <6> QED
            BY <5>2, <6>2
        <5> QED
          BY <5>1, <5>2
      <4> QED
        BY <4>2, <4>3
    <3>5. DOMAIN h = 1..m
      OBVIOUS
    <3>6. Solves(m, h)
      <4>1. h = [k \in 1..m |-> h[k]]
        OBVIOUS
      <4> HIDE DEF h
      <4> QED BY <3>4, <4>1
    <3> HIDE DEF h
    <3> QED
      BY <2>2, <3>6
  <2> QED
    BY <2>3, <2>4, <2>5
<1>2. n \in 0..n
  OBVIOUS
<1>3. \E g : Solves(n, g)
  BY <1>1, <1>2
<1>4. SizesIn(e, len) = CHOOSE g : Solves(n, g)
  BY DEF SizesIn, SizeStep
<1> QED
  BY <1>3, <1>4

LEMMA ReadsAre ==
  ASSUME NEW n \in Nat, NEW e, DOMAIN e = 1..n, Len(e) = n, RefersBack(e)
  PROVE  ReadBy(e) = [k \in 1..n |-> ReadStep(e, ReadBy(e), k)]
<1> DEFINE Solves(m, g) == g = [k \in 1..m |-> ReadStep(e, g, k)]
           S == {m \in 0..n : \A g : ~Solves(m, g)}
<1>1. S = {}
  <2> SUFFICES ASSUME S # {} PROVE FALSE
    OBVIOUS
  <2> DEFINE m == Least(S)
  <2>1. S \in SUBSET Nat
    OBVIOUS
  <2>2. m \in S /\ \A y \in S : m <= y
    <3> HIDE DEF S
    <3> QED BY <2>1, LeastIsLeast
  <2>3. m \in 0..n
    BY <2>2
  <2> HIDE DEF m
  <2>4. CASE m = 0
    <3>1. Solves(0, [k \in 1..0 |-> {}])
      OBVIOUS
    <3> QED
      BY <2>2, <2>4, <3>1
  <2>5. CASE m > 0
    <3>1. m - 1 \in 0..n /\ m - 1 \notin S
      BY <2>2, <2>3, <2>5
    <3>2. PICK g : g = [k \in 1..(m - 1) |-> ReadStep(e, g, k)]
      BY <3>1
    <3> DEFINE h == [k \in 1..m |-> IF k = m THEN ReadStep(e, g, m) ELSE g[k]]
    <3>3. \A j \in 1..(m - 1) : h[j] = g[j]
      BY <2>3
    <3>4. ASSUME NEW k \in 1..m PROVE h[k] = ReadStep(e, h, k)
      <4>1. k \in DOMAIN e /\ \A j \in 1..(k - 1) : h[j] = g[j]
        <5> HIDE DEF h
        <5> QED BY <2>3, <3>3
      <4>2. ReadStep(e, h, k) = ReadStep(e, g, k)
        <5> HIDE DEF h
        <5> QED BY <4>1, ReadLooksBack
      <4>3. h[k] = ReadStep(e, g, k)
        <5>1. CASE k = m
          BY <5>1
        <5>2. CASE k # m
          <6>1. k \in 1..(m - 1)
            BY <2>3, <5>2
          <6>2. g[k] = ReadStep(e, g, k)
            <7> HIDE DEF h
            <7> QED BY <3>2, <6>1
          <6> QED
            BY <5>2, <6>2
        <5> QED
          BY <5>1, <5>2
      <4> QED
        BY <4>2, <4>3
    <3>5. DOMAIN h = 1..m
      OBVIOUS
    <3>6. Solves(m, h)
      <4>1. h = [k \in 1..m |-> h[k]]
        OBVIOUS
      <4> HIDE DEF h
      <4> QED BY <3>4, <4>1
    <3> HIDE DEF h
    <3> QED
      BY <2>2, <3>6
  <2> QED
    BY <2>3, <2>4, <2>5
<1>2. n \in 0..n
  OBVIOUS
<1>3. \E g : Solves(n, g)
  BY <1>1, <1>2
<1>4. ReadBy(e) = CHOOSE g : Solves(n, g)
  BY DEF ReadBy, ReadStep
<1> QED
  BY <1>3, <1>4

(* An object that reads containers that are not empty has the length of    *)
(* each of them, and one that reads none has no length.                    *)
LEMMA LengthsAgree ==
  ASSUME NEW n \in Nat, NEW e, DOMAIN e = 1..n, Len(e) = n, RefersBack(e),
         NEW len \in [Containers -> Nat], Accepts(e, len),
         NEW k \in 1..n, \A c \in ReadBy(e)[k] : len[c] > 0
  PROVE  /\ ReadBy(e)[k] \subseteq Containers
         /\ ReadBy(e)[k] = {} => SizesIn(e, len)[k] = 0
         /\ \A c \in ReadBy(e)[k] : SizesIn(e, len)[k] = len[c]
<1> DEFINE size == SizesIn(e, len)
           reads == ReadBy(e)
           Agrees(j) ==
             (\A c \in reads[j] : len[c] > 0) =>
               /\ reads[j] \subseteq Containers
               /\ reads[j] = {} => size[j] = 0
               /\ \A c \in reads[j] : size[j] = len[c]
           S == {j \in 1..n : ~Agrees(j)}
<1>1. \A j \in 1..n : size[j] = SizeStep(e, len, size, j) /\ reads[j] = ReadStep(e, reads, j)
  <2>1. size = [j \in 1..n |-> SizeStep(e, len, size, j)]
    BY SizesAre
  <2>2. reads = [j \in 1..n |-> ReadStep(e, reads, j)]
    BY ReadsAre
  <2> HIDE DEF size, reads
  <2> QED BY <2>1, <2>2
<1>2. \A j \in 1..n : e[j].args # <<>> => Fits(size[e[j].args[1]], size[e[j].args[2]])
  BY DEF Accepts
<1> HIDE DEF size, reads
<1>3. S = {}
  <2> SUFFICES ASSUME S # {} PROVE FALSE
    OBVIOUS
  <2> DEFINE m == Least(S)
  <2>1. S \in SUBSET Nat
    OBVIOUS
  <2>2. m \in S /\ \A y \in S : m <= y
    <3> HIDE DEF S
    <3> QED BY <2>1, LeastIsLeast
  <2>3. m \in 1..n /\ ~Agrees(m)
    BY <2>2
  <2>4. \A j \in 1..(m - 1) : Agrees(j)
    <3> SUFFICES ASSUME NEW j \in 1..(m - 1) PROVE Agrees(j)
      OBVIOUS
    <3> HIDE DEF m, Agrees
    <3>1. j \in 1..n /\ ~(m <= j)
      BY <2>3
    <3>2. j \notin S
      <4> HIDE DEF S
      <4> QED BY <2>2, <3>1
    <3> QED
      BY <3>1, <3>2
  <2> HIDE DEF m, S
  <2>5. size[m] = SizeStep(e, len, size, m) /\ reads[m] = ReadStep(e, reads, m)
    BY <1>1, <2>3
  <2>6. CASE e[m].args = <<>>
    <3>1. e[m] \in Wraps
      <4>1. \A i, j : e[m] = Node(i, j) => e[m].args = <<i, j>> /\ <<i, j>> # <<>>
        BY DEF Node
      <4> QED
        BY <2>3, <2>6, <4>1 DEF RefersBack
    <3>2. CASE e[m] = Scalar
      <4>1. e[m].leaf = "scalar"
        BY <3>2 DEF Scalar, Leaf
      <4>2. reads[m] = {} /\ size[m] = 0
        BY <2>5, <2>6, <3>2, <4>1 DEF SizeStep, ReadStep, QuietNaN
      <4> QED
        BY <2>3, <4>2
    <3>3. CASE e[m] # Scalar
      <4>1. PICK c \in Containers : e[m] = Leaf(c)
        BY <3>1, <3>3 DEF Wraps
      <4>2. e[m].leaf = c /\ c # "scalar"
        BY <3>3, <4>1 DEF Scalar, Leaf
      <4>3. reads[m] = {c} /\ size[m] = len[c]
        BY <2>5, <2>6, <3>3, <4>2 DEF SizeStep, ReadStep
      <4> QED
        BY <2>3, <4>1, <4>3
    <3> QED
      BY <3>2, <3>3
  <2>7. CASE e[m].args # <<>>
    <3> DEFINE i == e[m].args[1]
               j == e[m].args[2]
    <3>1. e[m] # Scalar /\ i \in 1..(m - 1) /\ j \in 1..(m - 1)
      BY <2>3, <2>7, LeavesAndNodes
    <3>2. Fits(size[i], size[j])
      BY <1>2, <2>3, <2>7
    <3>3. reads[m] = reads[i] \union reads[j]
      BY <2>5, <2>7 DEF ReadStep
    <3>4. size[m] = IF ValidSize(size[i]) THEN size[i] ELSE size[j]
      BY <2>5, <2>7, <3>1 DEF SizeStep
    <3> HIDE DEF i, j
    <3>5. ASSUME \A c \in reads[m] : len[c] > 0
          PROVE  /\ reads[m] \subseteq Containers
                 /\ reads[m] = {} => size[m] = 0
                 /\ \A c \in reads[m] : size[m] = len[c]
      <4>1. /\ \A c \in reads[i] : len[c] > 0
            /\ \A c \in reads[j] : len[c] > 0
        BY <3>3, <3>5
      <4>2. Agrees(i) /\ Agrees(j)
        BY <2>4, <3>1
      <4>3. /\ reads[i] \subseteq Containers /\ reads[j] \subseteq Containers
            /\ reads[i] = {} => size[i] = 0
            /\ reads[j] = {} => size[j] = 0
            /\ \A c \in reads[i] : size[i] = len[c]
            /\ \A c \in reads[j] : size[j] = len[c]
        BY <4>1, <4>2
      <4>4. CASE reads[i] = {}
        BY <3>3, <3>4, <4>3, <4>4 DEF ValidSize, QuietNaN
      <4>5. CASE reads[i] # {}
        <5>1. ValidSize(size[i]) /\ size[m] = size[i]
          BY <3>4, <4>1, <4>3, <4>5 DEF ValidSize, QuietNaN
        <5>2. ASSUME NEW c \in reads[j] PROVE size[m] = len[c]
          <6>1. size[j] = len[c] /\ len[c] > 0
            BY <4>1, <4>3
          <6>2. ValidSize(size[j])
            BY <6>1 DEF ValidSize, QuietNaN
          <6> QED
            BY <3>2, <5>1, <6>1, <6>2 DEF Fits
        <5> QED
          BY <3>3, <4>3, <4>5, <5>1, <5>2
      <4> QED
        BY <4>4, <4>5
    <3> QED
      BY <2>3, <3>5
  <2> QED
    BY <2>6, <2>7
<1>4. Agrees(k)
  BY <1>3
<1> QED
  BY <1>4 DEF size, reads

LEMMA ExpressionsRefer ==
  ASSUME AlgorithmsAssumption, NEW e \in Expressions
  PROVE  /\ RefersBack(e)
         /\ Len(e) \in Nat \ {0}
         /\ DOMAIN e = 1..Len(e)
<1>1. PICK n \in 1..Objects : e \in [1..n -> Wraps \union {Node(i, j) : i, j \in 1..n}]
  BY DEF Expressions
<1>2. n \in Nat \ {0}
  BY <1>1 DEF AlgorithmsAssumption
<1>3. Len(e) = n
  BY <1>1, <1>2, LenProperties
<1> QED
  BY <1>1, <1>2, <1>3 DEF Expressions

LEMMA EvaluationInBounds ==
  ASSUME AlgorithmsAssumption, NEW e \in Expressions, NEW len \in [Containers -> Nat],
         \A c \in Reads(e) : len[c] > 0
  PROVE  LET a == Evaluated(e, len) IN
         /\ a.end # "undefined"
         /\ a.end = "returns" => \A c \in Reads(e) : a.length = len[c]
<1> DEFINE n == Len(e)
<1>1. RefersBack(e) /\ n \in Nat /\ n \in 1..n /\ DOMAIN e = 1..n
  BY ExpressionsRefer
<1>2. CASE Accepts(e, len)
  <2>1. \A c \in Reads(e) : SizesIn(e, len)[n] = len[c] /\ len[c] \in Nat
    <3>1. /\ Reads(e) \subseteq Containers
          /\ \A c \in Reads(e) : SizesIn(e, len)[n] = len[c]
      BY <1>1, <1>2, LengthsAgree DEF Reads
    <3> QED
      BY <3>1
  <2>2. ~ \E c \in Reads(e), i \in 0..(SizesIn(e, len)[n] - 1) : i >= len[c]
    BY <2>1
  <2>3. Evaluated(e, len) = [end |-> "returns", length |-> SizesIn(e, len)[n]]
    BY <1>2, <2>2 DEF Evaluated
  <2> QED
    BY <2>1, <2>3
<1>3. CASE ~Accepts(e, len)
  <2>1. Evaluated(e, len) = [end |-> "aborts"]
    BY <1>3 DEF Evaluated
  <2> QED
    BY <2>1
<1> QED
  BY <1>2, <1>3

-----------------------------------------------------------------------------
(* Directions *)

Off == {a \in 0..359 : a % 90 # 0}

LEMMA Quadrants ==
  ASSUME NEW a \in Off
  PROVE  a \in 1..89 \/ a \in 91..179 \/ a \in 181..269 \/ a \in 271..359
  BY DEF Off

LEMMA FirstQuadrant ==
  ASSUME NEW a \in 1..89
  PROVE  Atan(a) = a /\ Atan2(a) = a /\ SinSign(a) = 1 /\ CosSign(a) = 1 /\ TanSign(a) = 1
  BY DEF Atan, Atan2, SinSign, CosSign, TanSign

LEMMA SecondQuadrant ==
  ASSUME NEW a \in 91..179
  PROVE  Atan(a) = a - 180 /\ Atan2(a) = a /\ SinSign(a) = 1 /\ CosSign(a) = -1 /\ TanSign(a) = -1
  BY DEF Atan, Atan2, SinSign, CosSign, TanSign

LEMMA ThirdQuadrant ==
  ASSUME NEW a \in 181..269
  PROVE  /\ Atan(a) = a - 180 /\ Atan2(a) = a - 360
         /\ SinSign(a) = -1 /\ CosSign(a) = -1 /\ TanSign(a) = 1
  BY DEF Atan, Atan2, SinSign, CosSign, TanSign

LEMMA FourthQuadrant ==
  ASSUME NEW a \in 271..359
  PROVE  /\ Atan(a) = a - 360 /\ Atan2(a) = a - 360
         /\ SinSign(a) = -1 /\ CosSign(a) = 1 /\ TanSign(a) = -1
  BY DEF Atan, Atan2, SinSign, CosSign, TanSign

LEMMA Axes ==
  /\ Atan(0) = 0 /\ Atan2(0) = 0 /\ SinSign(0) = 0 /\ CosSign(0) = 1 /\ TanSign(0) = 0
  /\ Atan(90) = 90 /\ Atan2(90) = 90 /\ SinSign(90) = 1 /\ CosSign(90) = 0 /\ TanSign(90) = 0
  /\ Atan(180) = 0 /\ Atan2(180) = 180 /\ SinSign(180) = 0 /\ CosSign(180) = -1 /\ TanSign(180) = 0
  /\ Atan(270) = -90 /\ Atan2(270) = -90 /\ SinSign(270) = -1 /\ CosSign(270) = 0 /\ TanSign(270) = 0
  BY DEF Atan, Atan2, SinSign, CosSign, TanSign

Turns == {-1800, -1440, -1080, -720, -360, 0, 360, 720, 1080, 1440, 1800}

IsAngle(a) == a \in Int /\ -720 <= a /\ a <= 1080

(* Two angles are the same when they differ by whole turns. *)
LEMMA SameAngles ==
  ASSUME NEW a, NEW b, IsAngle(a), IsAngle(b)
  PROVE  Same(a, b) <=> a - b \in Turns
<1> DEFINE d == a - b
           q == d \div 360
<1>1. d \in Int /\ -1800 <= d /\ d <= 1800 /\ a # NaN /\ b # NaN
  BY DEF NaN, IsAngle
<1>2. Same(a, b) <=> d % 360 = 0
  BY <1>1 DEF Same
<1> HIDE DEF d
<1>3. q \in Int /\ d = 360 * q + (d % 360) /\ d % 360 \in 0..359
  BY <1>1
<1> HIDE DEF q
<1>4. ASSUME d % 360 = 0
      PROVE  d \in Turns
  <2>1. d = 360 * q /\ q \in -5..5
    BY <1>1, <1>3, <1>4
  <2> QED
    BY <2>1 DEF Turns
<1>5. ASSUME d \in Turns
      PROVE  d % 360 = 0
  BY <1>5 DEF Turns
<1> QED
  BY <1>2, <1>4, <1>5 DEF d

LEMMA Backs ==
  ASSUME NEW a \in 0..359
  PROVE  Back(a) = IF a < 180 THEN a + 180 ELSE a - 180
  BY DEF Back

(* Bessel: the direction of each quadrant comes back, off the axes. *)
LEMMA A1Recovered ==
  ASSUME NEW a \in Off
  PROVE  AdjustA1(Atan(a), SinSign(a), CosSign(a)) = a
<1> USE FirstQuadrant, SecondQuadrant, ThirdQuadrant, FourthQuadrant DEF AdjustA1, Magnitude
<1>1. CASE a \in 1..89
  BY <1>1
<1>2. CASE a \in 91..179
  BY <1>2
<1>3. CASE a \in 181..269
  BY <1>3
<1>4. CASE a \in 271..359
  BY <1>4
<1> QED
  BY <1>1, <1>2, <1>3, <1>4, Quadrants

(* A line between different points has signs, one to itself has none.      *)
LEMMA SignsAt ==
  /\ \A a \in 0..359 : SinAt(a) = SinSign(a) /\ CosAt(a) = CosSign(a)
  /\ SinAt(NaN) = 0 /\ CosAt(NaN) = 0
  BY DEF SinAt, CosAt, NaN

(* On an axis and between a point and itself there is no azimuth.          *)
LEMMA NoA1OnAxes ==
  ASSUME NEW a \in {0, 90, 180, 270, NaN}
  PROVE  AdjustA1(Atan(a), SinAt(a), CosAt(a)) = NaN
<1>1. SinAt(a) = 0 \/ CosAt(a) = 0
  <2>1. CASE a = NaN
    BY <2>1, SignsAt
  <2>2. CASE a \in {0, 90, 180, 270}
    BY <2>2, SignsAt, Axes
  <2> QED
    BY <2>1, <2>2
<1> QED
  BY <1>1 DEF AdjustA1

LEMMA BesselDirect ==
  ASSUME NEW from \in Off, NEW to \in Off, NEW h \in Off,
         SinSign(from) = SinSign(to), SinSign(h) = SinSign(from)
  PROVE  LET a == BesselSolve([from |-> from, to |-> to], Atan2(h)) IN
         /\ a.lambda = Atan2(h)
         /\ Same(a.rangle, Back(to))
<1> DEFINE line == [from |-> from, to |-> to]
<1>1. /\ BesselSolve(line, Atan2(h)).lambda
            = AdjustLambda(Atan(Atan2(h)), SinSign(from), TanSign(Atan(Atan2(h))))
      /\ BesselSolve(line, Atan2(h)).rangle
            = AdjustA2(Atan(to), SinSign(from), TanSign(Atan(to)))
  BY DEF BesselSolve
<1>2. AdjustLambda(Atan(Atan2(h)), SinSign(from), TanSign(Atan(Atan2(h)))) = Atan2(h)
  <2>1. /\ Atan(Atan2(h)) = Atan(h)
        /\ TanSign(Atan(h)) = TanSign(h)
    BY Quadrants DEF Atan, Atan2, TanSign, SinSign, CosSign
  <2> USE <2>1, FirstQuadrant, SecondQuadrant, ThirdQuadrant, FourthQuadrant
      DEF AdjustLambda, Magnitude
  <2>2. CASE h \in 1..89
    BY <2>2
  <2>3. CASE h \in 91..179
    BY <2>3
  <2>4. CASE h \in 181..269
    BY <2>4
  <2>5. CASE h \in 271..359
    BY <2>5
  <2> QED
    BY <2>2, <2>3, <2>4, <2>5, Quadrants
<1>3. Same(AdjustA2(Atan(to), SinSign(from), TanSign(Atan(to))), Back(to))
  <2>1. TanSign(Atan(to)) = TanSign(to)
    BY Quadrants DEF Atan, TanSign, SinSign, CosSign
  <2>2. AdjustA2(Atan(to), SinSign(from), TanSign(to)) = IF to < 180 THEN to + 180 ELSE to - 180
    <3> USE FirstQuadrant, SecondQuadrant, ThirdQuadrant, FourthQuadrant DEF AdjustA2, Magnitude
    <3>2. CASE to \in 1..89
      BY <3>2
    <3>3. CASE to \in 91..179
      BY <3>3
    <3>4. CASE to \in 181..269
      BY <3>4
    <3>5. CASE to \in 271..359
      BY <3>5
    <3> QED
      BY <3>2, <3>3, <3>4, <3>5, Quadrants
  <2>3. Back(to) = IF to < 180 THEN to + 180 ELSE to - 180
    BY Backs DEF Off
  <2>4. Back(to) \in 0..359
    BY <2>3 DEF Off
  <2> QED
    BY <2>1, <2>2, <2>3, <2>4, SameAngles DEF Off, IsAngle, Turns
<1> QED
  BY <1>1, <1>2, <1>3

LEMMA BesselInverse ==
  ASSUME NEW from \in Off, NEW to \in Off, NEW s \in Off, s < 180,
         SinSign(from) = SinSign(to)
  PROVE  LET a == BesselRsolve([from |-> from, to |-> to], s) IN
         /\ Same(a.angle, from)
         /\ a.sigma = s
         /\ Same(a.rangle, Back(to)) <=> CosSign(to) > 0
<1> DEFINE line == [from |-> from, to |-> to]
<1>1. BesselA1(line) = from
  <2>1. SinAt(from) = SinSign(from) /\ CosAt(from) = CosSign(from)
    BY SignsAt DEF Off
  <2> QED
    BY <2>1, A1Recovered DEF BesselA1
<1>2. BesselRsolve(line, s) =
        [angle |-> from, rangle |-> (IF from < 180 THEN 180 ELSE -180) + Atan(to),
         sigma |-> AdjustSigma(Atan(s), CosSign(s))]
  BY <1>1 DEF BesselRsolve
<1> HIDE DEF line
<1>3. Same(from, from)
  BY DEF Same, Off, NaN
<1>4. AdjustSigma(Atan(s), CosSign(s)) = s
  <2>1. CASE s \in 1..89
    BY <2>1, FirstQuadrant DEF AdjustSigma, Magnitude
  <2>2. CASE s \in 91..179
    BY <2>2, SecondQuadrant DEF AdjustSigma, Magnitude
  <2> QED
    BY <2>1, <2>2, Quadrants
<1>5. Same((IF from < 180 THEN 180 ELSE -180) + Atan(to), Back(to)) <=> CosSign(to) > 0
  <2>1. Back(to) = IF to < 180 THEN to + 180 ELSE to - 180
    BY Backs DEF Off
  <2>2. from < 180 <=> SinSign(from) = 1
    BY Quadrants, FirstQuadrant, SecondQuadrant, ThirdQuadrant, FourthQuadrant
  <2> DEFINE r == (IF from < 180 THEN 180 ELSE -180) + Atan(to)
  <2>3. CASE to \in 1..89
    <3>1. r = to + 180 /\ Back(to) = to + 180 /\ CosSign(to) = 1
      BY <2>1, <2>2, <2>3, FirstQuadrant
    <3> HIDE DEF r
    <3>2. IsAngle(r) /\ IsAngle(Back(to))
      BY <2>3, <3>1 DEF IsAngle
    <3>3. Same(r, Back(to)) <=> r - Back(to) \in Turns
      BY <3>2, SameAngles
    <3> QED BY <2>3, <3>1, <3>3 DEF r, Turns
  <2>4. CASE to \in 91..179
    <3>1. r = to /\ Back(to) = to + 180 /\ CosSign(to) = -1
      BY <2>1, <2>2, <2>4, SecondQuadrant
    <3> HIDE DEF r
    <3>2. IsAngle(r) /\ IsAngle(Back(to))
      BY <2>4, <3>1 DEF IsAngle
    <3>3. Same(r, Back(to)) <=> r - Back(to) \in Turns
      BY <3>2, SameAngles
    <3> QED BY <2>4, <3>1, <3>3 DEF r, Turns
  <2>5. CASE to \in 181..269
    <3>1. r = to - 360 /\ Back(to) = to - 180 /\ CosSign(to) = -1
      BY <2>1, <2>2, <2>5, ThirdQuadrant
    <3> HIDE DEF r
    <3>2. IsAngle(r) /\ IsAngle(Back(to))
      BY <2>5, <3>1 DEF IsAngle
    <3>3. Same(r, Back(to)) <=> r - Back(to) \in Turns
      BY <3>2, SameAngles
    <3> QED BY <2>5, <3>1, <3>3 DEF r, Turns
  <2>6. CASE to \in 271..359
    <3>1. r = to - 540 /\ Back(to) = to - 180 /\ CosSign(to) = 1
      BY <2>1, <2>2, <2>6, FourthQuadrant
    <3> HIDE DEF r
    <3>2. IsAngle(r) /\ IsAngle(Back(to))
      BY <2>6, <3>1 DEF IsAngle
    <3>3. Same(r, Back(to)) <=> r - Back(to) \in Turns
      BY <3>2, SameAngles
    <3> QED BY <2>6, <3>1, <3>3 DEF r, Turns
  <2> QED
    BY <2>3, <2>4, <2>5, <2>6, Quadrants
<1> QED
  BY <1>2, <1>3, <1>4, <1>5 DEF line

LEMMA FoldedDirections ==
  ASSUME NEW a \in 0..359
  PROVE  /\ Atan2(a) = IF a <= 180 THEN a ELSE a - 360
         /\ SinSign(a) = IF a \in {0, 180} THEN 0 ELSE IF a < 180 THEN 1 ELSE -1
         /\ CosSign(a) = IF a \in {90, 270} THEN 0 ELSE IF a < 90 \/ a > 270 THEN 1 ELSE -1
<1>1. Atan2(a) = IF a <= 180 THEN a ELSE a - 360
  BY DEF Atan2
<1>2. SinSign(a) = IF a \in {0, 180} THEN 0 ELSE IF a < 180 THEN 1 ELSE -1
  BY DEF SinSign
<1>3. CosSign(a) = IF a \in {90, 270} THEN 0 ELSE IF a < 90 \/ a > 270 THEN 1 ELSE -1
  BY DEF SinSign, CosSign
<1> QED
  BY <1>1, <1>2, <1>3

LEMMA VincentyFinds ==
  ASSUME NEW from \in 0..359, NEW to \in 0..359
  PROVE  LET line == [from |-> from, to |-> to]
             inverse == VincentyRsolve(line)
         IN  /\ Same(VincentySolve(line).rangle, Back(to))
             /\ Same(inverse.angle, Back(from))
             /\ Same(inverse.rangle, Back(to)) <=> SinSign(from) >= 0
<1> DEFINE line == [from |-> from, to |-> to]
           inverse == VincentyRsolve(line)
           more == IF from <= 180 THEN 0 ELSE 180
<1>1. VincentySolve(line).rangle = (IF to <= 180 THEN to ELSE to - 360) + 180
  BY FoldedDirections DEF VincentySolve
<1>2. inverse.angle = (IF from <= 180 THEN from ELSE from - 360) + 180
  BY FoldedDirections DEF VincentyRsolve
<1>3. inverse.angle < 180 <=> from > 180
  BY <1>2
<1>4. inverse.rangle = (IF to <= 180 THEN to ELSE to - 360) + 180 + more
  <2>1. inverse.rangle = Atan2(to) + 180 + (IF inverse.angle < 180 THEN 180 ELSE 0)
    BY DEF VincentyRsolve
  <2> QED
    BY <1>3, <2>1, FoldedDirections
<1>5. /\ Back(to) = IF to < 180 THEN to + 180 ELSE to - 180
      /\ Back(from) = IF from < 180 THEN from + 180 ELSE from - 180
  BY Backs
<1> HIDE DEF line, inverse
<1>6. Same(VincentySolve(line).rangle, Back(to))
  BY <1>1, <1>5, SameAngles DEF IsAngle, Turns
<1>7. Same(inverse.angle, Back(from))
  BY <1>2, <1>5, SameAngles DEF IsAngle, Turns
<1>8. Same(inverse.rangle, Back(to)) <=> SinSign(from) >= 0
  <2>1. IsAngle(inverse.rangle) /\ IsAngle(Back(to))
    BY <1>4, <1>5 DEF IsAngle
  <2>2. Same(inverse.rangle, Back(to)) <=> inverse.rangle - Back(to) \in Turns
    BY <2>1, SameAngles
  <2>3. inverse.rangle - Back(to) \in Turns <=> from <= 180
    BY <1>4, <1>5 DEF Turns
  <2>4. SinSign(from) >= 0 <=> from <= 180
    BY FoldedDirections
  <2> QED
    BY <2>2, <2>3, <2>4
<1> QED
  BY <1>6, <1>7, <1>8 DEF line, inverse

LEMMA GaussDirect ==
  ASSUME NEW from \in 0..359, NEW to \in 0..359
  PROVE  Same(GaussSolve([from |-> from, to |-> to]).rangle, Back(to))
<1> DEFINE r == GaussSolve([from |-> from, to |-> to]).rangle
<1>1. r = to + (IF from < 180 THEN 180 ELSE -180)
  BY DEF GaussSolve, Convergence
<1>2. Back(to) = IF to < 180 THEN to + 180 ELSE to - 180
  BY Backs
<1> HIDE DEF r
<1>3. IsAngle(r) /\ IsAngle(Back(to)) /\ r - Back(to) \in Turns
  BY <1>1, <1>2 DEF IsAngle, Turns
<1> QED
  BY <1>3, SameAngles DEF r

(* The azimuth in the middle is found unless a signed angle is taken for   *)
(* an acute one.                                                           *)
AzimuthInMiddle(am, steep) ==
  LET Am == AmRad(GaussT(am, steep), CosSign(am), SinSign(am))
      turn == TanSign(am)
      halves == SinSign(am) * SinSign(Am) + CosSign(am) * CosSign(Am)
  IN  IF steep /\ turn < 0
      THEN /\ am \in 91..179 \/ am \in 271..359
           /\ Am = (IF am < 180 THEN 360 - am ELSE 720 - am)
           /\ halves = 0
      ELSE /\ Am = am
           /\ (am # 0 /\ halves = 2) <=> turn # 0

LEMMA MiddleFound ==
  ASSUME NEW am \in 0..359, NEW steep \in BOOLEAN,
         SinSign(am) = 0 => steep, CosSign(am) = 0 => ~steep
  PROVE  AzimuthInMiddle(am, steep)
<1> DEFINE Am == AmRad(GaussT(am, steep), CosSign(am), SinSign(am))
<1> USE DEF AzimuthInMiddle
<1>1. CASE am \in 1..89
  <2>1. Am = am
    BY <1>1, FirstQuadrant DEF AmRad, GaussT, Magnitude
  <2> QED
    BY <1>1, <2>1, FirstQuadrant
<1>2. CASE am \in 91..179
  <2>1. Am = IF steep THEN 360 - am ELSE am
    BY <1>2, SecondQuadrant DEF AmRad, GaussT, Magnitude
  <2>2. steep => Am \in 181..269
    BY <1>2, <2>1
  <2> HIDE DEF Am
  <2>3. steep => SinSign(am) * SinSign(Am) + CosSign(am) * CosSign(Am) = 0
    BY <1>2, <2>2, SecondQuadrant, ThirdQuadrant
  <2>4. ~steep => SinSign(am) * SinSign(Am) + CosSign(am) * CosSign(Am) = 2
    BY <1>2, <2>1, SecondQuadrant
  <2> QED
    BY <1>2, <2>1, <2>3, <2>4, SecondQuadrant DEF Am
<1>3. CASE am \in 181..269
  <2>1. Am = am
    BY <1>3, ThirdQuadrant DEF AmRad, GaussT, Magnitude
  <2> QED
    BY <1>3, <2>1, ThirdQuadrant
<1>4. CASE am \in 271..359
  <2>1. Am = IF steep THEN 720 - am ELSE am
    BY <1>4, FourthQuadrant DEF AmRad, GaussT, Magnitude
  <2>2. steep => Am \in 361..449
    BY <1>4, <2>1
  <2> HIDE DEF Am
  <2>3. steep => SinSign(Am) = 1 /\ CosSign(Am) = 1
    BY <2>2 DEF SinSign, CosSign
  <2>4. steep => SinSign(am) * SinSign(Am) + CosSign(am) * CosSign(Am) = 0
    BY <1>4, <2>3, FourthQuadrant
  <2>5. ~steep => SinSign(am) * SinSign(Am) + CosSign(am) * CosSign(Am) = 2
    BY <1>4, <2>1, FourthQuadrant
  <2> QED
    BY <1>4, <2>1, <2>4, <2>5, FourthQuadrant DEF Am
<1>5. CASE am \in {0, 180}
  <2>1. steep /\ TanSign(am) = 0
    BY <1>5, Axes
  <2>2. Am = am
    BY <1>5, <2>1, Axes DEF AmRad, GaussT, Magnitude
  <2>3. SinSign(am) * SinSign(Am) + CosSign(am) * CosSign(Am) = 1
    BY <1>5, <2>2, Axes
  <2>4. ~(steep /\ TanSign(am) < 0)
    BY <2>1
  <2>5. (am # 0 /\ SinSign(am) * SinSign(Am) + CosSign(am) * CosSign(Am) = 2) <=> TanSign(am) # 0
    <3> DEFINE X == SinSign(am) * SinSign(Am) + CosSign(am) * CosSign(Am)
    <3>1. X = 1 /\ TanSign(am) = 0
      BY <2>1, <2>3
    <3> HIDE DEF X
    <3>2. (am # 0 /\ X = 2) <=> TanSign(am) # 0
      BY <3>1
    <3> QED
      BY <3>2 DEF X
  <2> QED
    BY <2>2, <2>4, <2>5
<1>6. CASE am \in {90, 270}
  <2>1. ~steep /\ TanSign(am) = 0
    BY <1>6, Axes
  <2>2. Am = am
    BY <1>6, <2>1, Axes DEF AmRad, GaussT, Magnitude
  <2>3. SinSign(am) * SinSign(Am) + CosSign(am) * CosSign(Am) = 1
    BY <1>6, <2>2, Axes
  <2> QED
    BY <2>1, <2>2, <2>3
<1> QED
  <2>1. am % 90 # 0 \/ am \in {0, 90, 180, 270}
    OBVIOUS
  <2> QED
    BY <1>1, <1>2, <1>3, <1>4, <1>5, <1>6, <2>1, Quadrants DEF Off

(* From a point to itself the Gauss lemma goes due east, and no length.    *)
LEMMA GaussInPlace ==
  LET found == GaussRsolve(Coincident, TRUE)
  IN  found.angle = 90 /\ found.rangle = 270 /\ found.halves = 0
<1>1. Middle(Coincident) = NaN /\ Convergence(Coincident) = 0
  BY DEF Middle, Convergence, Coincident, NaN
<1> DEFINE Am == AmRad(GaussT(NaN, TRUE), CosAt(NaN), SinAt(NaN))
           half == 0 \div 2
<1>2. Am = 90 /\ half = 0
  BY SignsAt DEF AmRad
<1>3. 0 * SinSign(90) + 0 * CosSign(90) = 0
  BY Axes
<1> DEFINE found == GaussRsolve(Coincident, TRUE)
           rangle == Am + half + (IF Am - half < 180 THEN 180 ELSE -180)
           halves == IF Am = 0 THEN NaN
                     ELSE SinAt(NaN) * SinSign(Am) + CosAt(NaN) * CosSign(Am)
<1>4. found = [angle |-> Am - half, rangle |-> rangle, halves |-> halves]
  BY <1>1 DEF GaussRsolve
<1> HIDE DEF Am, half
<1>5. Am - half = 90 /\ rangle = 270
  BY <1>2
<1>6. halves = 0
  BY <1>2, <1>3, SignsAt
<1> HIDE DEF found, rangle, halves
<1>7. found.angle = Am - half /\ found.rangle = rangle /\ found.halves = halves
  BY <1>4
<1> QED
  BY <1>5, <1>6, <1>7 DEF found

LEMMA GaussInverse ==
  ASSUME NEW from \in 0..359, NEW to \in 0..359, NEW steep \in BOOLEAN,
         (from + to) % 2 = 0,
         LET am == (from + to) \div 2
         IN  (SinSign(am) = 0 => steep) /\ (CosSign(am) = 0 => ~steep)
  PROVE  LET line == [from |-> from, to |-> to]
             found == GaussRsolve(line, steep)
             turn == TanSign(Middle(line))
             right == ~(steep /\ turn < 0)
         IN  /\ Same(found.angle, from) <=> right
             /\ Same(found.rangle, Back(to)) <=> right
             /\ found.halves = 2 <=> right /\ turn # 0
<1> DEFINE line == [from |-> from, to |-> to]
           am == (from + to) \div 2
           half == (to - from) \div 2
           Am == AmRad(GaussT(am, steep), CosSign(am), SinSign(am))
           found == GaussRsolve(line, steep)
           turn == TanSign(am)
           right == ~(steep /\ turn < 0)
<1>1. Middle(line) = am /\ Convergence(line) \div 2 = half
  BY DEF Middle, Convergence
<1>2. am \in 0..359 /\ half \in Int /\ half = to - am /\ half = am - from
  OBVIOUS
<1>3. found = [angle |-> Am - half,
                rangle |-> Am + half + (IF Am - half < 180 THEN 180 ELSE -180),
                halves |-> IF Am = 0 THEN NaN
                           ELSE SinSign(am) * SinSign(Am) + CosSign(am) * CosSign(Am)]
  <2>1. SinAt(am) = SinSign(am) /\ CosAt(am) = CosSign(am)
    BY <1>2, SignsAt
  <2> QED
    BY <1>1, <2>1 DEF GaussRsolve
<1>4. IF steep /\ turn < 0
      THEN /\ am \in 91..179 \/ am \in 271..359
           /\ Am = (IF am < 180 THEN 360 - am ELSE 720 - am)
           /\ SinSign(am) * SinSign(Am) + CosSign(am) * CosSign(Am) = 0
      ELSE /\ Am = am
           /\ (am # 0 /\ SinSign(am) * SinSign(Am) + CosSign(am) * CosSign(Am) = 2) <=> turn # 0
  <2>1. (SinSign(am) = 0 => steep) /\ (CosSign(am) = 0 => ~steep)
    OBVIOUS
  <2>2. am \in 0..359 /\ steep \in BOOLEAN
    BY <1>2
  <2> HIDE DEF am
  <2>3. AzimuthInMiddle(am, steep)
    BY ONLY <2>1, <2>2, MiddleFound
  <2> QED
    BY <2>3 DEF AzimuthInMiddle, turn, Am
<1>5. Back(to) = IF to < 180 THEN to + 180 ELSE to - 180
  BY Backs
<1>6. /\ found.angle = Am - half
      /\ found.rangle = Am + half + (IF Am - half < 180 THEN 180 ELSE -180)
      /\ found.halves = IF Am = 0 THEN NaN
                         ELSE SinSign(am) * SinSign(Am) + CosSign(am) * CosSign(Am)
  <2> HIDE DEF am, half, Am, found
  <2> QED BY <1>3
<1> HIDE DEF am, half, Am, found, turn
<1>7. /\ Same(found.angle, from) <=> right
      /\ Same(found.rangle, Back(to)) <=> right
      /\ found.halves = 2 <=> right /\ turn # 0
  <2>1. CASE right
    <3>1. Am = am
      BY <1>4, <2>1
    <3>2. found.angle = from /\ found.rangle = to + (IF from < 180 THEN 180 ELSE -180)
      BY <1>2, <1>6, <3>1
    <3>3. Same(found.angle, from)
      BY <3>2 DEF Same, NaN
    <3>4. Same(found.rangle, Back(to))
      <4>1. /\ IsAngle(found.rangle) /\ IsAngle(Back(to))
            /\ found.rangle - Back(to) \in Turns
        BY <1>5, <3>2 DEF IsAngle, Turns
      <4> QED
        BY <4>1, SameAngles
    <3>5. found.halves = 2 <=> turn # 0
      BY <1>2, <1>4, <1>6, <2>1, <3>1 DEF NaN
    <3> QED
      BY <2>1, <3>3, <3>4, <3>5
  <2>2. CASE ~right
    <3>1. /\ am \in 91..179 \/ am \in 271..359
          /\ Am = (IF am < 180 THEN 360 - am ELSE 720 - am)
          /\ SinSign(am) * SinSign(Am) + CosSign(am) * CosSign(Am) = 0
      BY <1>4, <2>2
    <3>2. Am \in 181..449 /\ Am - am \in 2..178
      BY <1>2, <3>1
    <3>3. ~Same(found.angle, from)
      <4>1. /\ IsAngle(found.angle) /\ IsAngle(from)
            /\ found.angle - from = Am - am
        BY <1>2, <1>6, <3>2 DEF IsAngle
      <4> QED
        BY <3>2, <4>1, SameAngles DEF Turns
    <3>4. ~Same(found.rangle, Back(to))
      <4>1. found.rangle = to + (Am - am) + (IF Am - half < 180 THEN 180 ELSE -180)
        BY <1>2, <1>6, <3>2
      <4>2. /\ IsAngle(found.rangle) /\ IsAngle(Back(to))
            /\ found.rangle - Back(to) - (Am - am) \in {-360, 0, 360}
        BY <1>2, <1>5, <3>2, <4>1 DEF IsAngle
      <4>3. found.rangle - Back(to) \notin Turns
        <5>1. PICK t \in {-360, 0, 360} : found.rangle - Back(to) = t + (Am - am)
          BY <3>2, <4>2 DEF IsAngle
        <5>2. CASE t = -360
          BY <3>2, <5>1, <5>2 DEF Turns
        <5>3. CASE t = 0
          BY <3>2, <5>1, <5>3 DEF Turns
        <5>4. CASE t = 360
          BY <3>2, <5>1, <5>4 DEF Turns
        <5> QED
          BY <5>1, <5>2, <5>3, <5>4
      <4> QED
        BY <4>2, <4>3, SameAngles
    <3>5. found.halves = 0
      BY <1>6, <3>1, <3>2
    <3> QED
      BY <2>2, <3>3, <3>4, <3>5
  <2> QED
    BY <2>1, <2>2
<1> QED
  BY <1>1, <1>7 DEF am, half, Am, found, turn

(* In the plane. *)
LEMMA PlaneFinds ==
  ASSUME NEW a \in Off
  PROVE  /\ Same(PlaneRsolve(PlaneSolve(a)), a)
         /\ Same(Xy2da(Da2xy(a)), a) <=> a \in {45, 315}
<1>1. a \in 0..359
  BY DEF Off
<1>2. PlaneRsolve(PlaneSolve(a)) = IF a <= 180 THEN a ELSE a - 360
  BY <1>1, FoldedDirections DEF PlaneRsolve, PlaneSolve
<1>3. Same(PlaneRsolve(PlaneSolve(a)), a)
  BY <1>1, <1>2, SameAngles DEF IsAngle, Turns
<1> DEFINE r == Xy2da(Da2xy(a))
<1>4. /\ a \in 1..89 => r = 90 - a
      /\ a \in 91..179 => r = 90 - a
      /\ a \in 181..269 => r = 270 - a
      /\ a \in 271..359 => r = 270 - a
  BY DEF Xy2da, Da2xy, Atan
<1> HIDE DEF r
<1>5. r \in Int /\ IsAngle(r) /\ IsAngle(a)
  BY <1>1, <1>4, Quadrants DEF IsAngle
<1>6. Same(r, a) <=> r - a \in Turns
  BY <1>5, SameAngles
<1>7. r - a \in Turns <=> a \in {45, 315}
  BY <1>1, <1>4, Quadrants DEF Turns
<1> QED
  BY <1>3, <1>6, <1>7 DEF r

LEMMA EcefFolds ==
  ASSUME NEW lon \in {Atan2(h) : h \in Off} \union {0, 90, -90}
  PROVE  EcefLongitude(lon) = IF lon >= 0 THEN lon ELSE lon + 180
<1>1. CASE lon \in {0, 90, -90}
  BY <1>1 DEF EcefLongitude, Atan
<1>2. CASE lon \in {Atan2(h) : h \in Off}
  <2>1. PICK h \in Off : lon = Atan2(h)
    BY <1>2
  <2>2. lon = IF h <= 180 THEN h ELSE h - 360
    BY <2>1, FoldedDirections DEF Off
  <2>3. CASE h \in 1..89
    BY <2>2, <2>3 DEF EcefLongitude, Atan
  <2>4. CASE h \in 91..179
    BY <2>2, <2>4 DEF EcefLongitude, Atan
  <2>5. CASE h \in 181..269
    BY <2>2, <2>5 DEF EcefLongitude, Atan
  <2>6. CASE h \in 271..359
    BY <2>2, <2>6 DEF EcefLongitude, Atan
  <2> QED
    BY <2>3, <2>4, <2>5, <2>6, Quadrants
<1> QED
  BY <1>1, <1>2

-----------------------------------------------------------------------------
(* Map sheets *)

LEMMA RowsTell ==
  ASSUME NEW a \in Nat, NEW b \in Nat, NEW s \in Scales
  PROVE  /\ MinorRow(a, s) \in 1..193
         /\ a \div LatDif(s) = b \div LatDif(s)
              <=> /\ Quotient(a, 4 * Degree) = Quotient(b, 4 * Degree)
                  /\ MinorRow(a, s) = MinorRow(b, s)
<1> USE DEF LatDif, MinorRow, Quotient, Remainder, Degree, Exact
<1>1. CASE s = "A"
  BY <1>1
<1>2. CASE s = "B"
  BY <1>2
<1>3. CASE s = "C"
  BY <1>3
<1>4. CASE s = "D"
  BY <1>4
<1>5. CASE s = "E"
  BY <1>5
<1>6. CASE s = "F"
  BY <1>6
<1>7. CASE s = "G"
  BY <1>7
<1>8. CASE s = "H"
  BY <1>8
<1> HIDE DEF LatDif, MinorRow, Quotient, Remainder, Degree, Exact
<1> QED
  BY <1>1, <1>2, <1>3, <1>4, <1>5, <1>6, <1>7, <1>8 DEF Scales

LEMMA ColumnsTell ==
  ASSUME NEW a \in Nat, NEW b \in Nat, NEW s \in Scales
  PROVE  /\ MinorCol(a, s) \in 1..192
         /\ a \div LonDif(s) = b \div LonDif(s)
              <=> /\ Quotient(a, 6 * Degree) = Quotient(b, 6 * Degree)
                  /\ MinorCol(a, s) = MinorCol(b, s)
<1> USE DEF LonDif, MinorCol, Quotient, Remainder, Degree
<1>1. CASE s = "A"
  BY <1>1
<1>2. CASE s = "B"
  BY <1>2
<1>3. CASE s = "C"
  BY <1>3
<1>4. CASE s = "D"
  BY <1>4
<1>5. CASE s = "E"
  BY <1>5
<1>6. CASE s = "F"
  BY <1>6
<1>7. CASE s = "G"
  BY <1>7
<1>8. CASE s = "H"
  BY <1>8
<1> HIDE DEF LonDif, MinorCol, Quotient, Remainder, Degree
<1> QED
  BY <1>1, <1>2, <1>3, <1>4, <1>5, <1>6, <1>7, <1>8 DEF Scales

LEMMA WidthOfTwo ==
  ASSUME NEW n \in 10..99
  PROVE  Width(n) = 2
<1>1. {p \in {1, 10, 100, 1000} : p = 1 \/ Abs(n) >= p} = {1, 10}
  BY DEF Abs
<1>2. Cardinality({1, 10}) = 2
  <2>1. IsFiniteSet({1}) /\ Cardinality({1}) = 1 /\ {1, 10} = {1} \union {10}
    BY FS_Singleton
  <2> QED
    BY <2>1, FS_AddElement
<1> QED
  BY <1>1, <1>2 DEF Width

LEMMA WidthOfThree ==
  ASSUME NEW n \in 0..999
  PROVE  Width(n) \in 0..3
<1> DEFINE S == {p \in {1, 10, 100, 1000} : p = 1 \/ Abs(n) >= p}
<1>1. S \subseteq {1, 10, 100}
  BY DEF Abs
<1>2. IsFiniteSet({1, 10, 100}) /\ Cardinality({1, 10, 100}) = 3
  <2>1. IsFiniteSet({1}) /\ Cardinality({1}) = 1
    BY FS_Singleton
  <2> DEFINE O == {1}
  <2>1a. IsFiniteSet(O) /\ Cardinality(O) = 1 /\ 10 \notin O
    BY <2>1
  <2> HIDE DEF O
  <2>1b. IsFiniteSet(O \union {10}) /\ Cardinality(O \union {10}) = 2
    BY <2>1a, FS_AddElement
  <2>2. IsFiniteSet({1} \union {10}) /\ Cardinality({1} \union {10}) = 2
    BY <2>1b DEF O
  <2> DEFINE T == {1} \union {10}
  <2>3. 100 \notin T
    OBVIOUS
  <2>4. IsFiniteSet(T) /\ Cardinality(T) = 2
    BY <2>2
  <2>5. {1, 10, 100} = T \union {100}
    OBVIOUS
  <2> HIDE DEF T
  <2>6. IsFiniteSet(T \union {100}) /\ Cardinality(T \union {100}) = 3
    BY <2>3, <2>4, FS_AddElement
  <2> QED
    BY ONLY <2>5, <2>6
<1>3. Cardinality(S) \in Nat /\ Cardinality(S) <= 3
  BY <1>1, <1>2, FS_Subset, FS_CardinalityType
<1> HIDE DEF S
<1>4. Width(n) = 0 + Cardinality(S)
  BY DEF Width, S
<1> QED
  BY <1>3, <1>4

LEMMA GreaterOfTwo ==
  ASSUME NEW m \in Nat, NEW n \in 0..m
  PROVE  Max({m, n}) = m
  BY DEF Max

LEMMA IndexIs ==
  ASSUME NEW lat \in Nat, NEW lon \in Nat, NEW s \in Scales,
         NEW m, m = MapIndex(lat, lon, s)
  PROVE  /\ m.row = Quotient(lat, 4 * Degree) + 1
         /\ m.col = Quotient(lon, 6 * Degree) + 31
         /\ m.scale = s
         /\ m.minorRow = MinorRow(lat, s)
         /\ m.minorCol = MinorCol(lon, s)
  BY DEF MapIndex

LEMMA SameSheet ==
  ASSUME NEW lat \in Nat, NEW lon \in Nat, NEW lat2 \in Nat, NEW lon2 \in Nat, NEW s \in Scales
  PROVE  SameIndex(MapIndex(lat, lon, s), MapIndex(lat2, lon2, s))
           <=> /\ lat2 \div LatDif(s) = lat \div LatDif(s)
               /\ lon2 \div LonDif(s) = lon \div LonDif(s)
<1> DEFINE m == MapIndex(lat, lon, s)
           n == MapIndex(lat2, lon2, s)
<1>1. SameIndex(m, n) <=> /\ m.row = n.row /\ m.col = n.col /\ m.scale = n.scale
                          /\ m.minorRow = n.minorRow /\ m.minorCol = n.minorCol
  <2> HIDE DEF m, n
  <2> QED BY DEF SameIndex
<1>2. /\ m.row = Quotient(lat, 4 * Degree) + 1 /\ n.row = Quotient(lat2, 4 * Degree) + 1
      /\ m.col = Quotient(lon, 6 * Degree) + 31 /\ n.col = Quotient(lon2, 6 * Degree) + 31
      /\ m.scale = s /\ n.scale = s
      /\ m.minorRow = MinorRow(lat, s) /\ n.minorRow = MinorRow(lat2, s)
      /\ m.minorCol = MinorCol(lon, s) /\ n.minorCol = MinorCol(lon2, s)
  <2>1. \A x : x = MapIndex(lat, lon, s) =>
          /\ x.row = Quotient(lat, 4 * Degree) + 1
          /\ x.col = Quotient(lon, 6 * Degree) + 31
          /\ x.scale = s
          /\ x.minorRow = MinorRow(lat, s)
          /\ x.minorCol = MinorCol(lon, s)
    BY IndexIs
  <2>2. \A x : x = MapIndex(lat2, lon2, s) =>
          /\ x.row = Quotient(lat2, 4 * Degree) + 1
          /\ x.col = Quotient(lon2, 6 * Degree) + 31
          /\ x.scale = s
          /\ x.minorRow = MinorRow(lat2, s)
          /\ x.minorCol = MinorCol(lon2, s)
    BY IndexIs
  <2> QED
    BY <2>1, <2>2
<1>3. \A a \in Nat : Quotient(a, 4 * Degree) \in Int /\ Quotient(a, 6 * Degree) \in Int
  BY DEF Quotient, Degree
<1> HIDE DEF m, n
<1>4. /\ m.row = n.row <=> Quotient(lat, 4 * Degree) = Quotient(lat2, 4 * Degree)
      /\ m.col = n.col <=> Quotient(lon, 6 * Degree) = Quotient(lon2, 6 * Degree)
  BY <1>2, <1>3
<1> QED
  BY <1>1, <1>2, <1>4, RowsTell, ColumnsTell DEF m, n

(* The text of an index has ten characters, two of them for the column.    *)
LEMMA TextReadBack ==
  ASSUME NEW lat \in Nat, NEW lon \in Nat, lon < 180 * Degree, NEW s \in Scales,
         MapIndex(lat, lon, s).end = "made"
  PROVE  LET read == Parsed(Fmt(MapIndex(lat, lon, s)))
         IN  read.end = "made" /\ SameIndex(read, MapIndex(lat, lon, s))
<1> DEFINE m == MapIndex(lat, lon, s)
<1>0. m = MapIndex(lat, lon, s)
  OBVIOUS
<1> HIDE DEF m
<1>1. /\ m.col = Quotient(lon, 6 * Degree) + 31
      /\ m.minorRow = MinorRow(lat, s)
      /\ m.minorCol = MinorCol(lon, s)
  BY <1>0, IndexIs
<1>9. /\ [m EXCEPT !.south = 0, !.west = 0].end = m.end
      /\ SameIndex([m EXCEPT !.south = 0, !.west = 0], m)
  BY <1>0 DEF MapIndex, SameIndex
<1>2. m.end = "made"
  BY <1>0
<1>3. Quotient(lon, 6 * Degree) + 31 \in 10..99
  BY DEF Quotient, Degree
<1>4. MinorRow(lat, s) \in 0..999 /\ MinorCol(lon, s) \in 0..999
  <2>1. MinorRow(lat, s) \in 1..193 /\ MinorCol(lon, s) \in 1..192
    BY RowsTell, ColumnsTell
  <2> QED BY <2>1
<1>5. Width(m.col) = 2 /\ Width(m.minorRow) \in 0..3 /\ Width(m.minorCol) \in 0..3
  <2>1. m.col \in 10..99 /\ m.minorRow \in 0..999 /\ m.minorCol \in 0..999
    BY <1>1, <1>3, <1>4
  <2> QED
    BY <2>1, WidthOfTwo, WidthOfThree, ZenonT(30)
<1>6. /\ Max({2, Width(m.col)}) = 2
      /\ Max({3, Width(m.minorRow)}) = 3
      /\ Max({3, Width(m.minorCol)}) = 3
  BY <1>5, GreaterOfTwo
<1>7. Fmt(m) = [index |-> m, length |-> 10]
  BY <1>6 DEF Fmt
<1>8. Parsed(Fmt(m)) = [m EXCEPT !.south = 0, !.west = 0]
  BY <1>5, <1>7 DEF Parsed
<1> QED
  BY <1>2, <1>8, <1>9 DEF m

-----------------------------------------------------------------------------
(* Projections and channels *)

AnyProject == [interval : {3, 6}, band : Int]

LEMMA MeridiansAreIntegers ==
  ASSUME NEW i \in {3, 6}, NEW b \in Int, NEW lon \in Int
  PROVE  CenterMeridian(i, b) \in Int /\ BandOf(i, lon) \in Int
<1>1. CenterMeridian(i, b) \in Int
  BY DEF CenterMeridian, Degree
<1>2. Quotient(lon, 6 * Degree) \in Int /\ Quotient(lon, 3 * Degree) \in Int
  BY DEF Quotient, Degree
<1>3. BandOf(i, lon) \in Int
  BY <1>2 DEF BandOf
<1> QED
  BY <1>1, <1>3

(* A chosen band is at most half a zone away from a point in the east. *)
LEMMA NearestBand ==
  ASSUME NEW i \in {3, 6}, NEW lon \in Nat
  PROVE  /\ BandOf(i, lon) \in Nat
         /\ 2 * Abs(lon - CenterMeridian(i, BandOf(i, lon))) <= i * Degree
<1>1. CASE i = 3
  <2>1. /\ BandOf(i, lon) \in Nat
        /\ 3 * BandOf(i, lon) * Degree - lon <= 21600
        /\ lon - 3 * BandOf(i, lon) * Degree <= 21600
    BY <1>1 DEF BandOf, Quotient, Remainder, Degree
  <2> QED
    BY <1>1, <2>1 DEF CenterMeridian, Abs, Degree
<1>2. CASE i = 6
  <2>1. /\ BandOf(i, lon) \in Nat
        /\ (6 * BandOf(i, lon) - 3) * Degree - lon <= 43200
        /\ lon - (6 * BandOf(i, lon) - 3) * Degree <= 43200
    BY <1>2 DEF BandOf, Quotient, Degree
  <2> QED
    BY <1>2, <2>1 DEF CenterMeridian, Abs, Degree
<1> QED
  BY <1>1, <1>2

(* The project of a coordinate takes it back to where it was. *)
LEMMA ThereAndBack ==
  ASSUME NEW lon \in Int, NEW e, NEW p \in AnyProject,
         NEW c, c = Projected(Geodetic(lon, e), p),
         NEW band, band = (IF p.band = Virtual THEN BandOf(p.interval, lon) ELSE p.band)
  PROVE  /\ c.kind = "projected"
         /\ c.band = band
         /\ c.y = lon - CenterMeridian(p.interval, band)
         /\ c.ellipsoid = e
         /\ c.project.interval = p.interval /\ c.project.band = band
         /\ c.project \in AnyProject
         /\ Unprojected(c) = Geodetic(lon, e)
<1>1. p.interval \in {3, 6} /\ p.band \in Int
      /\ p = [interval |-> p.interval, band |-> p.band]
  BY DEF AnyProject
<1>2. band \in Int /\ CenterMeridian(p.interval, band) \in Int
  BY <1>1, MeridiansAreIntegers
<1>3. c = [kind |-> "projected", y |-> lon - CenterMeridian(p.interval, band), band |-> band,
           project |-> [p EXCEPT !.band = band], ellipsoid |-> e]
  BY DEF Projected, Geodetic
<1>4. [p EXCEPT !.band = band] = [interval |-> p.interval, band |-> band]
  BY <1>1
<1>5. /\ c.kind = "projected" /\ c.band = band /\ c.ellipsoid = e
      /\ c.y = lon - CenterMeridian(p.interval, band)
      /\ c.project = [interval |-> p.interval, band |-> band]
  BY <1>3, <1>4
<1>6. CenterMeridian(c.project.interval, c.band) + c.y = lon
  BY <1>2, <1>5
<1>8. c.project \in AnyProject
  BY <1>1, <1>2, <1>5 DEF AnyProject
<1>7. Unprojected(c) = Geodetic(lon, e)
  BY <1>5, <1>6 DEF Unprojected
<1> QED
  BY <1>5, <1>7, <1>8

LEMMA GivenBand ==
  ASSUME NEW lon, NEW e, NEW p, p.band # Virtual, NEW c, c = Projected(Geodetic(lon, e), p)
  PROVE  c.band = p.band
  BY DEF Projected

IsProjected(c, lon, e, p) ==
  /\ c.kind = "projected" /\ c.ellipsoid = e
  /\ c.project.interval = p.interval
  /\ Unprojected(c) = Geodetic(lon, e)

LEMMA ProjectedIs ==
  ASSUME NEW lon \in Int, NEW e, NEW p \in AnyProject,
         NEW c, c = Projected(Geodetic(lon, e), p)
  PROVE  IsProjected(c, lon, e, p)
<1> DEFINE band == IF p.band = Virtual THEN BandOf(p.interval, lon) ELSE p.band
<1>1. band = (IF p.band = Virtual THEN BandOf(p.interval, lon) ELSE p.band)
  OBVIOUS
<1> HIDE DEF band
<1> QED
  BY <1>1, ThereAndBack DEF IsProjected

LEMMA AcceptersAre ==
  ASSUME AlgorithmsAssumption, NEW a \in Accepters
  PROVE  \/ a.to = "project" /\ a.project \in AnyProject
         \/ a.to \in {"ellipsoid", "geodetic_cast to"}
         \/ a.to = "geodetic_cast"
<1>1. CASE a \in {ToProject(p) : p \in Projects}
  <2>1. PICK p \in Projects : a = ToProject(p)
    BY <1>1
  <2>2. p \in [interval : {3, 6}, band : Bands \union {Virtual}]
    BY DEF Projects
  <2>3. Bands \union {Virtual} \subseteq Int
    <3>1. Bands \subseteq Int
      BY DEF AlgorithmsAssumption
    <3>2. Virtual \in Int
      BY DEF Virtual
    <3> QED BY <3>1, <3>2
  <2>4. p \in AnyProject
    BY <2>2, <2>3 DEF AnyProject
  <2> QED
    BY <2>1, <2>4 DEF ToProject
<1>2. CASE a \in {ToEllipsoid(e) : e \in Ellipsoids}
  <2>1. PICK e : a = ToEllipsoid(e)
    BY <1>2
  <2> QED
    BY <2>1 DEF ToEllipsoid
<1>3. CASE a \in {ToGeodeticOn(e) : e \in Ellipsoids}
  <2>1. PICK e : a = ToGeodeticOn(e)
    BY <1>3
  <2> QED
    BY <2>1 DEF ToGeodeticOn
<1>4. CASE a = ToGeodetic
  BY <1>4 DEF ToGeodetic
<1> HIDE DEF AnyProject
<1>5. a \in Accepters
  OBVIOUS
<1> QED
  BY <1>1, <1>2, <1>3, <1>4, <1>5 DEF Accepters

AfterStep(c, path, after, k) == IF k = 0 THEN c ELSE Sent(after[k - 1], path[k])

(* The coordinates along a chain exist. *)
LEMMA ChainIs ==
  ASSUME NEW n \in Nat, NEW c, NEW path, Len(path) = n
  PROVE  \E after : /\ after[0] = c
                    /\ \A k \in 1..n : after[k] = Sent(after[k - 1], path[k])
                    /\ SentAll(c, path) = after[n]
<1> DEFINE Solves(m, g) == g = [k \in 0..m |-> AfterStep(c, path, g, k)]
           S == {m \in 0..n : \A g : ~Solves(m, g)}
<1>1. S = {}
  <2> SUFFICES ASSUME S # {} PROVE FALSE
    OBVIOUS
  <2> DEFINE m == Least(S)
  <2>1. S \in SUBSET Nat
    OBVIOUS
  <2>2. m \in S /\ \A y \in S : m <= y
    <3> HIDE DEF S
    <3> QED BY <2>1, LeastIsLeast
  <2>3. m \in 0..n
    BY <2>2
  <2> HIDE DEF m
  <2>4. CASE m = 0
    <3> DEFINE h == [k \in 0..0 |-> c]
    <3>1. h = [k \in 0..0 |-> AfterStep(c, path, h, k)]
      BY DEF AfterStep
    <3> QED
      BY <2>2, <2>4, <3>1
  <2>5. CASE m > 0
    <3>1. m - 1 \in 0..n /\ m - 1 \notin S
      BY <2>2, <2>3, <2>5
    <3>2. PICK g : g = [k \in 0..(m - 1) |-> AfterStep(c, path, g, k)]
      BY <3>1
    <3> DEFINE h == [k \in 0..m |-> IF k = m THEN Sent(g[m - 1], path[m]) ELSE g[k]]
    <3>3. \A j \in 0..(m - 1) : h[j] = g[j]
      BY <2>3
    <3>4. ASSUME NEW k \in 0..m PROVE h[k] = AfterStep(c, path, h, k)
      <4>1. k # 0 => k - 1 \in 0..(m - 1)
        BY <2>3
      <4>2. AfterStep(c, path, h, k) = AfterStep(c, path, g, k)
        <5> HIDE DEF h
        <5> QED BY <3>3, <4>1 DEF AfterStep
      <4>3. h[k] = AfterStep(c, path, g, k)
        <5>1. CASE k = m
          BY <2>5, <5>1 DEF AfterStep
        <5>2. CASE k # m
          <6>1. k \in 0..(m - 1)
            BY <2>3, <5>2
          <6>2. g[k] = AfterStep(c, path, g, k)
            <7> HIDE DEF h
            <7> QED BY <3>2, <6>1
          <6> QED
            BY <5>2, <6>2
        <5> QED
          BY <5>1, <5>2
      <4> QED
        BY <4>2, <4>3
    <3>5. h = [k \in 0..m |-> h[k]]
      OBVIOUS
    <3>6. Solves(m, h)
      <4> HIDE DEF h
      <4> QED BY <3>4, <3>5
    <3> HIDE DEF h
    <3> QED
      BY <2>2, <3>6
  <2> QED
    BY <2>3, <2>4, <2>5
<1>2. \E g : Solves(n, g)
  <2>1. n \in 0..n
    OBVIOUS
  <2> QED
    BY <1>1, <2>1
<1> DEFINE after == CHOOSE g : Solves(n, g)
<1>3. SentAll(c, path) = after[n]
  BY DEF SentAll, AfterStep
<1>4. Solves(n, after)
  BY <1>2
<1> HIDE DEF after
<1>5. \A k \in 0..n : after[k] = AfterStep(c, path, after, k)
  BY <1>4
<1>6. after[0] = c /\ \A k \in 1..n : after[k] = Sent(after[k - 1], path[k])
  BY <1>5 DEF AfterStep
<1> QED
  BY <1>3, <1>6

IsAccepter(a) ==
  \/ a.to = "project" /\ a.project \in AnyProject
  \/ a.to \in {"ellipsoid", "geodetic_cast to"}
  \/ a.to = "geodetic_cast"

(* Why a chain from ellipsoid e may have failed after its first k links.   *)
RefusedAt(path, e, j) ==
  IF path[j].to = "project"
  THEN \E l \in 1..(j - 1) :
         /\ path[l].to = "project"
         /\ path[l].project.interval # path[j].project.interval
  ELSE path[j].ellipsoid # e

(* Where a chain from longitude lon on ellipsoid e is after k links. *)
Reached(c, lon, e, path, k) ==
  \/ c = Failed /\ \E j \in 1..k : RefusedAt(path, e, j)
  \/ c = Geodetic(lon, e)
  \/ k > 0 /\ path[k].to = "project" /\ c = Projected(Geodetic(lon, e), path[k].project)

LEMMA SentFrom ==
  ASSUME NEW c, NEW a, c # Failed
  PROVE  /\ ~Acknowledged(c, a) => Sent(c, a) = Failed
         /\ (Acknowledged(c, a) /\ a.to = "project") =>
              Sent(c, a) = Projected(IF c.kind = "projected" THEN Unprojected(c) ELSE c,
                                     a.project)
         /\ (Acknowledged(c, a) /\ a.to # "project") =>
              Sent(c, a) = IF c.kind = "projected" THEN Unprojected(c) ELSE c
  BY DEF Sent

LEMMA LinkKeeps ==
  ASSUME NEW lon \in Int, NEW e, NEW path, NEW k \in Nat \ {0}, NEW c,
         \A j \in 1..k : IsAccepter(path[j]), Reached(c, lon, e, path, k - 1)
  PROVE  Reached(Sent(c, path[k]), lon, e, path, k)
<1> DEFINE a == path[k]
<1>1. IsAccepter(a) /\ k \in 1..k
  OBVIOUS
<1>2. CASE c = Failed /\ \E j \in 1..(k - 1) : RefusedAt(path, e, j)
  <2>1. Sent(c, a) = Failed
    BY <1>2 DEF Sent
  <2> HIDE DEF a
  <2>2. \E j \in 1..k : RefusedAt(path, e, j)
    BY <1>2
  <2> QED
    BY <2>1, <2>2 DEF Reached, a
<1>3. ASSUME c # Failed, c.ellipsoid = e,
             (IF c.kind = "projected" THEN Unprojected(c) ELSE c) = Geodetic(lon, e),
             c.kind = "projected" =>
               /\ k - 1 > 0 /\ path[k - 1].to = "project"
               /\ c.project.interval = path[k - 1].project.interval
      PROVE  Reached(Sent(c, a), lon, e, path, k)
  <2>1. CASE Acknowledged(c, a) /\ a.to = "project"
    <3>1. Sent(c, a) = Projected(Geodetic(lon, e), a.project)
      BY <1>3, <2>1, SentFrom
    <3> QED
      BY <2>1, <3>1 DEF Reached
  <2>2. CASE Acknowledged(c, a) /\ a.to # "project"
    <3>1. Sent(c, a) = Geodetic(lon, e)
      BY <1>3, <2>2, SentFrom
    <3> QED
      BY <3>1 DEF Reached
  <2>3. CASE ~Acknowledged(c, a)
    <3>1. Sent(c, a) = Failed
      BY <1>3, <2>3, SentFrom
    <3>2. RefusedAt(path, e, k)
      <4>1. CASE a.to = "project"
        <5>1. /\ k - 1 \in 1..(k - 1) /\ path[k - 1].to = "project"
              /\ path[k - 1].project.interval # path[k].project.interval
          BY <1>3, <2>3, <4>1 DEF Acknowledged
        <5> QED
          BY <4>1, <5>1 DEF RefusedAt
      <4>2. CASE a.to # "project"
        BY <1>3, <2>3, <4>2 DEF RefusedAt, Acknowledged
      <4> QED
        BY <4>1, <4>2
    <3> QED
      BY <1>1, <3>1, <3>2 DEF Reached
  <2> QED
    BY <2>1, <2>2, <2>3
<1>4. CASE c = Geodetic(lon, e)
  <2>1. c # Failed /\ c.ellipsoid = e /\ c.kind = "geodetic"
    BY <1>4 DEF Geodetic, Failed
  <2> QED
    BY <1>3, <1>4, <2>1
<1>5. CASE /\ k - 1 > 0 /\ path[k - 1].to = "project"
           /\ c = Projected(Geodetic(lon, e), path[k - 1].project)
  <2>1. path[k - 1].project \in AnyProject
    <3>1. k - 1 \in 1..k
      BY <1>5
    <3> QED
      BY <1>5, <3>1 DEF IsAccepter
  <2> DEFINE p == path[k - 1].project
  <2>2. p \in AnyProject /\ c = Projected(Geodetic(lon, e), p)
    BY <1>5, <2>1
  <2> HIDE DEF p
  <2>3. /\ c.kind = "projected" /\ c.ellipsoid = e
        /\ c.project.interval = p.interval
        /\ Unprojected(c) = Geodetic(lon, e)
    <3>1. lon \in Int
      OBVIOUS
    <3>2. IsProjected(c, lon, e, p)
      BY ONLY <2>2, <3>1, ProjectedIs
    <3> QED BY <3>2 DEF IsProjected
  <2>4. c # Failed
    BY <2>3 DEF Failed
  <2>5. (IF c.kind = "projected" THEN Unprojected(c) ELSE c) = Geodetic(lon, e)
    BY ONLY <2>3
  <2>6. c.project.interval = path[k - 1].project.interval
    BY ONLY <2>3 DEF p
  <2>7. c.ellipsoid = e /\ k - 1 > 0 /\ path[k - 1].to = "project"
    BY ONLY <1>5, <2>3
  <2>8. c.kind = "projected" =>
          /\ k - 1 > 0 /\ path[k - 1].to = "project"
          /\ c.project.interval = path[k - 1].project.interval
    BY ONLY <2>6, <2>7
  <2>9. c.ellipsoid = e
    BY ONLY <2>7
  <2> QED
    BY ONLY <1>3, <2>4, <2>5, <2>8, <2>9
<1> QED
  BY <1>2, <1>4, <1>5 DEF Reached

LEMMA ChainReaches ==
  ASSUME NEW lon \in Int, NEW e, NEW n \in Nat, NEW path, Len(path) = n,
         \A j \in 1..n : IsAccepter(path[j])
  PROVE  Reached(SentAll(Geodetic(lon, e), path), lon, e, path, n)
<1>1. PICK after : /\ after[0] = Geodetic(lon, e)
                   /\ \A k \in 1..n : after[k] = Sent(after[k - 1], path[k])
                   /\ SentAll(Geodetic(lon, e), path) = after[n]
  BY ChainIs
<1> DEFINE S == {k \in 0..n : ~Reached(after[k], lon, e, path, k)}
           m == Least(S)
<1>2. ASSUME S # {} PROVE FALSE
  <2>1. S \in SUBSET Nat
    OBVIOUS
  <2>2. m \in S /\ \A y \in S : m <= y
    <3> HIDE DEF S
    <3> QED BY <1>2, <2>1, LeastIsLeast
  <2>3. m \in 0..n /\ ~Reached(after[m], lon, e, path, m)
    BY <2>2
  <2>4. m # 0 => m - 1 \in 0..n /\ Reached(after[m - 1], lon, e, path, m - 1)
    <3> HIDE DEF m
    <3> QED BY <2>2, <2>3
  <2> HIDE DEF m
  <2>5. CASE m = 0
    <3>1. after[0] = Geodetic(lon, e)
      BY <1>1
    <3> QED
      BY <2>3, <2>5, <3>1 DEF Reached
  <2>6. CASE m # 0
    <3>1. after[m] = Sent(after[m - 1], path[m])
      BY <1>1, <2>3, <2>6
    <3>2. m \in Nat \ {0} /\ \A j \in 1..m : IsAccepter(path[j])
      BY <2>3, <2>6
    <3>3. Reached(after[m - 1], lon, e, path, m - 1)
      BY <2>4, <2>6
    <3> HIDE DEF S
    <3>4. Reached(Sent(after[m - 1], path[m]), lon, e, path, m)
      <4>1. lon \in Int
        OBVIOUS
      <4> QED BY ONLY <3>2, <3>3, <4>1, LinkKeeps
    <3> QED
      BY <2>3, <3>1, <3>4
  <2> QED
    BY <2>5, <2>6
<1>3. n \in 0..n /\ n \notin S
  BY <1>2
<1> QED
  BY <1>1, <1>3

LEMMA ChainsAre ==
  ASSUME AlgorithmsAssumption, NEW path \in Chains
  PROVE  /\ Len(path) \in Nat \ {0}
         /\ DOMAIN path = 1..Len(path)
         /\ \A j \in 1..Len(path) : path[j] \in Accepters /\ IsAccepter(path[j])
<1>1. PICK n \in 1..Links : path \in [1..n -> Accepters]
  BY DEF Chains
<1>2. n \in Nat \ {0}
  BY <1>1 DEF AlgorithmsAssumption
<1>3. Len(path) = n
  BY <1>1, <1>2, LenProperties
<1> QED
  BY <1>1, <1>2, <1>3, AcceptersAre DEF IsAccepter

LEMMA ChainKeeps ==
  ASSUME AlgorithmsAssumption, NEW lon \in Int, NEW e, NEW path \in Chains,
         NEW c, c = SentAll(Geodetic(lon, e), path)
  PROVE  IF c = Failed
         THEN \E k \in DOMAIN path :
                IF path[k].to = "project"
                THEN \E l \in 1..(k - 1) :
                       /\ path[l].to = "project"
                       /\ path[l].project.interval # path[k].project.interval
                ELSE path[k].ellipsoid # e
         ELSE Geodetic(lon, e) = IF c.kind = "projected" THEN Unprojected(c) ELSE c
<1> DEFINE n == Len(path)
<1>1. n \in Nat /\ DOMAIN path = 1..n /\ \A j \in 1..n : IsAccepter(path[j])
  BY ChainsAre
<1> HIDE DEF n
<1>2. Len(path) = n
  BY DEF n
<1>3. Reached(c, lon, e, path, n)
  BY <1>1, <1>2, ChainReaches
<1>4. CASE c = Failed /\ \E j \in 1..n : RefusedAt(path, e, j)
  BY <1>1, <1>4 DEF RefusedAt
<1>5. CASE c = Geodetic(lon, e)
  <2>1. c # Failed /\ c.kind = "geodetic"
    BY <1>5 DEF Geodetic, Failed
  <2> QED
    BY <1>5, <2>1
<1>6. CASE n > 0 /\ path[n].to = "project" /\ c = Projected(Geodetic(lon, e), path[n].project)
  <2>1. path[n].project \in AnyProject
    <3>1. n \in 1..n
      BY <1>1, <1>6
    <3> QED
      BY <1>1, <1>6, <3>1 DEF IsAccepter
  <2>2. c.kind = "projected" /\ Unprojected(c) = Geodetic(lon, e)
    <3>1. lon \in Int /\ c = Projected(Geodetic(lon, e), path[n].project)
      BY <1>6
    <3>2. IsProjected(c, lon, e, path[n].project)
      BY ONLY <2>1, <3>1, ProjectedIs
    <3> QED BY <3>2 DEF IsProjected
  <2>3. c # Failed
    BY <2>2 DEF Failed
  <2> QED
    BY <2>2, <2>3
<1> QED
  BY <1>3, <1>4, <1>5, <1>6 DEF Reached

LEMMA LongitudesAreIntegers ==
  ASSUME AlgorithmsAssumption
  PROVE  ChannelLons \subseteq Int
<1>1. HalfDegrees \subseteq Nat
  BY DEF AlgorithmsAssumption
<1>2. Degree \div 2 = 7200
  BY DEF Degree
<1>3. {-h : h \in HalfDegrees} \subseteq Int
  <2> SUFFICES ASSUME NEW h \in HalfDegrees PROVE -h \in Int
    OBVIOUS
  <2>1. h \in Nat
    BY <1>1
  <2> QED
    BY <2>1
<1> QED
  BY <1>1, <1>2, <1>3 DEF ChannelLons

LEMMA BandStays ==
  ASSUME AlgorithmsAssumption, NEW lon \in Nat, NEW e, NEW path \in Chains,
         NEW c, c = SentAll(Geodetic(lon, e), path), c.kind = "projected"
  PROVE  /\ path[Len(path)].project.band = Virtual =>
              2 * Abs(c.y) <= c.project.interval * Degree
         /\ \A lon2 \in ChannelLons :
              Sent(Geodetic(lon2, e), ToProject(c.project)).band = c.band
<1> DEFINE n == Len(path)
           p == path[n].project
           band == IF p.band = Virtual THEN BandOf(p.interval, lon) ELSE p.band
<1>1. n \in Nat \ {0} /\ \A j \in 1..n : IsAccepter(path[j])
  BY ChainsAre
<1> HIDE DEF n
<1>2. Len(path) = n
  BY DEF n
<1>3. Reached(c, lon, e, path, n)
  BY <1>1, <1>2, ChainReaches
<1>4. /\ path[n].to = "project"
      /\ c = Projected(Geodetic(lon, e), p)
  <2>1. c # Failed /\ c # Geodetic(lon, e)
    BY DEF Geodetic, Failed
  <2> QED
    BY <1>3, <2>1 DEF Reached
<1>5. p \in AnyProject
  <2>1. n \in 1..n
    BY <1>1
  <2> QED
    BY <1>1, <1>4, <2>1 DEF IsAccepter
<1>6. band = (IF p.band = Virtual THEN BandOf(p.interval, lon) ELSE p.band)
  OBVIOUS
<1>7. lon \in Int
  OBVIOUS
<1> HIDE DEF p, band
<1>8. c = Projected(Geodetic(lon, e), p)
  BY <1>4
<1>9. /\ c.band = band /\ c.y = lon - CenterMeridian(p.interval, band)
      /\ c.project.interval = p.interval /\ c.project.band = band
      /\ c.project \in AnyProject
  BY ONLY <1>5, <1>6, <1>7, <1>8, ThereAndBack
<1>10. p.interval \in {3, 6} /\ p.band \in Int
  BY <1>5 DEF AnyProject
<1>11. band # Virtual
  <2>1. BandOf(p.interval, lon) \in Nat
    BY <1>10, NearestBand
  <2> QED
    BY <1>6, <2>1 DEF Virtual
<1>12. p.band = Virtual => 2 * Abs(c.y) <= c.project.interval * Degree
  <2> SUFFICES ASSUME p.band = Virtual
               PROVE  2 * Abs(c.y) <= c.project.interval * Degree
    OBVIOUS
  <2>1. band = BandOf(p.interval, lon)
    BY <1>6
  <2>2. 2 * Abs(lon - CenterMeridian(p.interval, BandOf(p.interval, lon)))
          <= p.interval * Degree
    BY <1>10, NearestBand
  <2> QED
    BY <1>9, <2>1, <2>2
<1>13. ASSUME NEW lon2 \in ChannelLons
       PROVE  Sent(Geodetic(lon2, e), ToProject(c.project)).band = c.band
  <2> DEFINE q == c.project
             there == Geodetic(lon2, e)
             a == ToProject(q)
  <2>1. lon2 \in Int
    BY LongitudesAreIntegers
  <2>2. there # Failed /\ there.kind = "geodetic" /\ a.to = "project" /\ a.project = q
    BY DEF Geodetic, Failed, ToProject
  <2> HIDE DEF there, a, q
  <2>3. Acknowledged(there, a)
    BY <2>2 DEF Acknowledged
  <2>4. Sent(there, a) = Projected(there, q)
    BY <2>2, <2>3, SentFrom
  <2> DEFINE d == Sent(there, a)
  <2> HIDE DEF d
  <2>5. d = Projected(Geodetic(lon2, e), q) /\ q \in AnyProject
    BY <1>9, <2>4 DEF there, d, q
  <2>6. d.band = band
    BY <1>9, <1>11, <2>5, GivenBand DEF q
  <2> QED
    BY <1>9, <2>6 DEF d, there, a, q
<1> QED
  BY <1>2, <1>12, <1>13 DEF p

-----------------------------------------------------------------------------
(* Adjustments: space_resection and space_intersection_ols, for any        *)
(* numbers of images, points and iterations.                               *)

Phases == {"kw", "running", "returned", "aborted", "undefined"}

Success == result.info = "Iterative_Solve_Success"

AdjustmentTypes ==
  /\ phase \in Phases
  /\ job \in Jobs
  /\ Has(args, "number_of_iterations") => args["number_of_iterations"].value \in Int
  /\ used.limit \in Int
  /\ left \in Int
  /\ rounds \in Nat
  /\ row \in Int
  /\ converged \in BOOLEAN
  /\ estimate \in [0..(job.points - 1) -> Nat]
  /\ result \in [info : {"indeterminate", "Unknown_Status", "Iterative_Solve_Success"},
                 rot : Int]

(* The loops count left down while rounds goes up, and a limit below zero  *)
(* lets no iteration begin.                                                *)
Counted ==
  /\ phase = "kw" => rounds = 0
  /\ phase = "running" => rounds + left = used.limit /\ (left >= 0 \/ rounds = 0)
  /\ rounds <= Finite(used.limit)
  /\ (phase = "returned" /\ ~Success) => rounds = Finite(used.limit)

(* The resection has no rotation and no success before it returns.         *)
ResectionReports ==
  job.fn = "space_resection" =>
    /\ row = None
    /\ phase # "returned" => ~Success /\ result.rot = None
    /\ phase = "returned" =>
         /\ Success <=> result.rot # None
         /\ Success => result.rot = estimate[0]

(* A sweep over the points that has moved none by much so far has reported *)
(* success once it is past the first, and a sweep that ended without the   *)
(* call returning has moved one.                                           *)
IntersectionReports ==
  job.fn = "space_intersection_ols" =>
    /\ row = None \/ row \in 0..(job.points - 1)
    /\ (phase = "kw" \/ (phase = "running" /\ row = None)) => ~converged
    /\ (phase = "running" /\ row # None /\ row > 0 /\ converged) => Success
    /\ (phase = "returned" /\ converged) => Success

AdjustmentInd ==
  AdjustmentTypes /\ Counted /\ ResectionReports /\ IntersectionReports

LEMMA JobKinds ==
  ASSUME AdjustmentTypes
  PROVE  /\ job.fn \in {"space_resection", "space_intersection_ols"}
         /\ job.points \in Nat /\ job.points > 0
         /\ job.images \in Nat
         /\ 0 \in 0..(job.points - 1)
  BY AdjustmentAssumption DEF AdjustmentTypes, Jobs

LEMMA InitInd == AdjustmentInit => AdjustmentInd
<1> SUFFICES ASSUME AdjustmentInit PROVE AdjustmentInd
  OBVIOUS
<1>1. AdjustmentTypes
  <2>1. ~Has(args, "number_of_iterations")
    BY DEF AdjustmentInit, NoArgs, Has
  <2>2. used.limit \in Int /\ left \in Int /\ rounds \in Nat /\ row \in Int
    BY DEF AdjustmentInit, NoValues, None
  <2>3. estimate \in [0..(job.points - 1) -> Nat]
    BY DEF AdjustmentInit
  <2>4. result \in [info : {"indeterminate", "Unknown_Status", "Iterative_Solve_Success"},
                  rot : Int]
    BY DEF AdjustmentInit, NoResult, None
  <2> QED
    BY <2>1, <2>2, <2>3, <2>4 DEF AdjustmentInit, AdjustmentTypes, Phases
<1>2. Counted
  BY DEF AdjustmentInit, Counted, Finite, NoValues
<1>3. ResectionReports /\ IntersectionReports
  BY DEF AdjustmentInit, ResectionReports, IntersectionReports, Success, NoResult, None
<1> QED
  BY <1>1, <1>2, <1>3 DEF AdjustmentInd

(* A setter touches the arguments alone (kw.hpp:94-134). *)
LEMMA GiveInd ==
  ASSUME AdjustmentInd, NEW tag \in Tags, NEW value \in Values(tag), NEW named,
         Give(tag, value, named)
  PROVE  AdjustmentInd'
<1>1. tag = "number_of_iterations" => value \in Int
  BY AdjustmentAssumption DEF Values
<1>2. Has(args, "number_of_iterations")' => args'["number_of_iterations"].value \in Int
  <2>1. CASE Has(args, tag)
    BY <2>1 DEF Give, AdjustmentInd, AdjustmentTypes, Has
  <2>2. CASE ~Has(args, tag)
    BY <1>1, <2>2 DEF Give, AdjustmentInd, AdjustmentTypes, Has, WithArg, Argument
  <2> QED
    BY <2>1, <2>2
<1>3. AdjustmentTypes'
  BY <1>2 DEF Give, AdjustmentInd, AdjustmentTypes, Phases
<1>4. Counted' /\ ResectionReports' /\ IntersectionReports'
  BY DEF Give, AdjustmentInd, Counted, Finite, ResectionReports, IntersectionReports, Success
<1> QED
  BY <1>3, <1>4 DEF AdjustmentInd

(* The call reads its limit, and nothing has been reported. *)
LEMMA CalledInd ==
  ASSUME AdjustmentInd, NEW later, Called(later)
  PROVE  AdjustmentInd'
<1> DEFINE limit == ArgOr(args, "number_of_iterations", DefaultLimit)
<1>1. limit \in Int
  BY AdjustmentAssumption DEF AdjustmentInd, AdjustmentTypes, ArgOr
<1>2. used'.limit = limit /\ left' = limit
  BY DEF Called
<1>3. result' \in [info : {"indeterminate", "Unknown_Status", "Iterative_Solve_Success"}, rot : Int]
      /\ (job.fn = "space_resection" => ~Success' /\ result'.rot = result.rot)
      /\ (job.fn # "space_resection" => result' = result)
  BY DEF Called, AdjustmentInd, AdjustmentTypes, Success
<1>4. phase = "kw" /\ phase' \in {"aborted", "undefined", "running"}
  BY DEF Called
<1>5. UNCHANGED <<job, args, row, converged, estimate, rounds>>
  BY DEF Called
<1> HIDE DEF limit
<1>6. AdjustmentTypes'
  BY <1>1, <1>2, <1>3, <1>4, <1>5 DEF AdjustmentInd, AdjustmentTypes, Phases, Has
<1>7. Counted'
  BY <1>1, <1>2, <1>4, <1>5 DEF AdjustmentInd, Counted, Finite, Success
<1>8. ResectionReports'
  BY <1>3, <1>4, <1>5 DEF AdjustmentInd, ResectionReports, Success
<1>9. IntersectionReports'
  <2>1. job.fn = "space_intersection_ols" =>
          ~converged /\ (row = None \/ row \in 0..(job.points - 1))
    BY <1>4 DEF AdjustmentInd, IntersectionReports
  <2> QED
    <3>1. job' = job /\ row' = row /\ converged' = converged
      BY <1>5
    <3>2. phase' # "returned"
      BY <1>4
    <3> QED
      BY <2>1, <3>1, <3>2 DEF IntersectionReports
<1> QED
  BY <1>6, <1>7, <1>8, <1>9 DEF AdjustmentInd

LEMMA ResectionInd ==
  ASSUME AdjustmentInd, NEW c \in Nat, ResectionIterates(c)
  PROVE  AdjustmentInd'
<1>1. AdjustmentTypes
  BY DEF AdjustmentInd
<1>2. job.fn = "space_resection" /\ phase = "running" /\ left > 0
  BY DEF ResectionIterates
<1>3. estimate[0] \in Nat
  BY <1>1, JobKinds DEF AdjustmentTypes
<1>4. UNCHANGED <<job, args, used, row, converged>> /\ left' = left - 1 /\ rounds' = rounds + 1
  BY DEF ResectionIterates
<1>5. CASE c < used.threshold
  <2>1. /\ result' = [info |-> "Iterative_Solve_Success", rot |-> estimate[0]]
        /\ phase' = "returned" /\ estimate' = estimate
    BY <1>5 DEF ResectionIterates
  <2>2. AdjustmentTypes'
    BY <1>1, <1>3, <1>4, <2>1 DEF AdjustmentTypes, Phases
  <2>3. Counted'
    BY <1>1, <1>2, <1>4, <2>1 DEF AdjustmentInd, AdjustmentTypes, Counted, Finite, Success
  <2>4. ResectionReports' /\ IntersectionReports'
    BY <1>2, <1>3, <1>4, <2>1
       DEF AdjustmentInd, ResectionReports, IntersectionReports, Success, None
  <2> QED
    BY <2>2, <2>3, <2>4 DEF AdjustmentInd
<1>6. CASE ~(c < used.threshold)
  <2>1. /\ estimate' = [estimate EXCEPT ![0] = @ + c]
        /\ result' = result /\ phase' = phase
    BY <1>6 DEF ResectionIterates
  <2>2. estimate' \in [0..(job.points - 1) -> Nat]
    <3>1. estimate \in [0..(job.points - 1) -> Nat] /\ estimate[0] + c \in Nat
      BY <1>1, <1>3 DEF AdjustmentTypes
    <3> QED
      BY <2>1, <3>1
  <2>3. AdjustmentTypes'
    BY <1>1, <1>4, <2>1, <2>2 DEF AdjustmentTypes, Phases
  <2>4. Counted'
    BY <1>1, <1>2, <1>4, <2>1 DEF AdjustmentInd, AdjustmentTypes, Counted, Finite, Success
  <2>5. ResectionReports' /\ IntersectionReports'
    BY <1>2, <1>4, <2>1 DEF AdjustmentInd, ResectionReports, IntersectionReports, Success
  <2> QED
    BY <2>3, <2>4, <2>5 DEF AdjustmentInd
<1> QED
  BY <1>5, <1>6

LEMMA SweepInd ==
  ASSUME AdjustmentInd, SweepBegins
  PROVE  AdjustmentInd'
<1>1. AdjustmentTypes
  BY DEF AdjustmentInd
<1>2. AdjustmentTypes'
  BY <1>1 DEF SweepBegins, AdjustmentTypes, Phases
<1>3. Counted'
  BY <1>1 DEF SweepBegins, AdjustmentInd, AdjustmentTypes, Counted, Finite, Success
<1>4. ResectionReports' /\ IntersectionReports'
  BY <1>1, JobKinds
     DEF SweepBegins, AdjustmentInd, ResectionReports, IntersectionReports, Success, None
<1> QED
  BY <1>2, <1>3, <1>4 DEF AdjustmentInd

(* A point is corrected: the last of a sweep ends the call when none was   *)
(* moved by much, and then it has just reported success itself.            *)
LEMMA PointInd ==
  ASSUME AdjustmentInd, NEW c \in Nat, PointCorrected(c)
  PROVE  AdjustmentInd'
<1>1. AdjustmentTypes
  BY DEF AdjustmentInd
<1>2. /\ phase = "running" /\ job.fn = "space_intersection_ols" /\ row # None
      /\ row \in 0..(job.points - 1) /\ job.points \in Nat
  BY <1>1, JobKinds DEF PointCorrected, AdjustmentInd, IntersectionReports
<1>3. UNCHANGED <<job, args, used, left, rounds>>
  BY DEF PointCorrected
<1>4. ResectionReports'
  BY <1>2, <1>3 DEF ResectionReports
<1>5. CASE job.images > job.points
  <2>1. phase' = "undefined" /\ UNCHANGED <<row, converged, estimate, result>>
    BY <1>5 DEF PointCorrected
  <2>2. AdjustmentTypes'
    BY <1>1, <1>3, <2>1 DEF AdjustmentTypes, Phases
  <2>3. Counted' /\ IntersectionReports'
    BY <1>3, <2>1 DEF AdjustmentInd, Counted, Finite, IntersectionReports, Success
  <2> QED
    BY <1>4, <2>2, <2>3 DEF AdjustmentInd
<1>6. CASE ~(job.images > job.points)
  <2>1. estimate' = [estimate EXCEPT ![row] = @ + c]
    BY <1>6 DEF PointCorrected
  <2>2. estimate' \in [0..(job.points - 1) -> Nat]
    BY <1>1, <1>2, <2>1 DEF AdjustmentTypes
  <2>3. \/ c < used.threshold /\ Success' /\ converged' = converged
           /\ result' = [result EXCEPT !.info = "Iterative_Solve_Success"]
        \/ converged' = FALSE /\ result' = result
    BY <1>1, <1>6 DEF PointCorrected, AdjustmentTypes, Success
  <2>4. row' = IF row + 1 = job.points THEN None ELSE row + 1
    BY <1>6 DEF PointCorrected
  <2>5. phase' = IF row + 1 = job.points /\ converged' THEN "returned" ELSE phase
    BY <1>6 DEF PointCorrected
  <2>6. result' \in [info : {"indeterminate", "Unknown_Status", "Iterative_Solve_Success"}, rot : Int]
    BY <1>1, <2>3 DEF AdjustmentTypes
  <2>7. converged' \in BOOLEAN /\ (converged' => Success')
    BY <1>1, <2>3 DEF AdjustmentTypes
  <2>8. row' \in Int /\ (row' = None \/ row' \in 0..(job.points - 1))
    BY <1>2, <2>4 DEF None
  <2>9. AdjustmentTypes'
    BY <1>1, <1>2, <1>3, <2>2, <2>5, <2>6, <2>7, <2>8 DEF AdjustmentTypes, Phases
  <2>10. Counted'
    BY <1>1, <1>2, <1>3, <2>5, <2>7 DEF AdjustmentInd, AdjustmentTypes, Counted, Finite
  <2>11. IntersectionReports'
    BY <1>2, <1>3, <2>4, <2>5, <2>7, <2>8 DEF IntersectionReports, None
  <2> QED
    BY <1>4, <2>9, <2>10, <2>11 DEF AdjustmentInd
<1> QED
  BY <1>5, <1>6

LEMMA GivesUpInd ==
  ASSUME AdjustmentInd, GivesUp
  PROVE  AdjustmentInd'
<1>1. AdjustmentTypes
  BY DEF AdjustmentInd
<1>2. AdjustmentTypes'
  BY <1>1 DEF GivesUp, AdjustmentTypes, Phases
<1>3. Counted'
  BY <1>1 DEF GivesUp, AdjustmentInd, AdjustmentTypes, Counted, Finite, Success
<1>4. ResectionReports' /\ IntersectionReports'
  BY DEF GivesUp, AdjustmentInd, ResectionReports, IntersectionReports, Success
<1> QED
  BY <1>2, <1>3, <1>4 DEF AdjustmentInd

LEMMA StepInd == AdjustmentInd /\ [AdjustmentNext]_avars => AdjustmentInd'
<1> SUFFICES ASSUME AdjustmentInd, [AdjustmentNext]_avars PROVE AdjustmentInd'
  OBVIOUS
<1>1. CASE \E tag \in Tags : \E value \in Values(tag), named \in BOOLEAN : Give(tag, value, named)
  BY <1>1, GiveInd
<1>2. CASE \E later \in BOOLEAN : Called(later)
  BY <1>2, CalledInd
<1>3. CASE \E c \in 0..MaxCorrection : ResectionIterates(c) \/ PointCorrected(c)
  BY <1>3, ResectionInd, PointInd, AdjustmentAssumption
<1>4. CASE SweepBegins
  BY <1>4, SweepInd
<1>5. CASE GivesUp
  BY <1>5, GivesUpInd
<1>6. CASE UNCHANGED avars
  BY <1>6 DEF avars, AdjustmentInd, AdjustmentTypes, Has, Counted, ResectionReports,
              IntersectionReports, Success
<1> QED
  BY <1>1, <1>2, <1>3, <1>4, <1>5, <1>6 DEF AdjustmentNext

LEMMA IndFits == AdjustmentInd => ReportFits
  BY JobKinds
     DEF AdjustmentInd, Counted, ResectionReports, IntersectionReports, ReportFits, Success

(* An adjustment that returns reports success exactly when a sweep or an   *)
(* iteration converged, with the rotation of the orientation it returns,   *)
(* and has never begun more iterations than it was allowed                 *)
(* (space_resection.cpp:20-79, space_intersection.cpp:58-116).             *)
THEOREM ReportTheorem == AdjustmentSpec => []ReportFits
<1> QED
  BY InitInd, StepInd, IndFits, PTL DEF AdjustmentSpec

-----------------------------------------------------------------------------
(* The convex hull *)

Point == [x : Int, y : Int]

(* Twice the signed area two directed segments span. *)
Tilt(a, b, c, e) == (b.x - a.x) * (e.y - c.y) - (b.y - a.y) * (e.x - c.x)

(* b comes after a, for the loop forwards and the loop backwards.          *)
Ahead(forward, a, b) == IF forward THEN Less(a, b) ELSE Less(b, a)

Forwards(x, y) == x > 0 \/ (x = 0 /\ y > 0)

(* Of directions that all point forwards, the slopes are in order.         *)
LEMMA SlopesOrdered ==
  ASSUME NEW ux \in Int, NEW uy \in Int, NEW vx \in Int, NEW vy \in Int,
         NEW wx \in Int, NEW wy \in Int,
         Forwards(ux, uy), Forwards(vx, vy), Forwards(wx, wy),
         ux * vy - uy * vx >= 0, vx * wy - vy * wx >= 0
  PROVE  /\ ux * wy - uy * wx >= 0
         /\ (ux * vy - uy * vx > 0 \/ vx * wy - vy * wx > 0) => ux * wy - uy * wx > 0
<1>1. /\ ux >= 0 /\ vx >= 0 /\ wx >= 0
      /\ ux = 0 => uy > 0
      /\ vx = 0 => vy > 0
      /\ wx = 0 => wy > 0
  BY DEF Forwards
<1> DEFINE uv == ux * vy - uy * vx
           vw == vx * wy - vy * wx
           uw == ux * wy - uy * wx
<1>2. uv \in Int /\ vw \in Int /\ uw \in Int /\ uv >= 0 /\ vw >= 0
  OBVIOUS
<1>3. vx * uw = ux * vw + wx * uv
  BY SMT
<1>4. CASE vx = 0
  <2>1. vy > 0 /\ uv = ux * vy /\ vw = -(vy * wx)
    BY <1>1, <1>4
  <2>2. wx = 0
    BY <1>1, <1>2, <2>1
  <2>3. wy > 0 /\ uw = ux * wy /\ vw = 0
    BY <1>1, <2>1, <2>2
  <2>4. uv > 0 => ux > 0
    BY <1>1, <2>1
  <2>5. uw >= 0 /\ (ux > 0 => uw > 0)
    BY <1>1, <2>3
  <2> QED
    BY <2>3, <2>4, <2>5
<1>5. CASE vx > 0
  <2>1. ux * vw >= 0 /\ wx * uv >= 0
    BY <1>1, <1>2
  <2>2. uv > 0 /\ wx > 0 => wx * uv > 0
    BY <1>1, <1>2
  <2>3. vw > 0 /\ ux > 0 => ux * vw > 0
    BY <1>1, <1>2
  <2>4. wx = 0 => vw > 0
    <3>1. wx = 0 => vw = vx * wy /\ wy > 0
      BY <1>1
    <3> QED BY <1>5, <3>1
  <2>5. ux = 0 => uv < 0
    <3>1. ux = 0 => uv = -(uy * vx) /\ uy > 0
      BY <1>1
    <3> QED BY <1>5, <3>1
  <2>6. vx * uw >= 0 /\ (uv > 0 \/ vw > 0 => vx * uw > 0)
    <3> HIDE DEF uv, vw, uw
    <3>1. ux > 0
      BY <1>1, <1>2, <2>5
    <3>2. ux * vw \in Int /\ wx * uv \in Int
      BY <1>2
    <3>3. uv > 0 \/ vw > 0 => ux * vw > 0 \/ wx * uv > 0
      BY <1>1, <1>2, <2>2, <2>3, <2>4, <3>1
    <3> QED
      BY <1>3, <2>1, <3>2, <3>3
  <2> HIDE DEF uv, vw, uw
  <2>7. uw < 0 => vx * uw < 0
    BY <1>2, <1>5
  <2>8. uw = 0 => vx * uw = 0
    BY <1>2, <1>5
  <2>9. vx * uw \in Int
    BY <1>2
  <2>10. uw >= 0 /\ (uv > 0 \/ vw > 0 => uw > 0)
    BY <1>2, <2>6, <2>7, <2>8, <2>9
  <2> QED
    BY <2>10 DEF uv, vw, uw
<1> QED
  BY <1>1, <1>4, <1>5

LEMMA TiltFacts ==
  ASSUME NEW a \in Point, NEW b \in Point, NEW c \in Point, NEW e \in Point
  PROVE  /\ Tilt(a, b, c, e) \in Int
         /\ Tilt(c, e, a, b) = -Tilt(a, b, c, e)
         /\ Tilt(b, a, c, e) = -Tilt(a, b, c, e)
         /\ Tilt(a, b, e, c) = -Tilt(a, b, c, e)
         /\ Tilt(e, c, a, b) = Tilt(a, b, c, e)
         /\ Tilt(a, b, c, c) = 0
         /\ Tilt(a, b, a, b) = 0
         /\ Cross(a, b, c) = Tilt(a, b, a, c)
         /\ Cross(a, b, c) = Tilt(a, b, b, c)
<1>1. /\ a.x \in Int /\ b.x \in Int /\ c.x \in Int /\ e.x \in Int
      /\ a.y \in Int /\ b.y \in Int /\ c.y \in Int /\ e.y \in Int
  BY DEF Point
<1>2. Tilt(e, c, a, b) = Tilt(a, b, c, e)
  BY <1>1, SMT DEF Tilt
<1>3. /\ Tilt(a, b, c, e) \in Int
      /\ Tilt(c, e, a, b) = -Tilt(a, b, c, e)
      /\ Tilt(b, a, c, e) = -Tilt(a, b, c, e)
      /\ Tilt(a, b, e, c) = -Tilt(a, b, c, e)
      /\ Tilt(a, b, c, c) = 0
      /\ Tilt(a, b, a, b) = 0
      /\ Cross(a, b, c) = Tilt(a, b, a, c)
      /\ Cross(a, b, c) = Tilt(a, b, b, c)
  BY <1>1, SMT DEF Tilt, Cross
<1> QED
  BY <1>2, <1>3

LEMMA CrossFacts ==
  ASSUME NEW a \in Point, NEW b \in Point, NEW c \in Point
  PROVE  /\ Cross(a, b, c) \in Int
         /\ Cross(b, c, a) = Cross(a, b, c)
         /\ Cross(b, a, c) = -Cross(a, b, c)
         /\ Cross(a, b, a) = 0 /\ Cross(a, b, b) = 0
<1>1. /\ a.x \in Int /\ b.x \in Int /\ c.x \in Int
      /\ a.y \in Int /\ b.y \in Int /\ c.y \in Int
  BY DEF Point
<1>2. Cross(a, b, c) \in Int /\ Cross(b, c, a) = Cross(a, b, c)
  BY <1>1, SMT DEF Cross
<1>3. Cross(b, a, c) = -Cross(a, b, c)
  BY <1>1, SMT DEF Cross
<1>4. Cross(a, b, a) = 0
  BY <1>1, SMT DEF Cross
<1>5. Cross(a, b, b) = 0
  BY <1>1, SMT DEF Cross
<1> QED
  BY <1>2, <1>3, <1>4, <1>5

LEMMA TiltsAdd ==
  ASSUME NEW a \in Point, NEW b \in Point, NEW c \in Point, NEW e \in Point, NEW f \in Point
  PROVE  Tilt(a, b, c, f) = Tilt(a, b, c, e) + Tilt(a, b, e, f)
<1>1. /\ a.x \in Int /\ b.x \in Int /\ c.x \in Int /\ e.x \in Int /\ f.x \in Int
      /\ a.y \in Int /\ b.y \in Int /\ c.y \in Int /\ e.y \in Int /\ f.y \in Int
  BY DEF Point
<1> QED
  BY <1>1, SMT DEF Tilt

LEMMA TiltsOrdered ==
  ASSUME NEW forward \in BOOLEAN,
         NEW a \in Point, NEW b \in Point, NEW c \in Point, NEW e \in Point,
         NEW f \in Point, NEW g \in Point,
         Ahead(forward, a, b), Ahead(forward, c, e), Ahead(forward, f, g),
         Tilt(a, b, c, e) >= 0, Tilt(c, e, f, g) >= 0
  PROVE  /\ Tilt(a, b, f, g) >= 0
         /\ (Tilt(a, b, c, e) > 0 \/ Tilt(c, e, f, g) > 0) => Tilt(a, b, f, g) > 0
<1>1. /\ a.x \in Int /\ b.x \in Int /\ c.x \in Int /\ e.x \in Int /\ f.x \in Int /\ g.x \in Int
      /\ a.y \in Int /\ b.y \in Int /\ c.y \in Int /\ e.y \in Int /\ f.y \in Int /\ g.y \in Int
  BY DEF Point
<1>2. CASE forward
  <2> DEFINE ux == b.x - a.x  uy == b.y - a.y
             vx == e.x - c.x  vy == e.y - c.y
             wx == g.x - f.x  wy == g.y - f.y
  <2>1. /\ ux \in Int /\ uy \in Int /\ vx \in Int /\ vy \in Int /\ wx \in Int /\ wy \in Int
        /\ Forwards(ux, uy) /\ Forwards(vx, vy) /\ Forwards(wx, wy)
    BY <1>1, <1>2 DEF Ahead, Less, Forwards
  <2>2. /\ Tilt(a, b, c, e) = ux * vy - uy * vx
        /\ Tilt(c, e, f, g) = vx * wy - vy * wx
        /\ Tilt(a, b, f, g) = ux * wy - uy * wx
    BY DEF Tilt
  <2> HIDE DEF ux, uy, vx, vy, wx, wy
  <2> QED
    BY <2>1, <2>2, SlopesOrdered
<1>3. CASE ~forward
  <2> DEFINE ux == a.x - b.x  uy == a.y - b.y
             vx == c.x - e.x  vy == c.y - e.y
             wx == f.x - g.x  wy == f.y - g.y
  <2>1. /\ ux \in Int /\ uy \in Int /\ vx \in Int /\ vy \in Int /\ wx \in Int /\ wy \in Int
        /\ Forwards(ux, uy) /\ Forwards(vx, vy) /\ Forwards(wx, wy)
    BY <1>1, <1>3 DEF Ahead, Less, Forwards
  <2>2. /\ Tilt(a, b, c, e) = ux * vy - uy * vx
        /\ Tilt(c, e, f, g) = vx * wy - vy * wx
        /\ Tilt(a, b, f, g) = ux * wy - uy * wx
    BY <1>1, SMT DEF Tilt
  <2> HIDE DEF ux, uy, vx, vy, wx, wy
  <2> QED
    BY <2>1, <2>2, SlopesOrdered
<1> QED
  BY <1>2, <1>3

LEMMA AheadFacts ==
  ASSUME NEW forward \in BOOLEAN, NEW a \in Point, NEW b \in Point, NEW c \in Point
  PROVE  /\ ~Ahead(forward, a, a)
         /\ Ahead(forward, a, b) /\ Ahead(forward, b, c) => Ahead(forward, a, c)
         /\ Ahead(forward, a, b) => ~Ahead(forward, b, a) /\ a # b
         /\ a = b \/ Ahead(forward, a, b) \/ Ahead(forward, b, a)
         /\ Ahead(~forward, a, b) = Ahead(forward, b, a)
<1>1. /\ a.x \in Int /\ b.x \in Int /\ c.x \in Int
      /\ a.y \in Int /\ b.y \in Int /\ c.y \in Int
  BY DEF Point
<1>2. a.x = b.x /\ a.y = b.y => a = b
  BY DEF Point
<1> QED
  BY <1>1, <1>2 DEF Ahead, Less

(* Two left turns one after the other are left turns across, too.          *)
LEMMA TurnsGoOn ==
  ASSUME NEW fw \in BOOLEAN,
         NEW a \in Point, NEW b \in Point, NEW c \in Point, NEW q \in Point,
         Ahead(fw, a, b), Ahead(fw, b, c), Ahead(fw, c, q),
         Cross(a, b, c) > 0, Cross(b, c, q) > 0
  PROVE  Cross(a, b, q) > 0 /\ Cross(a, c, q) > 0
<1>1. Tilt(a, b, b, c) > 0 /\ Tilt(b, c, c, q) > 0
  BY TiltFacts
<1>2. Tilt(a, b, c, q) > 0
  <2>1. Tilt(a, b, b, c) >= 0 /\ Tilt(b, c, c, q) >= 0
    BY <1>1, TiltFacts
  <2> QED
    BY <1>1, <2>1, TiltsOrdered
<1>3. Tilt(a, b, b, q) = Tilt(a, b, b, c) + Tilt(a, b, c, q)
  BY TiltsAdd
<1>4. Tilt(c, q, a, c) = Tilt(c, q, a, b) + Tilt(c, q, b, c)
  BY TiltsAdd
<1>5. /\ Tilt(c, q, a, c) = -Tilt(a, c, c, q)
      /\ Tilt(c, q, a, b) = -Tilt(a, b, c, q)
      /\ Tilt(c, q, b, c) = -Tilt(b, c, c, q)
      /\ Tilt(a, c, c, q) \in Int /\ Tilt(a, b, c, q) \in Int /\ Tilt(b, c, c, q) \in Int
      /\ Tilt(a, b, b, c) \in Int
      /\ Cross(a, b, q) = Tilt(a, b, b, q) /\ Cross(a, c, q) = Tilt(a, c, c, q)
  BY TiltFacts
<1> QED
  BY <1>1, <1>2, <1>3, <1>4, <1>5

(* A left turn from p over v to q has the points before v on its left that *)
(* the edge from p to v has.                                               *)
LEMMA LeftOfNewEdge ==
  ASSUME NEW fw \in BOOLEAN,
         NEW p \in Point, NEW v \in Point, NEW q \in Point, NEW r \in Point,
         Ahead(fw, p, v), Ahead(fw, v, q), r = v \/ Ahead(fw, r, v),
         Cross(p, v, q) > 0, Cross(p, v, r) >= 0
  PROVE  Cross(v, q, r) >= 0
<1>1. /\ Cross(p, v, q) = Tilt(p, v, v, q) /\ Cross(p, v, r) = Tilt(p, v, v, r)
      /\ Cross(v, q, r) = Tilt(v, q, v, r)
      /\ Tilt(p, v, r, v) = -Tilt(p, v, v, r)
      /\ Tilt(r, v, p, v) = -Tilt(p, v, r, v)
      /\ Tilt(v, q, v, r) = -Tilt(v, q, r, v) /\ Tilt(v, q, r, v) = -Tilt(r, v, v, q)
      /\ Tilt(v, q, v, v) = 0
      /\ Tilt(p, v, v, q) \in Int /\ Tilt(p, v, v, r) \in Int /\ Tilt(v, q, v, r) \in Int
      /\ Tilt(r, v, p, v) \in Int /\ Tilt(r, v, v, q) \in Int /\ Tilt(p, v, r, v) \in Int
      /\ Tilt(v, q, r, v) \in Int
  BY TiltFacts
<1>2. CASE r = v
  BY <1>1, <1>2
<1>3. CASE Ahead(fw, r, v)
  <2>1. Tilt(r, v, p, v) >= 0 /\ Tilt(p, v, v, q) >= 0
    BY <1>1
  <2>2. Tilt(r, v, v, q) >= 0
    BY <1>3, <2>1, TiltsOrdered
  <2> QED
    BY <1>1, <2>2
<1> QED
  BY <1>2, <1>3

(* Where v, w, q do not turn left, the edge from v to q has the points     *)
(* after v on its left that the edge from v to w has.                      *)
LEMMA LeftOfCut ==
  ASSUME NEW fw \in BOOLEAN,
         NEW v \in Point, NEW w \in Point, NEW q \in Point, NEW r \in Point,
         Ahead(fw, v, w), Ahead(fw, v, q), Ahead(fw, v, r),
         ~(Cross(v, w, q) > 0), Cross(v, w, r) >= 0
  PROVE  Cross(v, q, r) >= 0
<1>1. /\ Cross(v, w, q) = Tilt(v, w, v, q) /\ Cross(v, w, r) = Tilt(v, w, v, r)
      /\ Cross(v, q, r) = Tilt(v, q, v, r)
      /\ Tilt(v, q, v, w) = -Tilt(v, w, v, q)
      /\ Tilt(v, q, v, w) \in Int /\ Tilt(v, w, v, r) \in Int /\ Tilt(v, q, v, r) \in Int
      /\ Tilt(v, w, v, q) \in Int
  BY TiltFacts
<1>2. Tilt(v, q, v, w) >= 0 /\ Tilt(v, w, v, r) >= 0
  BY <1>1
<1> QED
  BY <1>1, <1>2, TiltsOrdered

LEMMA MaxIsMax ==
  ASSUME NEW N \in Nat, NEW S \in SUBSET (0..N), S # {}
  PROVE  Max(S) \in S /\ \A y \in S : Max(S) >= y
<1> DEFINE T == {N - y : y \in S}
<1>0. \A y \in S : y \in 0..N /\ N - y \in Nat
  <2>1. \A y \in S : y \in 0..N
    OBVIOUS
  <2>2. \A y \in 0..N : N - y \in Nat
    OBVIOUS
  <2> QED BY <2>1, <2>2
<1>1. T \in SUBSET Nat /\ T # {}
  BY <1>0
<1>2. Least(T) \in T /\ \A y \in T : Least(T) <= y
  <2> HIDE DEF T
  <2> QED BY <1>1, LeastIsLeast
<1>3. PICK m \in S : Least(T) = N - m
  BY <1>2
<1>4. ASSUME NEW y \in S PROVE m >= y
  <2>1. N - y \in T /\ N - m \in Int
    BY <1>0
  <2>2. N - m <= N - y
    BY <1>2, <1>3, <2>1
  <2>3. m \in Int /\ y \in Int
    BY <1>0
  <2> QED BY <2>2, <2>3
<1> QED
  BY <1>4, Zenon DEF Max

-----------------------------------------------------------------------------
(* The points of a loop, in its order. *)
Ascending(fw, P) ==
  /\ P \in Seq(Point)
  /\ \A i, j \in 1..Len(P) : i < j => Ahead(fw, P[i], P[j])

(* What a chain is after k points: it begins with the first point and ends *)
(* with the last, always turns left, and no point is right of an edge.     *)
ConvexTo(fw, P, k, V) ==
  /\ V \in Seq(Point) /\ Len(V) >= 1
  /\ V[1] = P[1] /\ V[Len(V)] = P[k]
  /\ \A i \in 1..Len(V) : \E r \in 1..k : V[i] = P[r]
  /\ \A i, j \in 1..Len(V) : i < j => Ahead(fw, V[i], V[j])
  /\ \A i, j, h \in 1..Len(V) : i < j /\ j < h => Cross(V[i], V[j], V[h]) > 0
  /\ \A i \in 1..(Len(V) - 1), r \in 1..k : Cross(V[i], V[i + 1], P[r]) >= 0

LEMMA ConvexGrows ==
  ASSUME NEW fw \in BOOLEAN, NEW P, Ascending(fw, P), NEW k \in 2..Len(P),
         NEW V, ConvexTo(fw, P, k - 1, V), NEW l \in 1..Len(V),
         l < 2 \/ Cross(V[l - 1], V[l], P[k]) > 0,
         l < Len(V) => ~(Cross(V[l], V[l + 1], P[k]) > 0),
         NEW W \in Seq(Point), Len(W) = l + 1,
         \A i \in 1..l : W[i] = V[i], W[l + 1] = P[k]
  PROVE  ConvexTo(fw, P, k, W)
<1> DEFINE q == P[k]
           t == Len(V)
<1>1. /\ P \in Seq(Point) /\ V \in Seq(Point)
      /\ \A i \in 1..Len(P) : P[i] \in Point
      /\ \A i \in 1..t : V[i] \in Point
      /\ t \in Nat /\ t >= 1 /\ l \in Nat /\ l <= t /\ q \in Point /\ k - 1 \in Nat
      /\ V[1] = P[1] /\ V[t] = P[k - 1]
      /\ k \in 1..Len(P) /\ 1..(k - 1) \subseteq 1..Len(P)
  BY DEF Ascending, ConvexTo
<1>2. /\ \A i \in 1..t : \E r \in 1..(k - 1) : V[i] = P[r]
      /\ \A i, j \in 1..t : i < j => Ahead(fw, V[i], V[j])
      /\ \A i, j, h \in 1..t : i < j /\ j < h => Cross(V[i], V[j], V[h]) > 0
      /\ \A i \in 1..(t - 1), r \in 1..(k - 1) : Cross(V[i], V[i + 1], P[r]) >= 0
  BY DEF ConvexTo
<1>3. \A r \in 1..(k - 1) : Ahead(fw, P[r], q)
  <2>1. \A i, j \in 1..Len(P) : i < j => Ahead(fw, P[i], P[j])
    BY DEF Ascending
  <2>2. \A r \in 1..(k - 1) : r \in 1..Len(P) /\ r < k
    OBVIOUS
  <2> HIDE DEF q
  <2> QED BY <1>1, <2>1, <2>2 DEF q
<1>4. \A i \in 1..t : Ahead(fw, V[i], q)
  <2> HIDE DEF q, t
  <2> QED BY <1>2, <1>3
<1> HIDE DEF q, t
<1>5. l >= 2 => Cross(V[l - 1], V[l], q) > 0
  BY <1>1 DEF q
<1>6. l < t => ~(Cross(V[l], V[l + 1], q) > 0)
  BY <1>1 DEF t, q
(* Every turn towards the new point is a left turn. *)
<1>7. ASSUME NEW i \in 1..l, i < l PROVE Cross(V[i], V[l], q) > 0
  <2>1. CASE i = l - 1
    BY <1>1, <1>5, <1>7, <2>1
  <2>2. CASE i < l - 1
    <3>1. /\ i \in 1..t /\ l - 1 \in 1..t /\ l \in 1..t /\ l - 1 < l /\ l >= 2
      BY <1>1, <2>2
    <3>2. /\ Ahead(fw, V[i], V[l - 1]) /\ Ahead(fw, V[l - 1], V[l]) /\ Ahead(fw, V[l], q)
          /\ Cross(V[i], V[l - 1], V[l]) > 0 /\ Cross(V[l - 1], V[l], q) > 0
      BY <1>2, <1>4, <1>5, <2>2, <3>1
    <3>3. V[i] \in Point /\ V[l - 1] \in Point /\ V[l] \in Point
      BY <1>1, <3>1
    <3> QED
      BY <1>1, <3>2, <3>3, TurnsGoOn
  <2> QED
    BY <1>1, <1>7, <2>1, <2>2
<1>8. ASSUME NEW i \in 1..l, NEW j \in 1..l, i < j PROVE Cross(V[i], V[j], q) > 0
  <2>1. CASE j = l
    BY <1>7, <1>8, <2>1
  <2>2. CASE j < l
    <3>1. i \in 1..t /\ j \in 1..t /\ l \in 1..t
      BY <1>1
    <3>2. /\ Ahead(fw, V[i], V[j]) /\ Ahead(fw, V[j], V[l]) /\ Ahead(fw, V[l], q)
          /\ Cross(V[i], V[j], V[l]) > 0
      BY <1>2, <1>4, <1>8, <2>2, <3>1
    <3>3. Cross(V[j], V[l], q) > 0
      BY <1>7, <2>2
    <3>4. V[i] \in Point /\ V[j] \in Point /\ V[l] \in Point
      BY <1>1, <3>1
    <3> QED
      BY <1>1, <3>2, <3>3, <3>4, TurnsGoOn
  <2> QED
    BY <1>1, <2>1, <2>2
(* No point is right of the new edge. *)
<1>9. ASSUME NEW r \in 1..(k - 1) PROVE Cross(V[l], q, P[r]) >= 0
  <2>1. /\ l \in 1..t /\ V[l] \in Point /\ P[r] \in Point
        /\ Ahead(fw, V[l], q) /\ Ahead(fw, P[r], q)
    BY <1>1, <1>3, <1>4, SMTT(30)
  <2>2. CASE P[r] = V[l] \/ Ahead(fw, P[r], V[l])
    <3>1. CASE l = 1
      <4>1. r = 1 \/ Ahead(fw, P[1], P[r])
        <5>1. 1 \in 1..Len(P) /\ r \in 1..Len(P) /\ (r = 1 \/ 1 < r)
          BY <1>1
        <5> QED BY <5>1 DEF Ascending
      <4>2. P[r] = V[l]
        BY <1>1, <2>1, <2>2, <3>1, <4>1, AheadFacts
      <4> QED
        BY <1>1, <2>1, <4>2, CrossFacts
    <3>2. CASE l >= 2
      <4>1. l - 1 \in 1..t /\ l - 1 \in 1..(t - 1) /\ l - 1 + 1 = l /\ l - 1 < l
        BY <1>1, <3>2
      <4>2. /\ V[l - 1] \in Point /\ Ahead(fw, V[l - 1], V[l])
            /\ Cross(V[l - 1], V[l], P[r]) >= 0
        BY <1>1, <1>2, <2>1, <4>1
      <4> QED
        BY <1>1, <1>5, <2>1, <2>2, <3>2, <4>2, LeftOfNewEdge
    <3> QED
      BY <1>1, <3>1, <3>2
  <2>3. CASE Ahead(fw, V[l], P[r])
    <3>1. l < t
      <4> SUFFICES ASSUME l = t PROVE FALSE
        BY <1>1
      <4>1. r = k - 1 \/ Ahead(fw, P[r], P[k - 1])
        <5>1. k - 1 \in 1..Len(P) /\ r \in 1..Len(P) /\ (r = k - 1 \/ r < k - 1)
          BY <1>1
        <5> QED BY <5>1 DEF Ascending
      <4> QED
        BY <1>1, <2>1, <2>3, <4>1, AheadFacts
    <3>2. l \in 1..(t - 1) /\ l + 1 \in 1..t /\ l < l + 1
      BY <1>1, <3>1
    <3>3. /\ V[l + 1] \in Point /\ Ahead(fw, V[l], V[l + 1])
          /\ Cross(V[l], V[l + 1], P[r]) >= 0
      BY <1>1, <1>2, <2>1, <3>2
    <3> QED
      BY <1>1, <1>6, <2>1, <2>3, <3>1, <3>3, LeftOfCut
  <2> QED
    BY <2>1, <2>2, <2>3, AheadFacts
<1>10. \A i \in 1..Len(W) : i \in 1..l \/ i = l + 1
  BY <1>1
<1>11. \A i \in 1..l : i \in 1..t /\ W[i] = V[i]
  BY <1>1
<1>12. W[l + 1] = q /\ Len(W) = l + 1
  BY DEF q
<1>13. W[1] = P[1] /\ Len(W) >= 1 /\ W[Len(W)] = P[k]
  <2>1. 1 \in 1..l
    BY <1>1
  <2> QED BY <1>1, <1>11, <1>12, <2>1 DEF q
<1>14. \A i \in 1..Len(W) : \E r \in 1..k : W[i] = P[r]
  <2>1. k \in 1..k /\ \A r \in 1..(k - 1) : r \in 1..k
    BY <1>1, SMTT(30)
  <2> QED BY <1>2, <1>10, <1>11, <1>12, <2>1 DEF q
<1>15. ASSUME NEW i \in 1..Len(W), NEW j \in 1..Len(W), i < j
       PROVE  Ahead(fw, W[i], W[j])
  <2>1. i \in 1..l
    BY <1>1, <1>10, <1>12, <1>15
  <2>2. CASE j = l + 1
    BY <1>4, <1>11, <1>12, <2>1, <2>2
  <2>3. CASE j \in 1..l
    BY <1>2, <1>11, <1>15, <2>1, <2>3
  <2> QED BY <1>10, <2>2, <2>3
<1>16. ASSUME NEW i \in 1..Len(W), NEW j \in 1..Len(W), NEW h \in 1..Len(W), i < j, j < h
       PROVE  Cross(W[i], W[j], W[h]) > 0
  <2>1. i \in 1..l /\ j \in 1..l
    BY <1>1, <1>12, <1>16
  <2>2. CASE h = l + 1
    BY <1>8, <1>11, <1>12, <1>16, <2>1, <2>2
  <2>3. CASE h \in 1..l
    BY <1>2, <1>11, <1>16, <2>1, <2>3
  <2> QED BY <1>10, <2>2, <2>3
<1>17. ASSUME NEW i \in 1..(Len(W) - 1), NEW r \in 1..k
       PROVE  Cross(W[i], W[i + 1], P[r]) >= 0
  <2>1. i \in 1..l /\ i \in 1..t /\ l \in 1..l
    BY <1>1, <1>12
  <2>2. CASE i < l
    <3>1. i + 1 \in 1..l /\ i \in 1..(t - 1) /\ i < i + 1
      BY <1>1, <2>2
    <3>2. W[i] = V[i] /\ W[i + 1] = V[i + 1]
      BY <1>11, <2>1, <3>1
    <3>3. CASE r = k
      <4>1. Cross(V[i], V[i + 1], q) > 0
        BY <1>8, <2>1, <3>1
      <4>2. Cross(V[i], V[i + 1], q) \in Int
        <5>1. V[i] \in Point /\ V[i + 1] \in Point
          BY <1>1, <1>11, <2>1, <3>1
        <5> QED BY <1>1, <5>1, CrossFacts
      <4> QED
        BY <3>2, <3>3, <4>1, <4>2 DEF q
    <3>4. CASE r # k
      <4>1. r \in 1..(k - 1)
        BY <1>1, <3>4
      <4> QED BY <1>2, <3>1, <3>2, <4>1
    <3> QED BY <3>3, <3>4
  <2>3. CASE i = l
    <3>1. W[i] = V[l] /\ W[i + 1] = q
      BY <1>11, <1>12, <2>1, <2>3
    <3>2. CASE r = k
      <4>1. V[l] \in Point
        BY <1>1, <2>1, <2>3
      <4>2. Cross(V[l], q, q) = 0
        BY <1>1, <4>1, CrossFacts
      <4> QED BY <3>1, <3>2, <4>2 DEF q
    <3>3. CASE r # k
      <4>1. r \in 1..(k - 1)
        BY <1>1, <3>3
      <4> QED BY <1>9, <3>1, <4>1
    <3> QED BY <3>2, <3>3
  <2> QED BY <1>1, <2>1, <2>2, <2>3
<1> QED
  BY <1>13, <1>14, <1>15, <1>16, <1>17 DEF ConvexTo

PointsOf(pm, s) == [i \in 1..Len(s) |-> pm[s[i]]]

LEMMA PointsOfAre ==
  ASSUME NEW I, NEW pm \in [I -> Point], NEW s \in Seq(I)
  PROVE  /\ PointsOf(pm, s) \in Seq(Point)
         /\ Len(PointsOf(pm, s)) = Len(s) /\ Len(s) \in Nat
         /\ \A i \in 1..Len(s) : PointsOf(pm, s)[i] = pm[s[i]] /\ s[i] \in I
BY DEF PointsOf

(* w is the chain s, cut after l points, and e. *)
CutAt(pm, s, e, l, w) ==
  /\ l >= 1 \/ Len(s) = 0
  /\ StaysAt(pm, s, l, e)
  /\ l < Len(s) => ~StaysAt(pm, s, l + 1, e)
  /\ Len(w) = l + 1
  /\ \A i \in 1..l : w[i] = s[i]
  /\ w[l + 1] = e

(* What one iteration of a loop makes of the chain. *)
LEMMA ExtendedIs ==
  ASSUME NEW I, NEW pm, NEW s \in Seq(I), NEW e \in I
  PROVE  /\ Extended(pm, s, e) \in Seq(I)
         /\ \E l \in 0..Len(s) : CutAt(pm, s, e, l, Extended(pm, s, e))
<1> DEFINE S == {n \in 0..Len(s) : /\ n >= 1 \/ Len(s) = 0
                                   /\ StaysAt(pm, s, n, e)}
           l == Max(S)
<1>1. Len(s) \in Nat /\ \A i \in 1..Len(s) : s[i] \in I
  OBVIOUS
<1>2. S # {}
  <2>1. StaysAt(pm, s, 0, e) /\ StaysAt(pm, s, 1, e)
    BY DEF StaysAt
  <2>2. Len(s) = 0 => 0 \in S
    BY <1>1, <2>1
  <2>3. Len(s) # 0 => 1 \in S
    BY <1>1, <2>1
  <2> QED BY <2>2, <2>3
<1>3. S \in SUBSET (0..Len(s))
  OBVIOUS
<1>4. l \in S /\ \A y \in S : l >= y
  <2> HIDE DEF S
  <2> QED BY <1>1, <1>2, <1>3, MaxIsMax
<1>5. Extended(pm, s, e) = Append(SubSeq(s, 1, l), e)
  BY DEF Extended
<1> HIDE DEF l
<1>6. l \in 0..Len(s) /\ (l >= 1 \/ Len(s) = 0) /\ StaysAt(pm, s, l, e)
  BY <1>4
<1>7. l < Len(s) => ~StaysAt(pm, s, l + 1, e)
  <2> SUFFICES ASSUME l < Len(s), StaysAt(pm, s, l + 1, e) PROVE FALSE
    OBVIOUS
  <2>1. l + 1 \in S
    BY <1>1, <1>6
  <2>2. l >= l + 1
    BY <1>4, <2>1
  <2> QED BY <1>6, <2>2
<1> HIDE DEF S
<1>8. /\ SubSeq(s, 1, l) \in Seq(I) /\ Len(SubSeq(s, 1, l)) = l
      /\ \A i \in 1..l : SubSeq(s, 1, l)[i] = s[i]
  <2>1. 1 \in Int /\ l \in Int /\ \A i \in 1..l : s[i] \in I
    BY <1>1, <1>6
  <2>2. /\ SubSeq(s, 1, l) \in Seq(I)
        /\ Len(SubSeq(s, 1, l)) = IF 1 <= l THEN l - 1 + 1 ELSE 0
        /\ \A i \in 1..(l - 1 + 1) : SubSeq(s, 1, l)[i] = s[1 + i - 1]
    BY <2>1, SubSeqProperties
  <2>3. l - 1 + 1 = l /\ \A i \in 1..l : 1 + i - 1 = i
    BY <1>6
  <2>4. Len(SubSeq(s, 1, l)) = l
    BY <1>6, <2>2
  <2> QED BY <2>2, <2>3, <2>4
<1>9. /\ Extended(pm, s, e) \in Seq(I)
      /\ Len(Extended(pm, s, e)) = l + 1
      /\ \A i \in 1..l : Extended(pm, s, e)[i] = s[i]
      /\ Extended(pm, s, e)[l + 1] = e
  <2> DEFINE u == SubSeq(s, 1, l)
  <2>1. u \in Seq(I) /\ Len(u) = l /\ \A i \in 1..l : u[i] = s[i]
    BY <1>8
  <2> HIDE DEF u
  <2>2. /\ Append(u, e) \in Seq(I) /\ Len(Append(u, e)) = l + 1
        /\ \A i \in 1..l : Append(u, e)[i] = u[i]
        /\ Append(u, e)[l + 1] = e
    BY <2>1, AppendProperties
  <2> QED BY <1>5, <2>1, <2>2 DEF u
<1> QED
  BY <1>6, <1>7, <1>9 DEF CutAt

(* The chains of a loop exist. *)
LEMMA ChainsOfLoop ==
  ASSUME NEW I, NEW pm, NEW order \in Seq(I)
  PROVE  \E c : /\ c[0] = <<>>
                /\ \A k \in 1..Len(order) : c[k] = Extended(pm, c[k - 1], order[k])
                /\ Chain(pm, order) = c[Len(order)]
<1> DEFINE n == Len(order)
           Unfold(g, k) == IF k = 0 THEN <<>> ELSE Extended(pm, g[k - 1], order[k])
           Solves(g) == g = [k \in 0..n |-> Unfold(g, k)]
           step == [k \in 1..n |-> [s \in Seq(I) |-> Extended(pm, s, order[k])]]
<1>1. n \in Nat /\ \A k \in 1..n : order[k] \in I
  OBVIOUS
<1>2. step \in [1..n -> [Seq(I) -> Seq(I)]] /\ <<>> \in Seq(I)
  <2>1. \A k \in 1..n : \A s \in Seq(I) : Extended(pm, s, order[k]) \in Seq(I)
    BY <1>1, ExtendedIs
  <2> QED BY <2>1
<1>3. PICK f \in [0..n -> Seq(I)] :
        f[0] = <<>> /\ \A k \in 1..n : f[k] = step[k][f[k - 1]]
  <2> DEFINE T == Seq(I)
             none == <<>>
  <2>1. n \in Nat /\ none \in T /\ step \in [1..n -> [T -> T]]
    BY <1>1, <1>2
  <2> HIDE DEF n, step, T, none
  <2>2. \E f \in [0..n -> T] : Recursion(n, none, step, f)
    BY ONLY <2>1, RecursionExists
  <2> QED BY <2>2 DEF T, none, Recursion
<1>4. Solves(f)
  <2>1. ASSUME NEW k \in 1..n PROVE f[k] = Extended(pm, f[k - 1], order[k])
    <3>1. f[k - 1] \in Seq(I)
      BY <1>1
    <3> QED BY <1>3, <3>1
  <2>2. ASSUME NEW k \in 0..n PROVE f[k] = Unfold(f, k)
    BY <1>3, <2>1
  <2>3. f = [k \in 0..n |-> f[k]]
    BY <1>3
  <2> HIDE DEF n
  <2> QED BY <2>2, <2>3
<1> DEFINE c == CHOOSE g : Solves(g)
<1>5. Chain(pm, order) = c[n]
  BY DEF Chain
<1>6. Solves(c)
  BY <1>4
<1> HIDE DEF c
<1>7. \A k \in 0..n : c[k] = Unfold(c, k)
  BY <1>6
<1>8. c[0] = <<>> /\ \A k \in 1..n : c[k] = Extended(pm, c[k - 1], order[k])
  BY <1>1, <1>7
<1> QED
  BY <1>5, <1>8

(* A loop over points in ascending order ends with a convex chain.         *)
LEMMA ChainConvex ==
  ASSUME NEW fw \in BOOLEAN, NEW I, NEW pm \in [I -> Point], NEW order \in Seq(I),
         Len(order) >= 1, Ascending(fw, PointsOf(pm, order))
  PROVE  /\ Chain(pm, order) \in Seq(I)
         /\ ConvexTo(fw, PointsOf(pm, order), Len(order), PointsOf(pm, Chain(pm, order)))
<1> DEFINE n == Len(order)
           P == PointsOf(pm, order)
<1>1. PICK c : /\ c[0] = <<>>
               /\ \A k \in 1..n : c[k] = Extended(pm, c[k - 1], order[k])
               /\ Chain(pm, order) = c[n]
  BY ChainsOfLoop
<1>2. /\ n \in Nat /\ n >= 1 /\ P \in Seq(Point) /\ Len(P) = n /\ Ascending(fw, P)
      /\ \A k \in 1..n : P[k] = pm[order[k]] /\ order[k] \in I /\ P[k] \in Point
  BY PointsOfAre
<1> HIDE DEF n, P
<1> DEFINE Good(k) == c[k] \in Seq(I) /\ ConvexTo(fw, P, k, PointsOf(pm, c[k]))
           S == {k \in 0..n : k = 0 \/ Good(k)}
<1>3. Good(1)
  <2>1. c[1] = Extended(pm, <<>>, order[1]) /\ order[1] \in I /\ 1 \in 1..n
    BY <1>1, <1>2
  <2>2. <<>> \in Seq(I) /\ Len(<<>>) = 0
    OBVIOUS
  <2>3. c[1] \in Seq(I) /\ Len(c[1]) = 1 /\ c[1][1] = order[1]
    <3> DEFINE s == <<>>
    <3>1. s \in Seq(I) /\ Len(s) = 0
      OBVIOUS
    <3>2. c[1] = Extended(pm, s, order[1])
      BY <2>1
    <3> HIDE DEF s
    <3> DEFINE w == Extended(pm, s, order[1])
    <3>3. /\ w \in Seq(I)
          /\ \E l \in 0..Len(s) : CutAt(pm, s, order[1], l, w)
      BY <2>1, <3>1, ExtendedIs
    <3> HIDE DEF w
    <3>4. \A l \in 0..Len(s) : l = 0
      BY <3>1
    <3>5. w \in Seq(I) /\ Len(w) = 1 /\ w[1] = order[1]
      BY <3>3, <3>4 DEF CutAt
    <3> QED BY <3>2, <3>5 DEF w
  <2> DEFINE V == PointsOf(pm, c[1])
  <2>4. V \in Seq(Point) /\ Len(V) = 1 /\ V[1] = P[1] /\ P[1] \in Point
    BY <1>2, <2>1, <2>3, PointsOfAre
  <2> HIDE DEF V
  <2>5. /\ \A i \in 1..Len(V) : i = 1
        /\ \A i \in 1..Len(V) : \E r \in 1..1 : V[i] = P[r]
        /\ \A i \in 1..(Len(V) - 1) : FALSE
    BY <2>4
  <2>6. /\ \A i, j \in 1..Len(V) : ~(i < j)
    BY <2>5
  <2>7. ConvexTo(fw, P, 1, V)
    BY <2>4, <2>5, <2>6 DEF ConvexTo
  <2> QED BY <2>3, <2>7 DEF V
<1>4. ASSUME NEW k \in 2..n, Good(k - 1) PROVE Good(k)
  <2> DEFINE s == c[k - 1]
             w == c[k]
             V == PointsOf(pm, s)
             W == PointsOf(pm, w)
  <2>1. s \in Seq(I) /\ ConvexTo(fw, P, k - 1, V)
    BY <1>4
  <2>2. k \in 1..n /\ k \in 2..Len(P) /\ order[k] \in I /\ P[k] = pm[order[k]]
    BY <1>2
  <2> DEFINE e == order[k]
  <2>3. w = Extended(pm, s, e) /\ e \in I
    BY <1>1, <2>2
  <2> HIDE DEF s, w, e
  <2>4. /\ V \in Seq(Point) /\ Len(V) = Len(s) /\ Len(s) \in Nat
        /\ \A i \in 1..Len(s) : V[i] = pm[s[i]]
    BY <2>1, PointsOfAre
  <2>5z. PICK l \in 0..Len(s) : CutAt(pm, s, e, l, w)
    BY <2>1, <2>3, ExtendedIs
  <2>5. /\ l >= 1 \/ Len(s) = 0
        /\ StaysAt(pm, s, l, e)
        /\ l < Len(s) => ~StaysAt(pm, s, l + 1, e)
        /\ Len(w) = l + 1
        /\ \A i \in 1..l : w[i] = s[i]
        /\ w[l + 1] = e
    BY <2>5z DEF CutAt
  <2>5a. w \in Seq(I)
    BY <2>1, <2>3, ExtendedIs
  <2>5b. P[k] = pm[e]
    BY <2>2 DEF e
  <2>6. /\ W \in Seq(Point) /\ Len(W) = l + 1
        /\ \A i \in 1..(l + 1) : W[i] = pm[w[i]]
    BY <2>5, <2>5a, PointsOfAre
  <2> HIDE DEF V, W
  <2>7. Len(V) >= 1 /\ l \in 1..Len(V)
    BY <2>1, <2>4, <2>5 DEF ConvexTo
  <2>8. \A i \in 1..l : i \in 1..(l + 1) /\ i \in 1..Len(s)
    BY <2>4, <2>5
  <2>9. (\A i \in 1..l : W[i] = V[i]) /\ W[l + 1] = P[k]
    <3>1. l + 1 \in 1..(l + 1)
      BY <2>7
    <3> QED BY <2>4, <2>5, <2>5b, <2>6, <2>8, <3>1
  <2>10. l < 2 \/ Cross(V[l - 1], V[l], P[k]) > 0
    <3> SUFFICES ASSUME ~(l < 2) PROVE Cross(V[l - 1], V[l], P[k]) > 0
      OBVIOUS
    <3>1. l \in 1..Len(s) /\ l - 1 \in 1..Len(s)
      BY <2>4, <2>7
    <3>2. V[l] = pm[s[l]] /\ V[l - 1] = pm[s[l - 1]]
      BY <2>4, <3>1
    <3>3. Cross(pm[s[l - 1]], pm[s[l]], pm[e]) > 0
      BY <2>5 DEF StaysAt
    <3> QED BY <2>5b, <3>2, <3>3
  <2>11. l < Len(V) => ~(Cross(V[l], V[l + 1], P[k]) > 0)
    <3> SUFFICES ASSUME l < Len(V) PROVE ~(Cross(V[l], V[l + 1], P[k]) > 0)
      OBVIOUS
    <3>1. l \in 1..Len(s) /\ l + 1 \in 1..Len(s) /\ ~(l + 1 < 2) /\ l + 1 - 1 = l /\ l < Len(s)
      BY <2>4, <2>7
    <3>2. V[l] = pm[s[l]] /\ V[l + 1] = pm[s[l + 1]]
      BY <2>4, <3>1
    <3>3. ~(Cross(pm[s[l]], pm[s[l + 1]], pm[e]) > 0)
      BY <2>5, <3>1 DEF StaysAt
    <3> QED BY <2>5b, <3>2, <3>3
  <2>12. ConvexTo(fw, P, k, W)
    <3>1. Ascending(fw, P) /\ k \in 2..Len(P) /\ W \in Seq(Point) /\ Len(W) = l + 1
      BY <1>2, <2>2, <2>6
    <3> QED BY <2>1, <2>7, <2>9, <2>10, <2>11, <3>1, ConvexGrows
  <2> QED BY <2>5a, <2>12 DEF w, W
<1> HIDE DEF Good
<1>5. 0 \in S
  BY <1>2
<1>6. \A k \in 1..n : k - 1 \in S => k \in S
  <2> SUFFICES ASSUME NEW k \in 1..n, k - 1 \in S PROVE Good(k)
    OBVIOUS
  <2>1. CASE k = 1
    BY <1>3, <2>1
  <2>2. CASE k # 1
    <3>1. k \in 2..n /\ k - 1 # 0
      BY <1>2, <2>2
    <3> QED BY <1>4, <3>1
  <2> QED BY <2>1, <2>2
<1>7. n \in S
  <2> HIDE DEF S
  <2>1. \A k \in 0..n : k \in S
    BY <1>2, <1>5, <1>6, UpwardsTo
  <2> QED BY <1>2, <2>1
<1> QED
  BY <1>1, <1>2, <1>7 DEF Good, n, P

-----------------------------------------------------------------------------
(* A chain is a rim of its points: it leads from the first of them to the  *)
(* last, always turns left, and no point is right of an edge.              *)
RimOf(fw, points, V) ==
  /\ V \in Seq(Point) /\ Len(V) >= 2
  /\ points \subseteq Point
  /\ \A i \in 1..Len(V) : V[i] \in points
  /\ \A i, j \in 1..Len(V) : i < j => Ahead(fw, V[i], V[j])
  /\ \A i, j, h \in 1..Len(V) : i < j /\ j < h => Cross(V[i], V[j], V[h]) > 0
  /\ \A i \in 1..(Len(V) - 1) : \A p \in points : Cross(V[i], V[i + 1], p) >= 0
  /\ \A p \in points : /\ p = V[1] \/ Ahead(fw, V[1], p)
                       /\ p = V[Len(V)] \/ Ahead(fw, p, V[Len(V)])

(* A point on the segment between two others is between them in the order  *)
(* of the sort, too.                                                       *)
LEMMA SegmentOrdered ==
  ASSUME NEW a \in Point, NEW b \in Point, NEW p \in Point, p # a, p # b,
         OnSegment(p, a, b)
  PROVE  (Less(a, p) /\ Less(p, b)) \/ (Less(b, p) /\ Less(p, a))
<1>1. /\ a.x \in Int /\ b.x \in Int /\ p.x \in Int
      /\ a.y \in Int /\ b.y \in Int /\ p.y \in Int
  BY DEF Point
<1>2. (a.x # p.x \/ a.y # p.y) /\ (b.x # p.x \/ b.y # p.y)
  BY DEF Point
<1> DEFINE ax == a.x - p.x  ay == a.y - p.y
           bx == b.x - p.x  by == b.y - p.y
<1>3. /\ ax \in Int /\ ay \in Int /\ bx \in Int /\ by \in Int
      /\ ax # 0 \/ ay # 0
      /\ bx # 0 \/ by # 0
  BY <1>1, <1>2
<1>4. ax * by - ay * bx = 0 /\ ax * bx <= 0 /\ ay * by <= 0
  <2>1. Cross(a, b, p) = ax * by - ay * bx
    BY <1>1, SMT DEF Cross
  <2>2. (p.x - a.x) * (p.x - b.x) = ax * bx /\ (p.y - a.y) * (p.y - b.y) = ay * by
    BY <1>1, SMT
  <2> QED BY <2>1, <2>2 DEF OnSegment
<1>5. /\ Less(a, p) <=> (ax < 0 \/ (ax = 0 /\ ay < 0))
      /\ Less(p, a) <=> (ax > 0 \/ (ax = 0 /\ ay > 0))
  BY <1>1 DEF Less
<1>6. /\ Less(b, p) <=> (bx < 0 \/ (bx = 0 /\ by < 0))
      /\ Less(p, b) <=> (bx > 0 \/ (bx = 0 /\ by > 0))
  BY <1>1 DEF Less
<1> HIDE DEF ax, ay, bx, by
<1>7. CASE ax = 0
  <2>1. ay * bx = 0 /\ ay # 0
    BY <1>3, <1>4, <1>7
  <2>2. bx = 0 /\ by # 0
    BY <1>3, <2>1
  <2>3. (ay < 0 /\ by > 0) \/ (ay > 0 /\ by < 0)
    BY <1>3, <1>4, <2>1, <2>2
  <2>4. /\ ay < 0 /\ by > 0 => Less(a, p) /\ Less(p, b)
        /\ ay > 0 /\ by < 0 => Less(b, p) /\ Less(p, a)
    BY <1>5, <1>6, <1>7, <2>2, Zenon
  <2> QED BY <2>3, <2>4, Zenon
<1>8. CASE ax # 0
  <2>1. bx # 0
    <3> SUFFICES ASSUME bx = 0 PROVE FALSE
      OBVIOUS
    <3>1. ax * by = 0
      BY <1>3, <1>4
    <3> QED BY <1>3, <1>8, <3>1
  <2>2. (ax < 0 /\ bx > 0) \/ (ax > 0 /\ bx < 0)
    BY <1>3, <1>4, <1>8, <2>1
  <2>3. /\ ax < 0 /\ bx > 0 => Less(a, p) /\ Less(p, b)
        /\ ax > 0 /\ bx < 0 => Less(b, p) /\ Less(p, a)
    BY <1>5, <1>6, Zenon
  <2> QED BY <2>2, <2>3, Zenon
<1> QED BY <1>7, <1>8

(* And a point in line with two others and between them in the order of    *)
(* the sort is on the segment.                                             *)
LEMMA BetweenIsOnSegment ==
  ASSUME NEW a \in Point, NEW b \in Point, NEW p \in Point,
         Less(a, p), Less(p, b), Cross(a, b, p) = 0
  PROVE  OnSegment(p, a, b) /\ OnSegment(p, b, a)
<1>1. /\ a.x \in Int /\ b.x \in Int /\ p.x \in Int
      /\ a.y \in Int /\ b.y \in Int /\ p.y \in Int
  BY DEF Point
<1> DEFINE ux == p.x - a.x  uy == p.y - a.y
           vx == b.x - p.x  vy == b.y - p.y
<1>2. /\ ux \in Int /\ uy \in Int /\ vx \in Int /\ vy \in Int
      /\ ux > 0 \/ (ux = 0 /\ uy > 0)
      /\ vx > 0 \/ (vx = 0 /\ vy > 0)
  BY <1>1 DEF Less
<1>3. ux * vy = uy * vx
  <2>1. Cross(a, b, p) = vx * uy - vy * ux
    BY <1>1, SMT DEF Cross
  <2> QED BY <1>2, <2>1, SMT
<1>4. /\ (p.x - a.x) * (p.x - b.x) = -(ux * vx) /\ (p.x - b.x) * (p.x - a.x) = -(ux * vx)
      /\ (p.y - a.y) * (p.y - b.y) = -(uy * vy) /\ (p.y - b.y) * (p.y - a.y) = -(uy * vy)
      /\ Cross(b, a, p) = 0
  <2>1. Cross(b, a, p) = 0
    BY CrossFacts
  <2> QED BY <1>1, <2>1, SMT
<1> HIDE DEF ux, uy, vx, vy
<1>5. ux * vx >= 0
  BY <1>2
<1>6. uy * vy >= 0
  <2>1. CASE ux = 0
    <3>1. uy > 0 /\ uy * vx = 0
      BY <1>2, <1>3, <2>1
    <3>2. vx = 0
      BY <1>2, <3>1
    <3> QED BY <1>2, <3>1, <3>2
  <2>2. CASE ux > 0
    <3>1. CASE uy = 0
      BY <1>2, <3>1
    <3>2. CASE uy > 0
      <4>1. ux * vy >= 0
        BY <1>2, <1>3, <3>2
      <4>2. vy >= 0
        BY <1>2, <2>2, <4>1
      <4> QED BY <1>2, <3>2, <4>2
    <3>3. CASE uy < 0
      <4>1. ux * vy <= 0
        BY <1>2, <1>3, <3>3
      <4>2. vy <= 0
        BY <1>2, <2>2, <4>1
      <4> QED BY <1>2, <3>3, <4>2
    <3> QED BY <1>2, <3>1, <3>2, <3>3
  <2> QED BY <1>2, <2>1, <2>2
<1>7. ux * vx \in Int /\ uy * vy \in Int
  BY <1>2
<1> QED
  BY <1>4, <1>5, <1>6, <1>7 DEF OnSegment

Balances(al, be, ga, fa, fb, fc) == al * fa + be * fb + ga * fc = 0

(* Weights that are not all zero do not balance what lies on one side.     *)
LEMMA NoBalance ==
  ASSUME NEW al \in Int, NEW be \in Int, NEW ga \in Int,
         NEW fa \in Int, NEW fb \in Int, NEW fc \in Int,
         NEW ha \in Int, NEW hb \in Int, NEW hc \in Int,
         al >= 0, be >= 0, ga >= 0, al + be + ga > 0,
         Forwards(fa, ha), Forwards(fb, hb), Forwards(fc, hc),
         Balances(al, be, ga, fa, fb, fc), Balances(al, be, ga, ha, hb, hc)
  PROVE  FALSE
<1>0. al * fa + be * fb + ga * fc = 0 /\ al * ha + be * hb + ga * hc = 0
  BY DEF Balances
<1>1. /\ fa >= 0 /\ fb >= 0 /\ fc >= 0
      /\ fa = 0 => ha > 0
      /\ fb = 0 => hb > 0
      /\ fc = 0 => hc > 0
  BY DEF Forwards
<1>2. /\ al * fa >= 0 /\ be * fb >= 0 /\ ga * fc >= 0
      /\ al * fa \in Int /\ be * fb \in Int /\ ga * fc \in Int
  BY <1>1
<1>3. al * fa = 0 /\ be * fb = 0 /\ ga * fc = 0
  BY <1>0, <1>2
<1>4. (al = 0 \/ fa = 0) /\ (be = 0 \/ fb = 0) /\ (ga = 0 \/ fc = 0)
  BY <1>3
<1>5. /\ al * ha \in Int /\ al * ha >= 0 /\ (al > 0 => al * ha > 0)
  BY <1>1, <1>4
<1>6. /\ be * hb \in Int /\ be * hb >= 0 /\ (be > 0 => be * hb > 0)
  BY <1>1, <1>4
<1>7. /\ ga * hc \in Int /\ ga * hc >= 0 /\ (ga > 0 => ga * hc > 0)
  BY <1>1, <1>4
<1>8. al > 0 \/ be > 0 \/ ga > 0
  OBVIOUS
<1> QED
  BY <1>0, <1>5, <1>6, <1>7, <1>8

LEMMA RimFacts ==
  ASSUME NEW fw \in BOOLEAN, NEW points, NEW V, RimOf(fw, points, V)
  PROVE  /\ Len(V) \in Nat /\ Len(V) >= 2
         /\ \A p \in points : p \in Point
         /\ \A i \in 1..Len(V) : V[i] \in points /\ V[i] \in Point
         /\ \A i, j \in 1..Len(V) : i < j => Ahead(fw, V[i], V[j])
         /\ \A i, j, h \in 1..Len(V) : i < j /\ j < h => Cross(V[i], V[j], V[h]) > 0
         /\ \A i \in 1..(Len(V) - 1) : \A p \in points : Cross(V[i], V[i + 1], p) >= 0
         /\ \A p \in points : /\ p = V[1] \/ Ahead(fw, V[1], p)
                              /\ p = V[Len(V)] \/ Ahead(fw, p, V[Len(V)])
BY DEF RimOf

(* Seen from a vertex, what is before it and what is behind it turn left.  *)
LEMMA VertexBetween ==
  ASSUME NEW fw \in BOOLEAN, NEW points, NEW V, RimOf(fw, points, V),
         NEW m \in 1..Len(V), NEW a \in points, NEW b \in points,
         Ahead(fw, a, V[m]), Ahead(fw, V[m], b)
  PROVE  Cross(a, V[m], b) > 0
<1> DEFINE v == V[m]
           u == V[m - 1]
           w == V[m + 1]
           t == Len(V)
<1>1. /\ t \in Nat /\ t >= 2 /\ a \in Point /\ b \in Point /\ v \in Point
      /\ 1 \in 1..t /\ t \in 1..t
  BY RimFacts
<1>2. m # 1
  <2> SUFFICES ASSUME m = 1 PROVE FALSE
    OBVIOUS
  <2>1. a = v \/ Ahead(fw, v, a)
    BY RimFacts
  <2> QED
    BY <1>1, <2>1, AheadFacts
<1>3. m # t
  <2> SUFFICES ASSUME m = t PROVE FALSE
    OBVIOUS
  <2>1. b = v \/ Ahead(fw, b, v)
    BY RimFacts
  <2> QED
    BY <1>1, <2>1, AheadFacts
<1>4. /\ m - 1 \in 1..t /\ m + 1 \in 1..t /\ m \in 1..t /\ m - 1 < m /\ m < m + 1
      /\ m - 1 \in 1..(t - 1) /\ m \in 1..(t - 1) /\ m - 1 + 1 = m
  BY <1>1, <1>2, <1>3
<1>5. /\ u \in Point /\ w \in Point
      /\ Ahead(fw, u, v) /\ Ahead(fw, v, w)
      /\ Cross(u, v, w) > 0
  BY <1>4, RimFacts
<1>6. Cross(u, v, a) >= 0 /\ Cross(v, w, b) >= 0
  <2>1. /\ \A p \in points : Cross(V[m - 1], V[m - 1 + 1], p) >= 0
        /\ \A p \in points : Cross(V[m], V[m + 1], p) >= 0
    BY <1>4, RimFacts
  <2>2. V[m - 1 + 1] = V[m]
    BY <1>4
  <2> QED BY <2>1, <2>2
<1>7. Ahead(fw, a, v) /\ Ahead(fw, v, b)
  OBVIOUS
<1> HIDE DEF u, v, w, t
<1>8. Tilt(a, v, u, v) >= 0
  <2>1. /\ Cross(u, v, a) = Tilt(u, v, v, a) /\ Tilt(u, v, a, v) = -Tilt(u, v, v, a)
        /\ Tilt(a, v, u, v) = -Tilt(u, v, a, v)
        /\ Tilt(u, v, v, a) \in Int
    BY <1>1, <1>5, TiltFacts
  <2> QED BY <1>6, <2>1
<1>9. Tilt(u, v, v, w) > 0 /\ Tilt(u, v, v, w) >= 0 /\ Tilt(v, w, v, b) >= 0
  <2>1. /\ Cross(u, v, w) = Tilt(u, v, v, w) /\ Cross(v, w, b) = Tilt(v, w, v, b)
        /\ Tilt(u, v, v, w) \in Int
    BY <1>1, <1>5, TiltFacts
  <2> QED BY <1>5, <1>6, <2>1
<1>10. Tilt(a, v, v, w) > 0
  BY <1>1, <1>5, <1>7, <1>8, <1>9, TiltsOrdered
<1>11. Tilt(a, v, v, w) >= 0
  <2>1. Tilt(a, v, v, w) \in Int
    BY <1>1, <1>5, TiltFacts
  <2> QED BY <1>10, <2>1
<1>12. Tilt(a, v, v, b) > 0
  BY <1>1, <1>5, <1>7, <1>9, <1>10, <1>11, TiltsOrdered
<1>13. Cross(a, v, b) = Tilt(a, v, v, b)
  BY <1>1, TiltFacts
<1> QED
  BY <1>12, <1>13 DEF v

LEMMA VertexOffSegments ==
  ASSUME NEW fw \in BOOLEAN, NEW points, NEW V, RimOf(fw, points, V),
         NEW m \in 1..Len(V), NEW a \in points, NEW b \in points, a # V[m], b # V[m]
  PROVE  ~OnSegment(V[m], a, b)
<1> SUFFICES ASSUME OnSegment(V[m], a, b) PROVE FALSE
  OBVIOUS
<1> DEFINE v == V[m]
<1>1. v \in Point /\ a \in Point /\ b \in Point
  BY RimFacts
<1>2. (Less(a, v) /\ Less(v, b)) \/ (Less(b, v) /\ Less(v, a))
  BY <1>1, SegmentOrdered
<1>3. \/ Ahead(fw, a, v) /\ Ahead(fw, v, b)
      \/ Ahead(fw, b, v) /\ Ahead(fw, v, a)
  BY <1>2 DEF Ahead
<1>4. Cross(a, v, b) > 0 \/ Cross(b, v, a) > 0
  BY <1>3, VertexBetween
<1>5. Cross(a, b, v) = 0
  BY DEF OnSegment
<1> HIDE DEF v
<1>6. /\ Cross(b, v, a) = Cross(a, b, v)
      /\ Cross(v, b, a) = -Cross(b, v, a)
      /\ Cross(a, v, b) = Cross(v, b, a)
  <2>1. Cross(b, v, a) = Cross(a, b, v)
    BY <1>1, CrossFacts
  <2>2. Cross(v, b, a) = -Cross(b, v, a)
    BY <1>1, CrossFacts
  <2>3. Cross(v, b, a) = Cross(a, v, b)
    BY <1>1, CrossFacts
  <2> QED BY <2>1, <2>2, <2>3
<1> QED
  BY <1>4, <1>5, <1>6

(* The areas of the triangles that p makes with the edges of a b c are the *)
(* weights of its corners.                                                 *)
LEMMA Balanced ==
  ASSUME NEW p \in Point, NEW a \in Point, NEW b \in Point, NEW c \in Point,
         NEW fx \in Int, NEW fy \in Int
  PROVE  /\ Cross(b, c, p) * (fx * (a.x - p.x) + fy * (a.y - p.y))
              + Cross(c, a, p) * (fx * (b.x - p.x) + fy * (b.y - p.y))
              + Cross(a, b, p) * (fx * (c.x - p.x) + fy * (c.y - p.y)) = 0
         /\ Cross(b, c, p) + Cross(c, a, p) + Cross(a, b, p) = Cross(a, b, c)
<1>1. /\ a.x \in Int /\ b.x \in Int /\ c.x \in Int /\ p.x \in Int
      /\ a.y \in Int /\ b.y \in Int /\ c.y \in Int /\ p.y \in Int
  BY DEF Point
<1> DEFINE ax == a.x - p.x  ay == a.y - p.y
           bx == b.x - p.x  by == b.y - p.y
           cx == c.x - p.x  cy == c.y - p.y
<1>2. /\ ax \in Int /\ ay \in Int /\ bx \in Int /\ by \in Int /\ cx \in Int /\ cy \in Int
  BY <1>1
<1>3. /\ Cross(b, c, p) = bx * cy - by * cx
      /\ Cross(c, a, p) = cx * ay - cy * ax
      /\ Cross(a, b, p) = ax * by - ay * bx
  BY <1>1, SMT DEF Cross
<1>4. Cross(b, c, p) + Cross(c, a, p) + Cross(a, b, p) = Cross(a, b, c)
  BY <1>1, SMT DEF Cross
<1> HIDE DEF ax, ay, bx, by, cx, cy
<1>5. (bx * cy - by * cx) * (fx * ax + fy * ay) + (cx * ay - cy * ax) * (fx * bx + fy * by)
        + (ax * by - ay * bx) * (fx * cx + fy * cy) = 0
  BY <1>2, SMT
<1> QED
  BY <1>3, <1>4, <1>5 DEF ax, ay, bx, by, cx, cy

(* A point that has all corners of a triangle on one side is not in it.    *)
LEMMA SidedNotInside ==
  ASSUME NEW p \in Point, NEW a \in Point, NEW b \in Point, NEW c \in Point,
         NEW fx \in Int, NEW fy \in Int, NEW hx \in Int, NEW hy \in Int,
         \A q \in {a, b, c} : Forwards(fx * (q.x - p.x) + fy * (q.y - p.y),
                                       hx * (q.x - p.x) + hy * (q.y - p.y)),
         Cross(a, b, c) # 0
  PROVE  ~InTriangle(p, a, b, c)
<1> DEFINE f(q) == fx * (q.x - p.x) + fy * (q.y - p.y)
           h(q) == hx * (q.x - p.x) + hy * (q.y - p.y)
           al == Cross(b, c, p)
           be == Cross(c, a, p)
           ga == Cross(a, b, p)
<1>1. /\ a.x \in Int /\ b.x \in Int /\ c.x \in Int /\ p.x \in Int
      /\ a.y \in Int /\ b.y \in Int /\ c.y \in Int /\ p.y \in Int
  BY DEF Point
<1>2. /\ f(a) \in Int /\ f(b) \in Int /\ f(c) \in Int
      /\ h(a) \in Int /\ h(b) \in Int /\ h(c) \in Int
  BY <1>1
<1>3. Forwards(f(a), h(a)) /\ Forwards(f(b), h(b)) /\ Forwards(f(c), h(c))
  OBVIOUS
<1>4. /\ al \in Int /\ be \in Int /\ ga \in Int
      /\ al + be + ga = Cross(a, b, c)
      /\ Cross(a, b, c) \in Int
  BY Balanced, CrossFacts
<1>5. /\ Balances(al, be, ga, f(a), f(b), f(c))
      /\ Balances(al, be, ga, h(a), h(b), h(c))
  BY Balanced DEF Balances
<1> HIDE DEF f, h, al, be, ga
<1>6. ~(al >= 0 /\ be >= 0 /\ ga >= 0)
  <2> SUFFICES ASSUME al >= 0, be >= 0, ga >= 0 PROVE FALSE
    OBVIOUS
  <2>1. al + be + ga > 0
    BY <1>4
  <2> QED
    BY <1>2, <1>3, <1>4, <1>5, <2>1, NoBalance
<1>7. ~(al <= 0 /\ be <= 0 /\ ga <= 0)
  <2> SUFFICES ASSUME al <= 0, be <= 0, ga <= 0 PROVE FALSE
    OBVIOUS
  <2> DEFINE i == -al
             j == -be
             k == -ga
  <2>1. /\ i \in Int /\ j \in Int /\ k \in Int /\ i >= 0 /\ j >= 0 /\ k >= 0
        /\ i + j + k > 0
    BY <1>4
  <2>2. /\ Balances(i, j, k, f(a), f(b), f(c))
        /\ Balances(i, j, k, h(a), h(b), h(c))
    <3>1. /\ i * f(a) + j * f(b) + k * f(c) = -(al * f(a) + be * f(b) + ga * f(c))
          /\ i * h(a) + j * h(b) + k * h(c) = -(al * h(a) + be * h(b) + ga * h(c))
      BY <1>2, <1>4, SMT
    <3> HIDE DEF i, j, k
    <3> QED BY <1>5, <3>1 DEF Balances
  <2> HIDE DEF i, j, k
  <2> QED
    BY <1>2, <1>3, <2>1, <2>2, NoBalance
<1> QED
  BY <1>6, <1>7 DEF InTriangle, al, be, ga

(* The side of an edge, in coordinates relative to one of its ends.        *)
LEMMA SideIsLinear ==
  ASSUME NEW a \in Point, NEW b \in Point, NEW p \in Point
  PROVE  /\ Cross(a, b, p) = (a.y - b.y) * (p.x - b.x) + (b.x - a.x) * (p.y - b.y)
         /\ Cross(a, b, p) = (a.y - b.y) * (p.x - a.x) + (b.x - a.x) * (p.y - a.y)
<1>1. /\ a.x \in Int /\ b.x \in Int /\ p.x \in Int
      /\ a.y \in Int /\ b.y \in Int /\ p.y \in Int
  BY DEF Point
<1>2. Cross(a, b, p) = (a.y - b.y) * (p.x - b.x) + (b.x - a.x) * (p.y - b.y)
  BY <1>1, SMT DEF Cross
<1>3. Cross(a, b, p) = (a.y - b.y) * (p.x - a.x) + (b.x - a.x) * (p.y - a.y)
  BY <1>1, SMT DEF Cross
<1> QED
  BY <1>2, <1>3

(* All points but v are on one side of v. *)
SidesOf(points, v, fx, fy, hx, hy) ==
  \A q \in points \ {v} : Forwards(fx * (q.x - v.x) + fy * (q.y - v.y),
                                   hx * (q.x - v.x) + hy * (q.y - v.y))

(* A vertex has all other points on one side. *)
LEMMA VertexSides ==
  ASSUME NEW fw \in BOOLEAN, NEW points, NEW V, RimOf(fw, points, V),
         NEW m \in 1..Len(V)
  PROVE  \E fx, fy, hx, hy \in Int : SidesOf(points, V[m], fx, fy, hx, hy)
<1> DEFINE v == V[m]
           t == Len(V)
           Sides(fx, fy, hx, hy) == SidesOf(points, v, fx, fy, hx, hy)
<1>1. /\ t \in Nat /\ t >= 2 /\ v \in Point /\ v.x \in Int /\ v.y \in Int
      /\ \A q \in points : q \in Point /\ q.x \in Int /\ q.y \in Int
      /\ 1 \in 1..t /\ t \in 1..t
  BY RimFacts DEF Point
<1> SUFFICES \E fx, fy, hx, hy \in Int : Sides(fx, fy, hx, hy)
  OBVIOUS
<1>2. ASSUME \A q \in points \ {v} : Less(v, q)
      PROVE  Sides(1, 0, 0, 1)
  <2> SUFFICES ASSUME NEW q \in points \ {v}
               PROVE  Forwards(1 * (q.x - v.x) + 0 * (q.y - v.y),
                               0 * (q.x - v.x) + 1 * (q.y - v.y))
    BY DEF SidesOf
  <2>1. Less(v, q) /\ q.x \in Int /\ q.y \in Int
    BY <1>1, <1>2
  <2> HIDE DEF v
  <2> QED BY <1>1, <2>1 DEF Less, Forwards
<1>3. ASSUME \A q \in points \ {v} : Less(q, v)
      PROVE  Sides(-1, 0, 0, -1)
  <2> SUFFICES ASSUME NEW q \in points \ {v}
               PROVE  Forwards((-1) * (q.x - v.x) + 0 * (q.y - v.y),
                               0 * (q.x - v.x) + (-1) * (q.y - v.y))
    BY DEF SidesOf
  <2>1. Less(q, v) /\ q.x \in Int /\ q.y \in Int
    BY <1>1, <1>3
  <2> HIDE DEF v
  <2> QED BY <1>1, <2>1 DEF Less, Forwards
<1>4. CASE m = 1
  <2>1. \A q \in points \ {v} : Ahead(fw, v, q)
    BY <1>4, RimFacts
  <2>2. (\A q \in points \ {v} : Less(v, q)) \/ (\A q \in points \ {v} : Less(q, v))
    BY <2>1 DEF Ahead
  <2> HIDE DEF v, Sides
  <2> QED BY <1>2, <1>3, <2>2
<1>5. CASE m = t
  <2>1. \A q \in points \ {v} : Ahead(fw, q, v)
    BY <1>5, RimFacts
  <2>2. (\A q \in points \ {v} : Less(v, q)) \/ (\A q \in points \ {v} : Less(q, v))
    BY <2>1 DEF Ahead
  <2> HIDE DEF v, Sides
  <2> QED BY <1>2, <1>3, <2>2
<1>6. CASE m # 1 /\ m # t
  <2> DEFINE u == V[m - 1]
             w == V[m + 1]
  <2>1. /\ m - 1 \in 1..t /\ m + 1 \in 1..t /\ m \in 1..t /\ m - 1 < m /\ m < m + 1
        /\ m - 1 \in 1..(t - 1) /\ m \in 1..(t - 1) /\ m - 1 + 1 = m
    BY <1>1, <1>6
  <2>2. /\ u \in Point /\ w \in Point
        /\ Ahead(fw, u, v) /\ Ahead(fw, v, w)
        /\ Cross(u, v, w) > 0
    BY <2>1, RimFacts
  <2>3. \A q \in points : Cross(u, v, q) >= 0 /\ Cross(v, w, q) >= 0
    <3>1. /\ \A p \in points : Cross(V[m - 1], V[m - 1 + 1], p) >= 0
          /\ \A p \in points : Cross(V[m], V[m + 1], p) >= 0
      BY <2>1, RimFacts
    <3>2. V[m - 1 + 1] = V[m]
      BY <2>1
    <3> QED BY <3>1, <3>2
  <2>4. u.x \in Int /\ u.y \in Int /\ w.x \in Int /\ w.y \in Int
    BY <2>2 DEF Point
  <2> DEFINE fx == u.y - v.y  fy == v.x - u.x
             hx == v.y - w.y  hy == w.x - v.x
  <2> HIDE DEF v, u, w, t
  <2>5. fx \in Int /\ fy \in Int /\ hx \in Int /\ hy \in Int
    BY <1>1, <2>4, SMTT(30)
  <2>6. ASSUME NEW q \in points \ {v}
        PROVE  Cross(u, v, q) > 0 \/ Cross(v, w, q) > 0
    <3> SUFFICES ASSUME ~(Cross(u, v, q) > 0), ~(Cross(v, w, q) > 0) PROVE FALSE
      OBVIOUS
    <3>1. q \in Point /\ q # v /\ q \in points
      BY <1>1
    <3>2. /\ Cross(u, v, q) = Tilt(u, v, v, q) /\ Tilt(u, v, v, q) \in Int
          /\ Cross(v, w, q) = Tilt(v, w, v, q) /\ Tilt(v, w, v, q) \in Int
          /\ Cross(u, v, w) = Tilt(u, v, v, w) /\ Tilt(u, v, v, w) \in Int
          /\ Tilt(q, v, u, v) = Tilt(u, v, v, q) /\ Tilt(q, v, v, w) = Tilt(v, w, v, q)
      BY <1>1, <2>2, <3>1, TiltFacts
    <3>3. /\ Tilt(u, v, v, q) = 0 /\ Tilt(v, w, v, q) = 0
          /\ Tilt(q, v, u, v) = 0 /\ Tilt(q, v, v, w) = 0
          /\ Tilt(u, v, v, w) > 0
      <4>1. Cross(u, v, q) = 0 /\ Cross(v, w, q) = 0
        BY <2>3, <3>1, <3>2
      <4>2. Tilt(u, v, v, q) = 0 /\ Tilt(v, w, v, q) = 0
        BY <3>2, <4>1
      <4> QED BY <2>2, <3>2, <4>2
    <3>4. CASE Ahead(fw, v, q)
      <4>1. Tilt(u, v, v, w) >= 0 /\ Tilt(v, w, v, q) >= 0
        BY <3>2, <3>3
      <4>2. Tilt(u, v, v, q) > 0
        BY <1>1, <2>2, <3>1, <3>3, <3>4, <4>1, TiltsOrdered
      <4> QED BY <3>3, <4>2
    <3>5. CASE Ahead(fw, q, v)
      <4>1. Tilt(q, v, u, v) >= 0 /\ Tilt(u, v, v, w) >= 0
        BY <3>2, <3>3
      <4>2. Tilt(q, v, v, w) > 0
        BY <1>1, <2>2, <3>1, <3>3, <3>5, <4>1, TiltsOrdered
      <4> QED BY <3>3, <4>2
    <3> QED
      BY <1>1, <3>1, <3>4, <3>5, AheadFacts
  <2>7. ASSUME NEW q \in points \ {v}
        PROVE  Forwards(fx * (q.x - v.x) + fy * (q.y - v.y),
                        hx * (q.x - v.x) + hy * (q.y - v.y))
    <3>1. q.x \in Int /\ q.y \in Int /\ q \in Point
      BY <1>1
    <3>0. /\ q.x \in Int /\ q.y \in Int /\ v.x \in Int /\ v.y \in Int
          /\ u.x \in Int /\ u.y \in Int /\ w.x \in Int /\ w.y \in Int
      BY <1>1, <2>4, <3>1
    <3>2. /\ fx * (q.x - v.x) + fy * (q.y - v.y) = Cross(u, v, q)
          /\ hx * (q.x - v.x) + hy * (q.y - v.y) = Cross(v, w, q)
      <4>1. fx * (q.x - v.x) + fy * (q.y - v.y) = Cross(u, v, q)
        BY <1>1, <2>2, <3>1, SideIsLinear
      <4>2. hx * (q.x - v.x) + hy * (q.y - v.y) = Cross(v, w, q)
        BY <1>1, <2>2, <3>1, SideIsLinear
      <4> QED BY <4>1, <4>2
    <3>3. /\ Cross(u, v, q) >= 0 /\ Cross(v, w, q) >= 0
          /\ Cross(u, v, q) \in Int /\ Cross(v, w, q) \in Int
          /\ Cross(u, v, q) > 0 \/ Cross(v, w, q) > 0
      BY <1>1, <2>2, <2>3, <2>6, <3>1, CrossFacts
    <3> QED
      BY <3>2, <3>3 DEF Forwards
  <2>8. Sides(fx, fy, hx, hy)
    BY <2>7 DEF SidesOf
  <2> HIDE DEF fx, fy, hx, hy, Sides
  <2> QED BY <2>5, <2>8
<1>7. 1 \in Int /\ 0 \in Int /\ -1 \in Int
  OBVIOUS
<1> HIDE DEF Sides, v, t
<1> QED
  BY <1>4, <1>5, <1>6

(* Every vertex of a rim is a vertex of the convex hull. *)
LEMMA RimExtreme ==
  ASSUME NEW fw \in BOOLEAN, NEW points, NEW V, RimOf(fw, points, V),
         NEW m \in 1..Len(V)
  PROVE  V[m] \in points /\ Extreme(V[m], points)
<1> DEFINE v == V[m]
           others == points \ {v}
<1>1. v \in points /\ v \in Point /\ \A q \in points : q \in Point
  BY RimFacts
<1>2. \A a, b \in others : ~OnSegment(v, a, b)
  BY VertexOffSegments
<1>3. ASSUME NEW a \in others, NEW b \in others, NEW c \in others, Cross(a, b, c) # 0
      PROVE  ~InTriangle(v, a, b, c)
  <2>1. PICK fx \in Int, fy \in Int, hx \in Int, hy \in Int :
          SidesOf(points, v, fx, fy, hx, hy)
    BY VertexSides
  <2>2. /\ \A q \in {a, b, c} : Forwards(fx * (q.x - v.x) + fy * (q.y - v.y),
                                         hx * (q.x - v.x) + hy * (q.y - v.y))
        /\ a \in Point /\ b \in Point /\ c \in Point
    BY <1>1, <2>1 DEF SidesOf
  <2> HIDE DEF v, others
  <2> QED
    BY <1>1, <1>3, <2>2, SidedNotInside
<1> QED
  BY <1>1, <1>2, <1>3 DEF Extreme

(* A point that is no vertex of a rim lies over one of its edges. *)
LEMMA EdgeAround ==
  ASSUME NEW fw \in BOOLEAN, NEW points, NEW V, RimOf(fw, points, V),
         NEW p \in points, \A i \in 1..Len(V) : V[i] # p
  PROVE  \E a, b \in points \ {p} : /\ Ahead(fw, a, p) /\ Ahead(fw, p, b)
                                    /\ Cross(a, b, p) >= 0
<1> DEFINE t == Len(V)
           S == {i \in 1..t : Ahead(fw, V[i], p)}
<1>1. /\ t \in Nat /\ t >= 2 /\ 1 \in 1..t /\ t \in 1..t /\ p \in Point
      /\ \A i \in 1..t : V[i] \in points /\ V[i] \in Point
  BY RimFacts
<1>2. 1 \in S /\ t \notin S
  <2>1. Ahead(fw, V[1], p) /\ Ahead(fw, p, V[t])
    BY <1>1, RimFacts
  <2>2. ~Ahead(fw, V[t], p)
    BY <1>1, <2>1, AheadFacts
  <2> QED BY <1>1, <2>1, <2>2
<1>3. Max(S) \in S /\ \A y \in S : Max(S) >= y
  <2>1. S \in SUBSET (0..t)
    BY <1>1
  <2> HIDE DEF S, t
  <2> QED BY <1>1, <1>2, <2>1, MaxIsMax
<1> DEFINE i == Max(S)
<1>4. i \in S /\ \A y \in S : i >= y
  BY <1>3
<1> HIDE DEF i
<1>5. i \in 1..(t - 1) /\ i \in 1..t /\ i + 1 \in 1..t /\ Ahead(fw, V[i], p)
  BY <1>1, <1>2, <1>4
<1>6. Ahead(fw, p, V[i + 1])
  <2>1. i + 1 \notin S
    <3> SUFFICES ASSUME i + 1 \in S PROVE FALSE
      OBVIOUS
    <3>1. i >= i + 1
      BY <1>4
    <3> QED BY <1>5, <3>1
  <2>2. V[i + 1] \in Point /\ V[i + 1] # p /\ ~Ahead(fw, V[i + 1], p)
    BY <1>1, <1>5, <2>1
  <2> QED BY <1>1, <2>2, AheadFacts
<1>7. Cross(V[i], V[i + 1], p) >= 0
  BY <1>5, RimFacts
<1>8. V[i] \in points \ {p} /\ V[i + 1] \in points \ {p}
  BY <1>1, <1>5
<1> QED
  BY <1>5, <1>6, <1>7, <1>8

-----------------------------------------------------------------------------
(* Of four points around p, two before it and two behind it, the ones      *)
(* below it and above it, three have p in their triangle.                  *)
LEMMA FourAround ==
  ASSUME NEW p \in Point, NEW u \in Point, NEW w \in Point, NEW e \in Point, NEW d \in Point,
         Less(u, p), Less(p, w), Less(e, p), Less(p, d),
         Cross(u, w, p) > 0, Cross(d, e, p) > 0
  PROVE  \/ Cross(u, w, d) # 0 /\ InTriangle(p, u, w, d)
         \/ Cross(d, e, u) # 0 /\ InTriangle(p, d, e, u)
<1>1. /\ Ahead(TRUE, u, p) /\ Ahead(TRUE, p, w) /\ Ahead(TRUE, e, p) /\ Ahead(TRUE, p, d)
  BY DEF Ahead
<1>2. /\ Cross(w, d, p) = Cross(p, w, d) /\ Cross(p, w, d) = Tilt(p, w, p, d)
      /\ Cross(d, u, p) = Cross(u, p, d) /\ Cross(u, p, d) = Tilt(u, p, p, d)
      /\ Cross(e, u, p) = Cross(p, e, u) /\ Cross(p, e, u) = Tilt(p, e, p, u)
      /\ Cross(u, d, p) = -Cross(d, u, p)
      /\ Cross(u, w, p) = Cross(p, u, w) /\ Cross(p, u, w) = Tilt(p, u, p, w)
      /\ Cross(d, e, p) = Cross(e, p, d) /\ Cross(e, p, d) = Tilt(e, p, p, d)
  <2>1. /\ Cross(w, d, p) = Cross(p, w, d) /\ Cross(d, u, p) = Cross(u, p, d)
        /\ Cross(e, u, p) = Cross(p, e, u) /\ Cross(u, d, p) = -Cross(d, u, p)
        /\ Cross(u, w, p) = Cross(p, u, w) /\ Cross(d, e, p) = Cross(e, p, d)
    <3>1. Cross(w, d, p) = Cross(p, w, d) /\ Cross(d, u, p) = Cross(u, p, d)
      BY CrossFacts
    <3>2. Cross(e, u, p) = Cross(p, e, u) /\ Cross(u, d, p) = -Cross(d, u, p)
      BY CrossFacts
    <3>3. Cross(u, w, p) = Cross(p, u, w) /\ Cross(d, e, p) = Cross(e, p, d)
      BY CrossFacts
    <3> QED BY <3>1, <3>2, <3>3
  <2>2. /\ Cross(p, w, d) = Tilt(p, w, p, d) /\ Cross(u, p, d) = Tilt(u, p, p, d)
        /\ Cross(p, e, u) = Tilt(p, e, p, u) /\ Cross(p, u, w) = Tilt(p, u, p, w)
        /\ Cross(e, p, d) = Tilt(e, p, p, d)
    BY TiltFacts
  <2> QED BY <2>1, <2>2
<1>3. /\ Tilt(p, w, u, p) = Tilt(p, u, p, w)
      /\ Tilt(e, p, u, p) = Tilt(p, e, p, u)
      /\ Tilt(p, d, u, p) = -Tilt(u, p, p, d)
      /\ Tilt(p, w, p, d) \in Int /\ Tilt(u, p, p, d) \in Int /\ Tilt(p, e, p, u) \in Int
      /\ Tilt(p, u, p, w) \in Int /\ Tilt(e, p, p, d) \in Int
  <2>1. Tilt(p, w, u, p) = Tilt(p, u, p, w) /\ Tilt(p, d, u, p) = -Tilt(u, p, p, d)
    BY TiltFacts
  <2>2. Tilt(e, p, u, p) = Tilt(p, e, p, u)
    <3>1. /\ Tilt(p, e, u, p) = -Tilt(p, e, p, u) /\ Tilt(e, p, u, p) = -Tilt(p, e, u, p)
          /\ Tilt(p, e, p, u) \in Int /\ Tilt(p, e, u, p) \in Int
      BY TiltFacts
    <3> QED BY <3>1
  <2>3. /\ Tilt(p, w, p, d) \in Int /\ Tilt(u, p, p, d) \in Int /\ Tilt(p, e, p, u) \in Int
        /\ Tilt(p, u, p, w) \in Int /\ Tilt(e, p, p, d) \in Int
    BY TiltFacts
  <2> QED BY <2>1, <2>2, <2>3
<1>4. /\ Cross(w, d, p) + Cross(d, u, p) + Cross(u, w, p) = Cross(u, w, d)
      /\ Cross(e, u, p) + Cross(u, d, p) + Cross(d, e, p) = Cross(d, e, u)
  <2>1. 0 \in Int
    OBVIOUS
  <2> QED BY <2>1, Balanced
<1>5. Tilt(p, w, u, p) > 0 /\ Tilt(p, w, u, p) >= 0
  BY <1>2, <1>3
<1>6. Tilt(e, p, p, d) > 0 /\ Tilt(e, p, p, d) >= 0
  BY <1>2, <1>3
<1>7. CASE Tilt(u, p, p, d) >= 0
  <2>1. Tilt(p, w, p, d) > 0
    BY <1>1, <1>5, <1>7, TiltsOrdered, ZenonT(30)
  <2>2. Cross(u, w, p) >= 0 /\ Cross(w, d, p) >= 0 /\ Cross(d, u, p) >= 0
    BY <1>2, <1>3, <1>7, <2>1
  <2>3. Cross(u, w, d) # 0
    BY <1>2, <1>3, <1>4, <2>2
  <2> QED
    BY <2>2, <2>3 DEF InTriangle
<1>8. CASE ~(Tilt(u, p, p, d) >= 0)
  <2>1. Tilt(p, d, u, p) > 0 /\ Tilt(p, d, u, p) >= 0
    BY <1>3, <1>8
  <2>2. Tilt(e, p, u, p) > 0
    BY <1>1, <1>6, <2>1, TiltsOrdered
  <2>3. Cross(d, e, p) >= 0 /\ Cross(e, u, p) >= 0 /\ Cross(u, d, p) >= 0
    BY <1>2, <1>3, <1>8, <2>2
  <2>4. Cross(d, e, u) # 0
    BY <1>2, <1>3, <1>4, <2>3
  <2> QED
    BY <2>3, <2>4 DEF InTriangle
<1> QED
  BY <1>7, <1>8

(* The chain of the loop over the sorted points, and that of the loop back. *)
LowerRim(points, V) == RimOf(TRUE, points, V)
UpperRim(points, V) == RimOf(FALSE, points, V)

(* A vertex of the convex hull is on one of the rims. *)
LEMMA ExtremeOnRim ==
  ASSUME NEW points, NEW L, NEW U,
         LowerRim(points, L), UpperRim(points, U),
         NEW p \in points, Extreme(p, points)
  PROVE  (\E i \in 1..Len(L) : L[i] = p) \/ (\E j \in 1..Len(U) : U[j] = p)
<1> SUFFICES ASSUME \A i \in 1..Len(L) : L[i] # p, \A j \in 1..Len(U) : U[j] # p
             PROVE  FALSE
  OBVIOUS
<1> DEFINE others == points \ {p}
<1>1. PICK u \in others, w \in others :
        Ahead(TRUE, u, p) /\ Ahead(TRUE, p, w) /\ Cross(u, w, p) >= 0
  <2>1. RimOf(TRUE, points, L)
    BY DEF LowerRim
  <2> QED BY <2>1, EdgeAround
<1>2. PICK d \in others, e \in others :
        Ahead(FALSE, d, p) /\ Ahead(FALSE, p, e) /\ Cross(d, e, p) >= 0
  <2>1. RimOf(FALSE, points, U)
    BY DEF UpperRim
  <2> QED BY <2>1, EdgeAround
<1>3. /\ p \in Point /\ u \in Point /\ w \in Point /\ d \in Point /\ e \in Point
      /\ Less(u, p) /\ Less(p, w) /\ Less(e, p) /\ Less(p, d)
  <2>1. \A q \in points : q \in Point
    BY DEF LowerRim, RimOf
  <2> QED BY <1>1, <1>2, <2>1 DEF Ahead
<1>4. /\ \A a, b \in others : ~OnSegment(p, a, b)
      /\ \A a, b, c \in others : Cross(a, b, c) # 0 => ~InTriangle(p, a, b, c)
  BY DEF Extreme
<1> HIDE DEF others
<1>5. Cross(u, w, p) # 0
  <2> SUFFICES ASSUME Cross(u, w, p) = 0 PROVE FALSE
    OBVIOUS
  <2>1. OnSegment(p, u, w)
    BY <1>3, BetweenIsOnSegment
  <2> QED BY <1>4, <2>1
<1>6. Cross(d, e, p) # 0
  <2> SUFFICES ASSUME Cross(d, e, p) = 0 PROVE FALSE
    OBVIOUS
  <2>1. Cross(e, d, p) = 0
    BY <1>3, CrossFacts
  <2>2. OnSegment(p, e, d)
    BY <1>3, <2>1, BetweenIsOnSegment
  <2> QED BY <1>4, <2>2
<1>7. Cross(u, w, p) > 0 /\ Cross(d, e, p) > 0
  <2>1. Cross(u, w, p) \in Int /\ Cross(d, e, p) \in Int
    BY <1>3, CrossFacts
  <2> QED BY <1>1, <1>2, <1>5, <1>6, <2>1
<1> QED
  BY <1>3, <1>4, <1>7, FourAround

(* Both rims bend at the same vertex only where they meet. *)
LEMMA RimsApart ==
  ASSUME NEW points, NEW L, NEW U,
         LowerRim(points, L), UpperRim(points, U),
         L[1] = U[Len(U)], U[1] = L[Len(L)],
         NEW i \in 1..(Len(L) - 1), NEW j \in 1..(Len(U) - 1)
  PROVE  L[i] # U[j]
<1> SUFFICES ASSUME L[i] = U[j] PROVE FALSE
  OBVIOUS
<1> DEFINE v == U[j]
           t == Len(L)
           s == Len(U)
<1>0. RimOf(TRUE, points, L) /\ RimOf(FALSE, points, U)
  BY DEF LowerRim, UpperRim
<1>1. /\ t \in Nat /\ s \in Nat /\ t >= 2 /\ s >= 2
      /\ 1 \in 1..t /\ t \in 1..t /\ 1 \in 1..s /\ s \in 1..s /\ i \in 1..t /\ j \in 1..s
      /\ \A k \in 1..t : L[k] \in points /\ L[k] \in Point
      /\ \A k \in 1..s : U[k] \in points /\ U[k] \in Point
      /\ \A k, l \in 1..t : k < l => Ahead(TRUE, L[k], L[l])
      /\ \A k, l \in 1..s : k < l => Ahead(FALSE, U[k], U[l])
      /\ i < t
  <2>1. /\ t \in Nat /\ t >= 2 /\ \A k \in 1..t : L[k] \in points /\ L[k] \in Point
        /\ \A k, l \in 1..t : k < l => Ahead(TRUE, L[k], L[l])
    BY <1>0, RimFacts
  <2>2. /\ s \in Nat /\ s >= 2 /\ \A k \in 1..s : U[k] \in points /\ U[k] \in Point
        /\ \A k, l \in 1..s : k < l => Ahead(FALSE, U[k], U[l])
    BY <1>0, RimFacts
  <2> HIDE DEF t, s
  <2>3. /\ 1 \in 1..t /\ t \in 1..t /\ 1 \in 1..s /\ s \in 1..s /\ i \in 1..t /\ j \in 1..s
        /\ i < t
    BY <2>1, <2>2 DEF t, s
  <2> QED BY <2>1, <2>2, <2>3
<1>2. j # 1
  <2> SUFFICES ASSUME j = 1 PROVE FALSE
    OBVIOUS
  <2>1. Ahead(TRUE, L[i], L[t])
    BY <1>1
  <2>2. L[i] = L[t] /\ L[t] \in Point
    BY <1>1
  <2> QED BY <2>1, <2>2, AheadFacts
<1>3. j - 1 \in 1..s /\ j + 1 \in 1..s /\ j - 1 < j /\ j < j + 1
  BY <1>1, <1>2
<1>4. Cross(U[j - 1], U[j], U[j + 1]) > 0 /\ Ahead(FALSE, U[j - 1], v) /\ Ahead(FALSE, v, U[j + 1])
  <2>1. \A k, l, h \in 1..s : k < l /\ l < h => Cross(U[k], U[l], U[h]) > 0
    BY <1>0, RimFacts
  <2> QED BY <1>1, <1>3, <2>1
<1> DEFINE r == U[j - 1]
           l == U[j + 1]
<1>5. r \in points /\ l \in points /\ r \in Point /\ l \in Point /\ v \in Point
  BY <1>1, <1>3
<1>6. Ahead(TRUE, l, L[i]) /\ Ahead(TRUE, L[i], r)
  BY <1>4 DEF Ahead
<1>7. Cross(l, v, r) > 0
  BY <1>0, <1>1, <1>5, <1>6, VertexBetween
<1>8. Cross(r, v, l) > 0
  BY <1>4
<1> HIDE DEF r, l, v
<1>9. Cross(l, v, r) = Cross(r, l, v) /\ Cross(l, r, v) = -Cross(r, l, v) /\ Cross(r, v, l) = Cross(l, r, v)
      /\ Cross(r, l, v) \in Int
  <2>1. Cross(l, v, r) = Cross(r, l, v) /\ Cross(r, v, l) = Cross(l, r, v)
    BY <1>5, CrossFacts
  <2>2. Cross(l, r, v) = -Cross(r, l, v) /\ Cross(r, l, v) \in Int
    BY <1>5, CrossFacts
  <2> QED BY <2>1, <2>2
<1> QED
  BY <1>7, <1>8, <1>9

(* Where one rim leads over into the other there is a left turn, unless    *)
(* all points are in line.                                                 *)
LEMMA RimsTurn ==
  ASSUME NEW fw \in BOOLEAN, NEW points, NEW A, NEW B,
         RimOf(fw, points, A), RimOf(~fw, points, B),
         A[Len(A)] = B[1], Len(A) + Len(B) > 4
  PROVE  Cross(A[Len(A) - 1], A[Len(A)], B[2]) > 0
<1> DEFINE t == Len(A)
           s == Len(B)
           a == A[t - 1]
           q == A[t]
           r == B[2]
<1>1. /\ t \in Nat /\ t >= 2 /\ \A k \in 1..t : A[k] \in points /\ A[k] \in Point
      /\ \A p \in points : p \in Point
      /\ \A k, l \in 1..t : k < l => Ahead(fw, A[k], A[l])
      /\ \A k, l, h \in 1..t : k < l /\ l < h => Cross(A[k], A[l], A[h]) > 0
      /\ \A k \in 1..(t - 1) : \A p \in points : Cross(A[k], A[k + 1], p) >= 0
      /\ \A p \in points : p = A[t] \/ Ahead(fw, p, A[t])
  BY RimFacts
<1>2. /\ s \in Nat /\ s >= 2 /\ \A k \in 1..s : B[k] \in points /\ B[k] \in Point
      /\ \A k, l \in 1..s : k < l => Ahead(~fw, B[k], B[l])
      /\ \A k, l, h \in 1..s : k < l /\ l < h => Cross(B[k], B[l], B[h]) > 0
      /\ \A k \in 1..(s - 1) : \A p \in points : Cross(B[k], B[k + 1], p) >= 0
  <2>1. (~fw) \in BOOLEAN
    OBVIOUS
  <2> QED BY <2>1, RimFacts
<1>3. /\ t - 1 \in 1..t /\ t \in 1..t /\ t - 1 \in 1..(t - 1) /\ t - 1 + 1 = t /\ t - 1 < t
      /\ 1 \in 1..s /\ 2 \in 1..s /\ 1 \in 1..(s - 1) /\ 1 + 1 = 2
  BY <1>1, <1>2
<1>4. /\ a \in Point /\ q \in Point /\ r \in Point /\ r \in points
      /\ Ahead(fw, a, q) /\ Ahead(~fw, q, r)
  BY <1>1, <1>2, <1>3
<1>5. \A p \in points : Cross(a, q, p) >= 0 /\ Cross(q, r, p) >= 0
  <2>1. /\ \A p \in points : Cross(A[t - 1], A[t - 1 + 1], p) >= 0
        /\ \A p \in points : Cross(B[1], B[1 + 1], p) >= 0
    BY <1>1, <1>2, <1>3
  <2>2. A[t - 1 + 1] = A[t] /\ B[1 + 1] = B[2] /\ A[t] = B[1]
    BY <1>3
  <2> QED BY <2>1, <2>2
<1>6. Ahead(fw, r, q)
  BY <1>4, AheadFacts
<1>7. t > 2 => \E p \in points : Cross(a, q, p) > 0
  <2> SUFFICES ASSUME t > 2 PROVE Cross(a, q, A[t - 2]) > 0 /\ A[t - 2] \in points
    OBVIOUS
  <2>1. t - 2 \in 1..t /\ t - 2 < t - 1
    BY <1>1
  <2>2. Cross(A[t - 2], a, q) > 0 /\ A[t - 2] \in Point /\ A[t - 2] \in points
    BY <1>1, <1>3, <2>1
  <2>3. Cross(A[t - 2], a, q) = Cross(a, q, A[t - 2])
    <3> HIDE DEF a, q
    <3> QED BY <1>4, <2>2, CrossFacts
  <2> QED BY <2>2, <2>3
<1>8. s > 2 => \E p \in points : Cross(q, r, p) > 0
  <2> SUFFICES ASSUME s > 2 PROVE Cross(q, r, B[3]) > 0 /\ B[3] \in points
    OBVIOUS
  <2>1. 3 \in 1..s /\ 1 < 2 /\ 2 < 3
    BY <1>2
  <2> QED BY <1>2, <1>3, <2>1
<1>9. \E p \in points : Cross(a, q, p) > 0 \/ Cross(q, r, p) > 0
  BY <1>1, <1>2, <1>7, <1>8
<1>10. \A p \in points : p = q \/ Ahead(fw, p, q)
  BY <1>1
<1> HIDE DEF a, q, r, t, s
<1>11. ASSUME NEW p \in points, ~(Cross(a, q, r) > 0)
       PROVE  ~(Cross(a, q, p) > 0) /\ ~(Cross(q, r, p) > 0)
  <2>1. p \in Point
    BY <1>1
  <2>2. CASE p = q
    <3>1. Cross(a, q, p) = 0
      BY <1>4, <2>1, <2>2, CrossFacts
    <3>2. Cross(q, r, p) = 0
      BY <1>4, <2>1, <2>2, CrossFacts
    <3> QED BY <3>1, <3>2
  <2>3. CASE Ahead(fw, p, q)
    <3>1. /\ Cross(a, q, r) = Tilt(a, q, q, r) /\ Tilt(a, q, q, r) = Tilt(r, q, a, q)
          /\ Cross(a, q, p) = Tilt(a, q, q, p) /\ Tilt(a, q, q, p) = Tilt(p, q, a, q)
          /\ Cross(q, r, p) = Tilt(q, r, q, p) /\ Tilt(q, r, q, p) = -Tilt(r, q, q, p)
          /\ Tilt(r, q, q, p) = Tilt(p, q, r, q)
          /\ Tilt(a, q, r, q) = -Tilt(a, q, q, r)
          /\ Tilt(r, q, p, q) = -Tilt(r, q, q, p)
      BY <1>4, <2>1, TiltFacts
    <3>2. /\ Tilt(r, q, a, q) \in Int /\ Tilt(p, q, a, q) \in Int /\ Tilt(p, q, r, q) \in Int
          /\ Tilt(a, q, r, q) \in Int /\ Tilt(r, q, p, q) \in Int
      BY <1>4, <2>1, TiltFacts
    <3>3. /\ Tilt(p, q, a, q) >= 0 /\ Tilt(r, q, p, q) >= 0 /\ Tilt(a, q, r, q) = 0
          /\ Tilt(a, q, r, q) >= 0
      <4>1. Cross(a, q, r) >= 0 /\ Cross(a, q, p) >= 0 /\ Cross(q, r, p) >= 0
        BY <1>4, <1>5
      <4>2. Cross(a, q, r) = 0
        BY <1>11, <3>1, <3>2, <4>1
      <4>3. Tilt(a, q, q, r) = 0 /\ Tilt(a, q, r, q) = 0
        <5>1. Tilt(a, q, q, r) = 0
          BY <3>1, <4>2
        <5>2. Tilt(a, q, r, q) + Tilt(a, q, q, r) = 0
          <6>1. Tilt(a, q, r, q) = -Tilt(a, q, q, r) /\ Tilt(a, q, q, r) \in Int
            BY <1>4, TiltFacts
          <6> QED BY <6>1
        <5> QED BY <3>2, <5>1, <5>2
      <4>4. Tilt(r, q, p, q) >= 0
        <5>1. Cross(q, r, p) = Tilt(r, q, p, q)
          BY <3>1
        <5> QED BY <4>1, <5>1
      <4>5. Tilt(p, q, a, q) >= 0
        BY <3>1, <4>1
      <4> QED BY <4>3, <4>4, <4>5
    <3>4. Tilt(p, q, r, q) >= 0 /\ (Tilt(p, q, a, q) > 0 => Tilt(p, q, r, q) > 0)
      BY <1>4, <1>6, <2>1, <2>3, <3>3, TiltsOrdered
    <3>5. Tilt(p, q, r, q) = 0
      BY <3>1, <3>2, <3>3, <3>4
    <3> QED
      BY <3>1, <3>2, <3>4, <3>5
  <2> QED
    BY <1>10, <2>2, <2>3
<1> QED
  BY <1>9, <1>11 DEF a, q, r, t

(* A loop over all points in ascending order ends with a rim of them. *)
(* A chain is the rim of the points it was made of. *)
IsRim(fw, I, pm, order, points, c) ==
  /\ c \in Seq(I)
  /\ RimOf(fw, points, PointsOf(pm, c))
  /\ PointsOf(pm, c)[1] = pm[order[1]]
  /\ PointsOf(pm, c)[Len(PointsOf(pm, c))] = pm[order[Len(order)]]

LEMMA ChainIsRim ==
  ASSUME NEW fw \in BOOLEAN, NEW I, NEW pm \in [I -> Point], NEW order \in Seq(I),
         Len(order) >= 2, Ascending(fw, PointsOf(pm, order)),
         NEW points, points = {pm[order[i]] : i \in 1..Len(order)}
  PROVE  IsRim(fw, I, pm, order, points, Chain(pm, order))
<1> DEFINE n == Len(order)
           P == PointsOf(pm, order)
           V == PointsOf(pm, Chain(pm, order))
           t == Len(V)
<1>1. /\ Chain(pm, order) \in Seq(I)
      /\ ConvexTo(fw, P, n, V)
  BY ChainConvex
<1>2. /\ P \in Seq(Point) /\ Len(P) = n /\ n \in Nat /\ n >= 2
      /\ \A i \in 1..n : P[i] = pm[order[i]] /\ P[i] \in Point
      /\ 1 \in 1..n /\ n \in 1..n
  <2>1. /\ P \in Seq(Point) /\ Len(P) = n /\ n \in Nat
        /\ \A i \in 1..n : P[i] = pm[order[i]]
    BY PointsOfAre
  <2> HIDE DEF P, n
  <2>2. n >= 2
    BY DEF n
  <2> QED BY <2>1, <2>2
<1>3. \A i, j \in 1..n : i < j => Ahead(fw, P[i], P[j])
  BY <1>2 DEF Ascending
<1>4. points = {P[i] : i \in 1..n}
  <2> HIDE DEF P
  <2>1. \A i \in 1..n : P[i] = pm[order[i]]
    BY <1>2
  <2> QED BY <2>1
<1> HIDE DEF n, P, V
<1>5. /\ V \in Seq(Point) /\ t >= 1 /\ t \in Nat
      /\ V[1] = P[1] /\ V[t] = P[n]
      /\ \A i \in 1..t : \E r \in 1..n : V[i] = P[r]
      /\ \A i, j \in 1..t : i < j => Ahead(fw, V[i], V[j])
      /\ \A i, j, h \in 1..t : i < j /\ j < h => Cross(V[i], V[j], V[h]) > 0
      /\ \A i \in 1..(t - 1), r \in 1..n : Cross(V[i], V[i + 1], P[r]) >= 0
  <2>1. V \in Seq(Point) /\ t >= 1
    BY <1>1, Zenon DEF ConvexTo
  <2>2. t \in Nat
    BY <2>1
  <2>3. V[1] = P[1] /\ V[t] = P[n]
    BY <1>1, Zenon DEF ConvexTo
  <2>4. /\ \A i \in 1..t : \E r \in 1..n : V[i] = P[r]
        /\ \A i, j \in 1..t : i < j => Ahead(fw, V[i], V[j])
        /\ \A i, j, h \in 1..t : i < j /\ j < h => Cross(V[i], V[j], V[h]) > 0
        /\ \A i \in 1..(t - 1), r \in 1..n : Cross(V[i], V[i + 1], P[r]) >= 0
    BY <1>1, Zenon DEF ConvexTo
  <2> QED BY <2>1, <2>2, <2>3, <2>4
<1> HIDE DEF t
<1>6. t >= 2
  <2> SUFFICES ASSUME t = 1 PROVE FALSE
    BY <1>5
  <2>1. P[1] = P[n] /\ 1 < n /\ Ahead(fw, P[1], P[n]) /\ P[1] \in Point
    BY <1>2, <1>3, <1>5
  <2> QED BY <2>1, AheadFacts
<1>7. points \subseteq Point /\ \A i \in 1..t : V[i] \in points
  BY <1>2, <1>4, <1>5
<1>8. \A i \in 1..(t - 1) : \A p \in points : Cross(V[i], V[i + 1], p) >= 0
  BY <1>4, <1>5
<1>9. ASSUME NEW p \in points
      PROVE  /\ p = V[1] \/ Ahead(fw, V[1], p)
             /\ p = V[t] \/ Ahead(fw, p, V[t])
  <2>1. PICK r \in 1..n : p = P[r]
    BY <1>4
  <2>2. (r = 1 \/ 1 < r) /\ (r = n \/ r < n)
    BY <1>2
  <2> QED
    BY <1>2, <1>3, <1>5, <2>1, <2>2
<1>10. RimOf(fw, points, V)
  BY <1>5, <1>6, <1>7, <1>8, <1>9 DEF RimOf, t
<1>11. V[1] = pm[order[1]] /\ V[t] = pm[order[n]]
  BY <1>2, <1>5
<1> QED
  BY <1>1, <1>10, <1>11 DEF IsRim, V, t, n

(* Both chains lose their last point and are joined. *)
LEMMA HullJoins ==
  ASSUME NEW I, NEW l \in Seq(I), NEW u \in Seq(I), Len(l) >= 2, Len(u) >= 2,
         NEW pm, NEW sorted, l = Chain(pm, sorted), u = Chain(pm, Reverse(sorted))
  PROVE  LET h == Hull(pm, sorted) IN
         /\ h \in Seq(I) /\ Len(h) = Len(l) + Len(u) - 2
         /\ \A k \in 1..(Len(l) - 1) : h[k] = l[k]
         /\ \A k \in 1..(Len(u) - 1) : h[Len(l) - 1 + k] = u[k]
<1>1. ASSUME NEW s \in Seq(I), Len(s) >= 2
      PROVE  /\ Front(s) \in Seq(I) /\ Len(Front(s)) = Len(s) - 1
             /\ \A k \in 1..(Len(s) - 1) : Front(s)[k] = s[k]
  <2> DEFINE m == Len(s) - 1
  <2>1. 1 \in Int /\ m \in Int /\ 1 <= m /\ \A k \in 1..m : s[k] \in I
    BY <1>1
  <2>2. Front(s) = SubSeq(s, 1, m)
    BY DEF Front
  <2> HIDE DEF m
  <2>3. /\ SubSeq(s, 1, m) \in Seq(I)
        /\ Len(SubSeq(s, 1, m)) = IF 1 <= m THEN m - 1 + 1 ELSE 0
        /\ \A k \in 1..(m - 1 + 1) : SubSeq(s, 1, m)[k] = s[1 + k - 1]
    BY <2>1, SubSeqProperties
  <2>4. m - 1 + 1 = m /\ \A k \in 1..m : 1 + k - 1 = k
    BY <2>1
  <2>5. Len(SubSeq(s, 1, m)) = m
    BY <2>1, <2>3, <2>4
  <2> QED
    BY <2>2, <2>3, <2>4, <2>5 DEF m
<1> DEFINE a == Front(l)
           b == Front(u)
<1>2. /\ a \in Seq(I) /\ Len(a) = Len(l) - 1 /\ \A k \in 1..(Len(l) - 1) : a[k] = l[k]
      /\ b \in Seq(I) /\ Len(b) = Len(u) - 1 /\ \A k \in 1..(Len(u) - 1) : b[k] = u[k]
      /\ Len(l) \in Nat /\ Len(u) \in Nat
  BY <1>1
<1> HIDE DEF a, b
<1>3. /\ a \o b \in Seq(I)
      /\ Len(a \o b) = Len(a) + Len(b)
      /\ \A i \in 1..(Len(a) + Len(b)) :
           (a \o b)[i] = IF i <= Len(a) THEN a[i] ELSE b[i - Len(a)]
  <2>1. a \in Seq(I) /\ b \in Seq(I)
    BY <1>2
  <2> QED BY ONLY <2>1, ConcatProperties, Zenon
<1>4. Len(a \o b) = Len(l) + Len(u) - 2
  BY <1>2, <1>3
<1>5. ASSUME NEW k \in 1..(Len(l) - 1) PROVE (a \o b)[k] = l[k]
  <2>1. k \in 1..(Len(a) + Len(b)) /\ k <= Len(a)
    BY <1>2
  <2> QED BY <1>2, <1>3, <2>1
<1>6. ASSUME NEW k \in 1..(Len(u) - 1) PROVE (a \o b)[Len(l) - 1 + k] = u[k]
  <2>1. /\ Len(l) - 1 + k \in 1..(Len(a) + Len(b)) /\ ~(Len(l) - 1 + k <= Len(a))
        /\ Len(l) - 1 + k - Len(a) = k
    BY <1>2
  <2> QED BY <1>2, <1>3, <2>1, SMTT(30)
<1> QED
  BY <1>3, <1>4, <1>5, <1>6 DEF a, b, Hull

(* Once around. *)
LEMMA OnceAround ==
  ASSUME NEW n \in Nat, n > 0, NEW k \in 0..(n - 1)
  PROVE  k % n = k /\ (k + n) % n = k
<1>1. k % n = k
  BY SMT
<1>2. (k + n) % n = k
  BY SMT
<1> QED
  BY <1>1, <1>2

(* The vertices of both chains but for the last ones. *)
Joins(pm, hull, L, U) ==
  /\ Len(hull) = Len(L) + Len(U) - 2
  /\ DOMAIN hull = 1..Len(hull)
  /\ \A k \in 1..(Len(L) - 1) : pm[hull[k]] = L[k]
  /\ \A k \in 1..(Len(U) - 1) : pm[hull[Len(L) - 1 + k]] = U[k]

(* The two chains make the hull (convex_hull_2.hpp:7-63). *)
LEMMA HullOfRims ==
  ASSUME NEW points, NEW L, NEW U,
         LowerRim(points, L), UpperRim(points, U),
         L[1] = U[Len(U)], U[1] = L[Len(L)],
         NEW pm, NEW hull, Joins(pm, hull, L, U)
  PROVE  IsHull(pm, hull, points)
<1> DEFINE t == Len(L)
           s == Len(U)
           n == Len(hull)
           H == [k \in 1..n |-> pm[hull[k]]]
           at(i) == pm[hull[((i - 1) % n) + 1]]
           extreme == {p \in points : Extreme(p, points)}
<1>0. /\ RimOf(TRUE, points, L) /\ RimOf(FALSE, points, U)
      /\ DOMAIN hull = 1..n
  BY DEF LowerRim, UpperRim, Joins
<1>1. /\ t \in Nat /\ s \in Nat /\ t >= 2 /\ s >= 2 /\ n = t + s - 2
      /\ n \in Nat /\ n >= 2
  <2>1. t \in Nat /\ t >= 2 /\ s \in Nat /\ s >= 2
    BY <1>0, RimFacts
  <2> QED BY <2>1 DEF Joins
<1>2. /\ \A k \in 1..(t - 1) : H[k] = L[k]
      /\ \A k \in 1..(s - 1) : H[t - 1 + k] = U[k]
  <2>1. /\ \A k \in 1..(t - 1) : k \in 1..n
        /\ \A k \in 1..(s - 1) : t - 1 + k \in 1..n
    <3> HIDE DEF t, s, n
    <3> QED BY <1>1
  <2> QED BY <2>1 DEF Joins
<1>3. \A k \in 1..n : \/ k \in 1..(t - 1)
                      \/ \E j \in 1..(s - 1) : k = t - 1 + j
  <2> SUFFICES ASSUME NEW k \in 1..n, ~(k \in 1..(t - 1))
               PROVE  k - t + 1 \in 1..(s - 1) /\ k = t - 1 + (k - t + 1)
    OBVIOUS
  <2> HIDE DEF t, s, n
  <2> QED BY <1>1
<1>4. L[1] = U[s] /\ U[1] = L[t]
  OBVIOUS
<1>5. /\ \A i \in 1..t : L[i] \in extreme
      /\ \A i \in 1..s : U[i] \in extreme
  <2>1. \A i \in 1..t : L[i] \in points /\ Extreme(L[i], points)
    BY <1>0, RimExtreme
  <2>2. \A i \in 1..s : U[i] \in points /\ Extreme(U[i], points)
    BY <1>0, RimExtreme
  <2> QED BY <2>1, <2>2
<1>6. \A p \in extreme : (\E i \in 1..t : L[i] = p) \/ (\E j \in 1..s : U[j] = p)
  <2> SUFFICES ASSUME NEW p \in extreme
               PROVE  (\E i \in 1..t : L[i] = p) \/ (\E j \in 1..s : U[j] = p)
    OBVIOUS
  <2>1. p \in points /\ Extreme(p, points)
    OBVIOUS
  <2> HIDE DEF extreme
  <2> QED BY <2>1, ExtremeOnRim
<1>7. \A i \in 1..(t - 1), j \in 1..(s - 1) : L[i] # U[j]
  <2> SUFFICES ASSUME NEW i \in 1..(t - 1), NEW j \in 1..(s - 1) PROVE L[i] # U[j]
    OBVIOUS
  <2> QED BY RimsApart
<1>8. /\ \A i, j \in 1..t : i < j => L[i] # L[j]
      /\ \A i, j \in 1..s : i < j => U[i] # U[j]
  <2>1. ASSUME NEW i \in 1..t, NEW j \in 1..t, i < j PROVE L[i] # L[j]
    <3>1. Ahead(TRUE, L[i], L[j]) /\ L[i] \in Point /\ L[j] \in Point
      BY <1>0, <2>1, RimFacts
    <3> QED BY <3>1, AheadFacts
  <2>2. ASSUME NEW i \in 1..s, NEW j \in 1..s, i < j PROVE U[i] # U[j]
    <3>1. Ahead(FALSE, U[i], U[j]) /\ U[i] \in Point /\ U[j] \in Point
      BY <1>0, <2>2, RimFacts
    <3> QED BY <3>1, AheadFacts
  <2> QED BY <2>1, <2>2
<1>9. /\ \A i, j, h \in 1..t : i < j /\ j < h => Cross(L[i], L[j], L[h]) > 0
      /\ \A i, j, h \in 1..s : i < j /\ j < h => Cross(U[i], U[j], U[h]) > 0
  <2>1. \A i, j, h \in 1..t : i < j /\ j < h => Cross(L[i], L[j], L[h]) > 0
    BY <1>0, RimFacts
  <2>2. \A i, j, h \in 1..s : i < j /\ j < h => Cross(U[i], U[j], U[h]) > 0
    BY <1>0, RimFacts
  <2> QED BY <2>1, <2>2
<1>10. t + s > 4 => /\ Cross(L[t - 1], L[t], U[2]) > 0
                    /\ Cross(U[s - 1], U[s], L[2]) > 0
  <2> SUFFICES ASSUME t + s > 4
               PROVE  Cross(L[t - 1], L[t], U[2]) > 0 /\ Cross(U[s - 1], U[s], L[2]) > 0
    OBVIOUS
  <2>1. ~TRUE <=> FALSE
    OBVIOUS
  <2>2. RimOf(~TRUE, points, U) /\ RimOf(~FALSE, points, L)
    BY <1>0
  <2>3. Cross(L[t - 1], L[t], U[2]) > 0
    BY <1>0, <2>2, RimsTurn
  <2>4. s + t > 4
    BY <1>1
  <2>5. Cross(U[s - 1], U[s], L[2]) > 0
    BY <1>0, <2>2, <2>4, RimsTurn
  <2> QED BY <2>3, <2>5
<1>11. H \in [1..n -> extreme]
  <2> SUFFICES ASSUME NEW k \in 1..n PROVE H[k] \in extreme
    OBVIOUS
  <2> HIDE DEF t, s, n, H, extreme
  <2>1. CASE k \in 1..(t - 1)
    <3>1. k \in 1..t
      BY <1>1, <2>1
    <3> QED BY <1>2, <1>5, <2>1, <3>1
  <2>2. CASE \E j \in 1..(s - 1) : k = t - 1 + j
    <3>1. PICK j \in 1..(s - 1) : k = t - 1 + j
      BY <2>2
    <3>2. j \in 1..s
      BY <1>1
    <3> QED BY <1>2, <1>5, <3>1, <3>2
  <2> QED BY <1>3, <2>1, <2>2
<1>12. \A p \in extreme : \E k \in 1..n : H[k] = p
  <2> SUFFICES ASSUME NEW p \in extreme PROVE \E k \in 1..n : H[k] = p
    OBVIOUS
  <2>1. (\E i \in 1..t : L[i] = p) \/ (\E j \in 1..s : U[j] = p)
    BY <1>6
  <2> HIDE DEF t, s, n, H, extreme
  <2>2. ASSUME NEW j \in 1..(s - 1), U[j] = p PROVE \E k \in 1..n : H[k] = p
    <3>1. t - 1 + j \in 1..n
      BY <1>1
    <3> QED BY <1>2, <2>2, <3>1
  <2>3. ASSUME NEW i \in 1..(t - 1), L[i] = p PROVE \E k \in 1..n : H[k] = p
    <3>1. i \in 1..n
      BY <1>1
    <3> QED BY <1>2, <2>3, <3>1
  <2>4. /\ \A i \in 1..t : i \in 1..(t - 1) \/ i = t
        /\ \A j \in 1..s : j \in 1..(s - 1) \/ j = s
        /\ 1 \in 1..(t - 1) /\ 1 \in 1..(s - 1)
    BY <1>1
  <2>5. (\E i \in 1..(t - 1) : L[i] = p) \/ (\E j \in 1..(s - 1) : U[j] = p)
    BY <1>4, <2>1, <2>4
  <2> QED BY <2>2, <2>3, <2>5
<1>13. \A k, m \in 1..n : k < m => H[k] # H[m]
  <2> SUFFICES ASSUME NEW k \in 1..n, NEW m \in 1..n, k < m PROVE H[k] # H[m]
    OBVIOUS
  <2> HIDE DEF t, s, n, H, extreme
  <2>1. CASE k \in 1..(t - 1) /\ m \in 1..(t - 1)
    <3>1. k \in 1..t /\ m \in 1..t
      BY <1>1, <2>1
    <3> QED BY <1>2, <1>8, <2>1, <3>1
  <2>2. CASE k \in 1..(t - 1) /\ \E j \in 1..(s - 1) : m = t - 1 + j
    BY <1>2, <1>7, <2>2
  <2>3. CASE (\E i \in 1..(s - 1) : k = t - 1 + i) /\ (\E j \in 1..(s - 1) : m = t - 1 + j)
    <3>1. PICK i \in 1..(s - 1), j \in 1..(s - 1) : k = t - 1 + i /\ m = t - 1 + j
      BY <2>3
    <3>2. i < j /\ i \in 1..s /\ j \in 1..s
      BY <1>1, <3>1
    <3> QED BY <1>2, <1>8, <3>1, <3>2
  <2>4. CASE (\E i \in 1..(s - 1) : k = t - 1 + i) /\ m \in 1..(t - 1)
    <3>1. FALSE
      BY <1>1, <2>4
    <3> QED BY <3>1
  <2> QED BY <1>3, <2>1, <2>2, <2>3, <2>4
<1>14. Cardinality(extreme) = n
  <2>1. IsFiniteSet(1..n) /\ Cardinality(1..n) = n
    BY <1>1, UpTo
  <2>2. H \in Bijection(1..n, extreme)
    <3> DEFINE D == 1..n
    <3>1. \A k, m \in D : H[k] = H[m] => k = m
      <4> SUFFICES ASSUME NEW k \in D, NEW m \in D, H[k] = H[m], k # m PROVE FALSE
        OBVIOUS
      <4>1. k < m \/ m < k
        BY <1>1
      <4> HIDE DEF H
      <4> QED BY <1>13, <4>1
    <3>2. H \in [D -> extreme] /\ \A p \in extreme : \E k \in D : H[k] = p
      BY <1>11, <1>12
    <3> HIDE DEF H, extreme, D
    <3>3. H \in Bijection(D, extreme)
      BY <3>1, <3>2 DEF Bijection, Injection, Surjection, IsInjective
    <3> QED BY <3>3 DEF D
  <2> HIDE DEF H, extreme, n
  <2> QED
    BY <2>1, <2>2, FS_Bijection DEF ExistsBijection
<1>15. {pm[hull[i]] : i \in DOMAIN hull} = extreme
  <2>1. \A k \in 1..n : H[k] = pm[hull[k]]
    OBVIOUS
  <2>2. DOMAIN hull = 1..n
    BY <1>0
  <2> HIDE DEF H, extreme, n
  <2>3. {pm[hull[i]] : i \in DOMAIN hull} = {H[k] : k \in 1..n}
    <3>1. \A p : (\E i \in DOMAIN hull : p = pm[hull[i]]) <=> (\E k \in 1..n : p = H[k])
      BY <2>1, <2>2
    <3> QED BY <3>1, Zenon
  <2>4. {H[k] : k \in 1..n} = extreme
    BY <1>11, <1>12
  <2> QED BY <2>3, <2>4
(* Around the hull, with the first two vertices once more behind the last. *)
<1>16. /\ \A i \in 1..t : at(i) = L[i]
       /\ \A j \in 1..s : at(t - 1 + j) = U[j]
       /\ at(n + 2) = L[2]
  <2>1. ASSUME NEW i \in 1..n PROVE at(i) = H[i] /\ at(i + n) = H[i]
    <3>1. i - 1 \in 0..(n - 1) /\ n > 0 /\ i + n - 1 = i - 1 + n
      BY <1>1
    <3>2. (i - 1) % n = i - 1 /\ (i - 1 + n) % n = i - 1
      BY <1>1, <3>1, OnceAround
    <3>3. ((i - 1) % n) + 1 = i /\ ((i + n - 1) % n) + 1 = i
      BY <3>1, <3>2
    <3> QED BY <3>3
  <2> HIDE DEF t, s, n, H, at
  <2>2. /\ 1 \in 1..n /\ 2 \in 1..n /\ t \in 1..n /\ t = t - 1 + 1
        /\ 1 \in 1..(t - 1) /\ 1 \in 1..(s - 1)
        /\ t - 1 + s = 1 + n /\ n + 2 = 2 + n
        /\ t = 2 \/ 2 \in 1..(t - 1)
    BY <1>1
  <2>3. at(t) = L[t] /\ H[t] = L[t]
    BY <1>2, <1>4, <2>1, <2>2
  <2>4. ASSUME NEW i \in 1..t PROVE at(i) = L[i]
    <3>1. CASE i = t
      BY <2>3, <3>1
    <3>2. CASE i # t
      <4>1. i \in 1..(t - 1) /\ i \in 1..n
        BY <1>1, <3>2
      <4> QED BY <1>2, <2>1, <4>1
    <3> QED BY <3>1, <3>2
  <2>5. ASSUME NEW j \in 1..s PROVE at(t - 1 + j) = U[j]
    <3>1. CASE j = s
      <4>1. at(1 + n) = H[1] /\ H[1] = L[1]
        BY <1>2, <2>1, <2>2
      <4> QED BY <1>4, <2>2, <3>1, <4>1
    <3>2. CASE j # s
      <4>1. j \in 1..(s - 1) /\ t - 1 + j \in 1..n
        BY <1>1, <3>2
      <4> QED BY <1>2, <2>1, <4>1
    <3> QED BY <3>1, <3>2
  <2>6. at(n + 2) = L[2]
    <3>1. at(2 + n) = H[2]
      BY <2>1, <2>2
    <3>2. H[2] = L[2]
      BY <1>2, <2>2, <2>3
    <3> QED BY <2>2, <3>1, <3>2
  <2> QED BY <2>4, <2>5, <2>6
<1>17. ASSUME n > 2, NEW i \in 1..n
       PROVE  Cross(at(i), at(i + 1), at(i + 2)) > 0
  <2> HIDE DEF t, s, n, H, at
  <2>1. t + s > 4
    BY <1>1, <1>17
  <2>2. CASE i + 2 <= t
    <3>1. /\ i \in 1..t /\ i + 1 \in 1..t /\ i + 2 \in 1..t /\ i < i + 1 /\ i + 1 < i + 2
      BY <1>1, <2>2
    <3> QED BY <1>9, <1>16, <3>1
  <2>3. CASE i + 1 = t
    <3>1. i = t - 1 /\ i \in 1..t /\ t \in 1..t /\ 2 \in 1..s /\ i + 2 = t - 1 + 2
      BY <1>1, <2>3
    <3>2. at(i) = L[t - 1] /\ at(i + 1) = L[t] /\ at(i + 2) = U[2]
      BY <1>16, <2>3, <3>1
    <3> QED BY <1>10, <2>1, <3>2
  <2>4. CASE t <= i /\ i < n
    <3> DEFINE j == i - t + 1
    <3>1. /\ j \in 1..s /\ j + 1 \in 1..s /\ j + 2 \in 1..s /\ j < j + 1 /\ j + 1 < j + 2
          /\ i = t - 1 + j /\ i + 1 = t - 1 + (j + 1) /\ i + 2 = t - 1 + (j + 2)
      BY <1>1, <2>4
    <3> HIDE DEF j
    <3>2. /\ at(t - 1 + j) = U[j] /\ at(t - 1 + (j + 1)) = U[j + 1]
          /\ at(t - 1 + (j + 2)) = U[j + 2]
      BY <1>16, <3>1
    <3>3. Cross(U[j], U[j + 1], U[j + 2]) > 0
      BY <1>9, <3>1
    <3> QED BY <3>1, <3>2, <3>3
  <2>5. CASE i = n
    <3>1. s - 1 \in 1..s /\ s \in 1..s /\ n = t - 1 + (s - 1) /\ n + 1 = t - 1 + s
      BY <1>1
    <3>2. at(n) = U[s - 1] /\ at(n + 1) = U[s] /\ at(n + 2) = L[2]
      BY <1>16, <3>1
    <3> QED BY <1>10, <2>1, <2>5, <3>2
  <2>6. i + 2 <= t \/ i + 1 = t \/ (t <= i /\ i < n) \/ i = n
    BY <1>1
  <2> QED BY <2>2, <2>3, <2>4, <2>5, <2>6
<1>18. n > 2 => \A i \in 1..n : Cross(at(i), at(i + 1), at(i + 2)) > 0
  BY <1>17
<1> QED
  BY <1>14, <1>15, <1>18 DEF IsHull

(* Of points sorted and without repetitions, two different at least, the   *)
(* result is the convex hull (convex_hull_2.hpp:7-63).                     *)
LEMMA HullOfSorted ==
  ASSUME NEW I, NEW pm \in [I -> Point], NEW sorted \in Seq(I), IsSortedUnique(sorted, pm),
         NEW points, points = {pm[i] : i \in DOMAIN pm},
         Cardinality(points) > 1
  PROVE  IsHull(pm, Hull(pm, sorted), points)
<1> DEFINE n == Len(sorted)
           back == Reverse(sorted)
           l == Chain(pm, sorted)
           u == Chain(pm, back)
           L == PointsOf(pm, l)
           U == PointsOf(pm, u)
<1>1. /\ n \in Nat /\ DOMAIN sorted = 1..n /\ \A i \in 1..n : sorted[i] \in I
      /\ \A i \in 1..n : pm[sorted[i]] \in Point
  OBVIOUS
<1>2. /\ \A i, j \in 1..n : i < j => Less(pm[sorted[i]], pm[sorted[j]])
      /\ points = {pm[sorted[i]] : i \in 1..n}
  BY <1>1 DEF IsSortedUnique
<1>3. n >= 2
  <2> SUFFICES ASSUME n = 0 \/ n = 1 PROVE FALSE
    BY <1>1
  <2>1. CASE n = 0
    <3>1. points = {}
      BY <1>2, <2>1
    <3>2. Cardinality(points) = 0
      BY <3>1, FS_EmptySet, Zenon
    <3> QED BY <3>2
  <2>2. CASE n = 1
    <3>1. points = {pm[sorted[1]]}
      <4>1. 1..n = {1}
        BY <1>1, <2>2
      <4> HIDE DEF n
      <4> QED BY <1>2, <4>1
    <3>2. Cardinality(points) = 1
      BY <3>1, FS_Singleton, Zenon
    <3> QED BY <3>2
  <2> QED BY <2>1, <2>2
<1>4. /\ back \in Seq(I) /\ Len(back) = n
      /\ \A i \in 1..n : back[i] = sorted[n - i + 1] /\ n - i + 1 \in 1..n
  BY <1>1 DEF Reverse
<1> HIDE DEF n, back
<1>5. Ascending(TRUE, PointsOf(pm, sorted))
  <2> DEFINE P == PointsOf(pm, sorted)
  <2>1. P \in Seq(Point) /\ Len(P) = n /\ \A i \in 1..n : P[i] = pm[sorted[i]]
    BY PointsOfAre DEF n
  <2> HIDE DEF P
  <2>2. \A i, j \in 1..n : i < j => Ahead(TRUE, P[i], P[j])
    BY <1>2, <2>1 DEF Ahead
  <2>3. Ascending(TRUE, P)
    BY <2>1, <2>2 DEF Ascending
  <2> QED BY <2>3 DEF P
<1>6. Ascending(FALSE, PointsOf(pm, back))
  <2> DEFINE P == PointsOf(pm, back)
  <2>1. P \in Seq(Point) /\ Len(P) = n /\ \A i \in 1..n : P[i] = pm[back[i]]
    BY <1>4, PointsOfAre, SMTT(30)
  <2> HIDE DEF P
  <2>2. ASSUME NEW i \in 1..n, NEW j \in 1..n, i < j PROVE Ahead(FALSE, P[i], P[j])
    <3>1. n - j + 1 \in 1..n /\ n - i + 1 \in 1..n /\ n - j + 1 < n - i + 1
      BY <1>1, <2>2
    <3>2. Less(pm[sorted[n - j + 1]], pm[sorted[n - i + 1]])
      BY <1>2, <3>1
    <3> QED BY <1>4, <2>1, <3>2 DEF Ahead
  <2>3. Ascending(FALSE, P)
    BY <2>1, <2>2 DEF Ascending
  <2> QED BY <2>3 DEF P
<1>7. points = {pm[back[i]] : i \in 1..n}
  <2>1. \A i \in 1..n : /\ n - i + 1 \in 1..n
                        /\ pm[sorted[i]] = pm[back[n - i + 1]]
                        /\ pm[back[i]] = pm[sorted[n - i + 1]]
    <3> SUFFICES ASSUME NEW i \in 1..n
                 PROVE  /\ n - i + 1 \in 1..n
                        /\ pm[sorted[i]] = pm[back[n - i + 1]]
                        /\ pm[back[i]] = pm[sorted[n - i + 1]]
      OBVIOUS
    <3>1. n - i + 1 \in 1..n /\ n - (n - i + 1) + 1 = i
      BY <1>1
    <3> QED BY <1>4, <3>1
  <2>2. \A p : (\E i \in 1..n : p = pm[sorted[i]]) <=> (\E i \in 1..n : p = pm[back[i]])
    <3>1. ASSUME NEW i \in 1..n PROVE \E j \in 1..n : pm[sorted[i]] = pm[back[j]]
      BY <2>1
    <3>2. ASSUME NEW i \in 1..n PROVE \E j \in 1..n : pm[back[i]] = pm[sorted[j]]
      BY <2>1
    <3>3. ASSUME NEW p, NEW i \in 1..n, p = pm[sorted[i]] PROVE \E j \in 1..n : p = pm[back[j]]
      BY <3>1, <3>3
    <3>4. ASSUME NEW p, NEW i \in 1..n, p = pm[back[i]] PROVE \E j \in 1..n : p = pm[sorted[j]]
      BY <3>2, <3>4
    <3> QED BY <3>3, <3>4
  <2> QED BY <1>2, <2>2, Zenon
<1>8. /\ l \in Seq(I) /\ RimOf(TRUE, points, L)
      /\ L[1] = pm[sorted[1]] /\ L[Len(L)] = pm[sorted[n]]
  <2>1. /\ sorted \in Seq(I) /\ Len(sorted) >= 2
        /\ points = {pm[sorted[i]] : i \in 1..Len(sorted)}
    BY <1>1, <1>2, <1>3 DEF n
  <2>2. IsRim(TRUE, I, pm, sorted, points, Chain(pm, sorted))
    BY <1>5, <2>1, ChainIsRim
  <2> QED BY <2>2 DEF IsRim, n
<1>9. /\ u \in Seq(I) /\ RimOf(FALSE, points, U)
      /\ U[1] = pm[back[1]] /\ U[Len(U)] = pm[back[n]]
  <2>1. /\ back \in Seq(I) /\ Len(back) >= 2 /\ points = {pm[back[i]] : i \in 1..Len(back)}
    BY <1>3, <1>4, <1>7
  <2>2. IsRim(FALSE, I, pm, back, points, Chain(pm, back))
    BY <1>6, <2>1, ChainIsRim
  <2> QED BY <1>4, <2>2 DEF IsRim
<1>10. /\ Len(L) = Len(l) /\ Len(l) \in Nat /\ Len(l) >= 2 /\ \A k \in 1..Len(l) : L[k] = pm[l[k]]
       /\ Len(U) = Len(u) /\ Len(u) \in Nat /\ Len(u) >= 2 /\ \A k \in 1..Len(u) : U[k] = pm[u[k]]
  <2>1. /\ Len(L) = Len(l) /\ Len(l) \in Nat /\ \A k \in 1..Len(l) : L[k] = pm[l[k]]
    BY <1>8, PointsOfAre
  <2>2. /\ Len(U) = Len(u) /\ Len(u) \in Nat /\ \A k \in 1..Len(u) : U[k] = pm[u[k]]
    BY <1>9, PointsOfAre
  <2>3. Len(L) >= 2
    BY <1>8, RimFacts
  <2>4. Len(U) >= 2
    BY <1>9, RimFacts
  <2> QED BY <2>1, <2>2, <2>3, <2>4
<1> DEFINE hull == Hull(pm, sorted)
<1>11. l = Chain(pm, sorted) /\ u = Chain(pm, Reverse(sorted))
  BY DEF back
<1> HIDE DEF l, u, L, U
<1>12. /\ hull \in Seq(I) /\ Len(hull) = Len(l) + Len(u) - 2
       /\ \A k \in 1..(Len(l) - 1) : hull[k] = l[k]
       /\ \A k \in 1..(Len(u) - 1) : hull[Len(l) - 1 + k] = u[k]
  <2>1. l \in Seq(I) /\ u \in Seq(I) /\ Len(l) >= 2 /\ Len(u) >= 2
    BY <1>8, <1>9, <1>10
  <2> HIDE DEF hull
  <2>2. hull \in Seq(I)
    BY ONLY <1>11, <2>1, HullJoins DEF hull
  <2>3. Len(hull) = Len(l) + Len(u) - 2
    BY ONLY <1>11, <2>1, HullJoins DEF hull
  <2>4. \A k \in 1..(Len(l) - 1) : hull[k] = l[k]
    BY ONLY <1>11, <2>1, HullJoins DEF hull
  <2>5. \A k \in 1..(Len(u) - 1) : hull[Len(l) - 1 + k] = u[k]
    BY ONLY <1>11, <2>1, HullJoins DEF hull
  <2> QED BY <2>2, <2>3, <2>4, <2>5
<1> HIDE DEF hull
<1>13. /\ Len(hull) = Len(L) + Len(U) - 2
       /\ DOMAIN hull = 1..Len(hull)
       /\ \A k \in 1..(Len(L) - 1) : pm[hull[k]] = L[k]
       /\ \A k \in 1..(Len(U) - 1) : pm[hull[Len(L) - 1 + k]] = U[k]
  <2>1. \A k \in 1..(Len(l) - 1) : k \in 1..Len(l)
    BY <1>10
  <2>2. \A k \in 1..(Len(u) - 1) : k \in 1..Len(u)
    BY <1>10
  <2>3. Len(hull) = Len(L) + Len(U) - 2
    BY ONLY <1>10, <1>12
  <2>4. DOMAIN hull = 1..Len(hull)
    BY ONLY <1>12
  <2>5. \A k \in 1..(Len(L) - 1) : pm[hull[k]] = L[k]
    BY ONLY <1>10, <1>12, <2>1
  <2>6. \A k \in 1..(Len(U) - 1) : pm[hull[Len(L) - 1 + k]] = U[k]
    BY ONLY <1>10, <1>12, <2>2
  <2> QED BY ONLY <2>3, <2>4, <2>5, <2>6
<1>14. L[1] = U[Len(U)] /\ U[1] = L[Len(L)]
  <2>1. n - 1 + 1 = n /\ n - n + 1 = 1 /\ 1 \in 1..n /\ n \in 1..n
    BY <1>1, <1>3
  <2>2. back[1] = sorted[n] /\ back[n] = sorted[1]
    BY <1>4, <2>1
  <2> QED BY <1>8, <1>9, <2>2
<1>15. LowerRim(points, L) /\ UpperRim(points, U)
  BY <1>8, <1>9 DEF LowerRim, UpperRim
<1>16. IsHull(pm, hull, points)
  <2>1. Joins(pm, hull, L, U)
    BY <1>13 DEF Joins
  <2> QED BY ONLY <1>14, <1>15, <2>1, HullOfRims
<1> QED
  BY <1>16 DEF hull

-----------------------------------------------------------------------------
(* Cycle slips *)

(* What the loops of factorial() and arrangement() compute. *)
ProductsTo(n, factor, f) ==
  /\ f[0] = 1
  /\ \A i \in 1..n : f[i] = f[i - 1] * factor[i]

LEMMA ProductsOfLoop ==
  ASSUME NEW n \in Nat, NEW factor \in [1..n -> Int]
  PROVE  \E f : /\ ProductsTo(n, factor, f) /\ f \in [0..n -> Int]
                /\ Product(n, factor) = f[n]
<1> DEFINE Unfold(g, i) == IF i = 0 THEN 1 ELSE g[i - 1] * factor[i]
           Solves(g) == g = [i \in 0..n |-> Unfold(g, i)]
           step == [i \in 1..n |-> [r \in Int |-> r * factor[i]]]
<1>1. 1 \in Int /\ step \in [1..n -> [Int -> Int]]
  OBVIOUS
<1>2. PICK f \in [0..n -> Int] : Recursion(n, 1, step, f)
  <2> HIDE DEF step
  <2> QED BY ONLY n \in Nat, <1>1, RecursionExists
<1>3. f[0] = 1 /\ \A i \in 1..n : f[i] = f[i - 1] * factor[i]
  <2>1. \A i \in 1..n : f[i - 1] \in Int
    OBVIOUS
  <2> QED BY <1>2, <2>1 DEF Recursion
<1>4. Solves(f)
  <2>1. \A i \in 0..n : f[i] = Unfold(f, i)
    BY <1>3
  <2>2. f = [i \in 0..n |-> f[i]]
    OBVIOUS
  <2> HIDE DEF Unfold
  <2> QED BY <2>1, <2>2
<1> DEFINE p == CHOOSE g : Solves(g)
<1>5. Product(n, factor) = p[n]
  BY DEF Product
<1>6. Solves(p)
  BY <1>4
<1> HIDE DEF p
<1>7. \A i \in 0..n : p[i] = Unfold(p, i)
  BY <1>6
<1>8. ProductsTo(n, factor, p)
  BY <1>7 DEF ProductsTo
<1>9. p \in [0..n -> Int]
  <2> DEFINE S == {i \in 0..n : p[i] \in Int}
  <2>1. 0 \in S
    BY <1>8 DEF ProductsTo
  <2>2. \A i \in 1..n : i - 1 \in S => i \in S
    BY <1>8 DEF ProductsTo
  <2> HIDE DEF S
  <2>3. \A i \in 0..n : i \in S
    BY <2>1, <2>2, UpwardsTo
  <2>4. \A i \in 0..n : p[i] \in Int
    BY <2>3 DEF S
  <2>5. p = [i \in 0..n |-> p[i]]
    BY <1>6, <1>7
  <2> QED BY <2>4, <2>5
<1> QED
  BY <1>5, <1>8, <1>9

(* Loops over the same factors agree. *)
LEMMA ProductsAgree ==
  ASSUME NEW n \in Nat, NEW m \in 0..n, NEW f, NEW g, NEW a, NEW b,
         ProductsTo(n, a, f), ProductsTo(m, b, g), \A i \in 1..m : a[i] = b[i]
  PROVE  f[m] = g[m]
<1> DEFINE S == {i \in 0..m : f[i] = g[i]}
<1>1. 0 \in S
  BY DEF ProductsTo
<1>2. \A i \in 1..m : i - 1 \in S => i \in S
  BY DEF ProductsTo
<1> HIDE DEF S
<1>3. \A i \in 0..m : i \in S
  BY <1>1, <1>2, UpwardsTo
<1> QED
  BY <1>3 DEF S

LEMMA ProductGrows ==
  ASSUME NEW n \in Nat \ {0}, NEW a \in [1..n -> Int], NEW b \in [1..(n - 1) -> Int],
         \A i \in 1..(n - 1) : a[i] = b[i]
  PROVE  /\ Product(n, a) = Product(n - 1, b) * a[n]
         /\ Product(n, a) \in Int /\ Product(n - 1, b) \in Int
<1>1. n \in Nat /\ n - 1 \in Nat /\ n - 1 \in 0..n /\ n \in 1..n
  OBVIOUS
<1>2. PICK f : ProductsTo(n, a, f) /\ f \in [0..n -> Int] /\ Product(n, a) = f[n]
  BY <1>1, ProductsOfLoop
<1>3. PICK g : ProductsTo(n - 1, b, g) /\ g \in [0..(n - 1) -> Int] /\ Product(n - 1, b) = g[n - 1]
  BY <1>1, ProductsOfLoop
<1>4. f[n - 1] = g[n - 1]
  <2>1. ProductsTo(n, a, f) /\ ProductsTo(n - 1, b, g) /\ \A i \in 1..(n - 1) : a[i] = b[i]
    BY <1>2, <1>3
  <2> DEFINE m == n - 1
  <2>2. m \in 0..n /\ ProductsTo(m, b, g) /\ \A i \in 1..m : a[i] = b[i]
    BY <1>1, <2>1
  <2>3. f[m] = g[m]
    <3> HIDE DEF m
    <3> QED BY ONLY <1>1, <2>1, <2>2, ProductsAgree
  <2> QED BY <2>3
<1>5. f[n] = f[n - 1] * a[n]
  BY <1>1, <1>2 DEF ProductsTo
<1> QED
  BY <1>1, <1>2, <1>3, <1>4, <1>5

LEMMA ProductOfNone ==
  ASSUME NEW a \in [1..0 -> Int]
  PROVE  Product(0, a) = 1
<1>1. 0 \in Nat
  OBVIOUS
<1>2. PICK f : ProductsTo(0, a, f) /\ f \in [0..0 -> Int] /\ Product(0, a) = f[0]
  BY <1>1, ProductsOfLoop
<1> QED
  BY <1>2 DEF ProductsTo

(* factorial() (math.cpp:68-74) *)
LEMMA FactorialGrows ==
  ASSUME NEW n \in Nat \ {0}
  PROVE  /\ Factorial(n) = n * Factorial(n - 1)
         /\ Factorial(n) \in Int /\ Factorial(n - 1) \in Int
<1> DEFINE a == [i \in 1..n |-> i]
           b == [i \in 1..(n - 1) |-> i]
<1>1. /\ a \in [1..n -> Int] /\ b \in [1..(n - 1) -> Int] /\ a[n] = n
      /\ \A i \in 1..(n - 1) : a[i] = b[i]
  OBVIOUS
<1>2. Factorial(n) = Product(n, a) /\ Factorial(n - 1) = Product(n - 1, b)
  BY DEF Factorial
<1> HIDE DEF a, b
<1>3. /\ Product(n, a) = Product(n - 1, b) * a[n]
      /\ Product(n, a) \in Int /\ Product(n - 1, b) \in Int
  BY <1>1, ProductGrows
<1> QED
  BY <1>1, <1>2, <1>3

LEMMA FactorialIs ==
  ASSUME NEW n \in Nat
  PROVE  Factorial(n) \in Nat /\ Factorial(n) > 0 /\ Factorial(0) = 1
<1> DEFINE S == {i \in 0..n : Factorial(i) \in Nat /\ Factorial(i) > 0}
<1>1. Factorial(0) = 1
  <2> DEFINE a == [i \in 1..0 |-> i]
  <2>1. a \in [1..0 -> Int]
    OBVIOUS
  <2>2. Factorial(0) = Product(0, a)
    BY DEF Factorial
  <2> HIDE DEF a
  <2> QED BY <2>1, <2>2, ProductOfNone
<1>2. 0 \in S
  BY <1>1
<1>3. ASSUME NEW i \in 1..n, i - 1 \in S PROVE i \in S
  <2>1. Factorial(i) = i * Factorial(i - 1) /\ i \in Nat \ {0}
    BY FactorialGrows
  <2>2. Factorial(i - 1) \in Nat /\ Factorial(i - 1) > 0
    BY <1>3
  <2>3. Factorial(i) \in Nat /\ Factorial(i) > 0
    BY <2>1, <2>2
  <2> QED BY <2>3
<1> HIDE DEF S
<1>4. \A i \in 0..n : i \in S
  BY <1>2, <1>3, UpwardsTo
<1> QED
  BY <1>1, <1>4 DEF S

(* arrangement() (math.cpp:76-84) *)
LEMMA ArrangementIs ==
  ASSUME NEW n \in Int, NEW m \in Nat
  PROVE  /\ Arrangement(n, m) \in Int
         /\ m = 0 => Arrangement(n, m) = 1
         /\ m > 0 => /\ Arrangement(n, m - 1) \in Int
                     /\ Arrangement(n, m) = Arrangement(n, m - 1) * (n - m + 1)
<1>1. CASE m = 0
  <2> DEFINE a == [i \in 1..0 |-> n - i + 1]
  <2>1. a \in [1..0 -> Int]
    OBVIOUS
  <2>2. Arrangement(n, m) = Product(0, a)
    BY <1>1 DEF Arrangement
  <2> HIDE DEF a
  <2>3. Arrangement(n, m) = 1
    BY <2>1, <2>2, ProductOfNone
  <2> QED BY <1>1, <2>3
<1>2. CASE m > 0
  <2> DEFINE a == [i \in 1..m |-> n - i + 1]
             b == [i \in 1..(m - 1) |-> n - i + 1]
  <2>1. /\ a \in [1..m -> Int] /\ b \in [1..(m - 1) -> Int] /\ a[m] = n - m + 1
        /\ \A i \in 1..(m - 1) : a[i] = b[i]
        /\ m \in Nat \ {0}
    BY <1>2
  <2>2. Arrangement(n, m) = Product(m, a) /\ Arrangement(n, m - 1) = Product(m - 1, b)
    BY DEF Arrangement
  <2> HIDE DEF a, b
  <2>3. /\ Product(m, a) = Product(m - 1, b) * a[m]
        /\ Product(m, a) \in Int /\ Product(m - 1, b) \in Int
    BY <2>1, ProductGrows
  <2> QED
    BY <1>2, <2>1, <2>2, <2>3
<1> QED
  BY <1>1, <1>2

LEMMA ArrangementOfLess ==
  ASSUME NEW n \in Int, NEW m \in Nat \ {0}
  PROVE  Arrangement(n, m) = n * Arrangement(n - 1, m - 1)
<1> DEFINE S == {i \in 0..(m - 1) : Arrangement(n, i + 1) = n * Arrangement(n - 1, i)}
<1>1. n - 1 \in Int /\ m - 1 \in Nat /\ 0 \in Nat /\ 1 \in Nat
  OBVIOUS
<1>2. 0 \in S
  <2>1. Arrangement(n, 0) = 1 /\ Arrangement(n - 1, 0) = 1
    BY <1>1, ArrangementIs
  <2>2. Arrangement(n, 1) = Arrangement(n, 1 - 1) * (n - 1 + 1)
    BY <1>1, ArrangementIs
  <2> QED BY <2>1, <2>2
<1>3. ASSUME NEW i \in 1..(m - 1), i - 1 \in S PROVE i \in S
  <2>1. /\ Arrangement(n, i + 1) = Arrangement(n, (i + 1) - 1) * (n - (i + 1) + 1)
        /\ Arrangement(n, (i + 1) - 1) \in Int
    BY ArrangementIs
  <2>2. /\ Arrangement(n - 1, i) = Arrangement(n - 1, i - 1) * ((n - 1) - i + 1)
        /\ Arrangement(n - 1, i - 1) \in Int /\ Arrangement(n - 1, i) \in Int
    BY <1>1, ArrangementIs
  <2>3. Arrangement(n, i) = n * Arrangement(n - 1, i - 1)
    BY <1>3
  <2> DEFINE x == Arrangement(n - 1, i - 1)
             y == Arrangement(n - 1, i)
             z == Arrangement(n, i + 1)
             w == Arrangement(n, i)
  <2>4. z = w * (n - i) /\ y = x * (n - i) /\ w = n * x /\ x \in Int /\ y \in Int /\ w \in Int
    BY <2>1, <2>2, <2>3
  <2>5. z = n * y
    <3> HIDE DEF x, y, z, w
    <3> QED BY <2>4
  <2> QED BY <2>5
<1>4. \A i \in 0..(m - 1) : i \in S
  <2> HIDE DEF S
  <2> QED BY <1>1, <1>2, <1>3, UpwardsTo
<1>5. m - 1 \in S
  BY <1>4
<1> QED
  BY <1>5

LEMMA ArrangementPascal ==
  ASSUME NEW n \in Int, NEW m \in Nat \ {0}
  PROVE  Arrangement(n, m) = Arrangement(n - 1, m) + m * Arrangement(n - 1, m - 1)
<1>1. Arrangement(n, m) = n * Arrangement(n - 1, m - 1)
  BY ArrangementOfLess
<1>2. /\ Arrangement(n - 1, m) = Arrangement(n - 1, m - 1) * ((n - 1) - m + 1)
      /\ Arrangement(n - 1, m - 1) \in Int /\ Arrangement(n - 1, m) \in Int
  BY ArrangementIs
<1> DEFINE x == Arrangement(n - 1, m - 1)
           y == Arrangement(n - 1, m)
<1>3. y = x * (n - m) /\ x \in Int /\ y \in Int
  BY <1>2
<1>4. n * x = y + m * x
  <2> HIDE DEF x, y
  <2> QED BY <1>3
<1> QED
  BY <1>1, <1>4

(* Arrangements of m are m! to one choice of m. *)
Chosen(n, m) == Arrangement(n, m) \div Factorial(m)

LEMMA ChoicesDivide ==
  ASSUME NEW n \in Nat
  PROVE  \A m \in Nat : \E q \in Nat : Arrangement(n, m) = q * Factorial(m)
<1> DEFINE Divides(i) == \A m \in Nat : \E q \in Nat : Arrangement(i, m) = q * Factorial(m)
           S == {i \in 0..n : Divides(i)}
<1>1. 0 \in S
  <2> SUFFICES ASSUME NEW m \in Nat PROVE \E q \in Nat : Arrangement(0, m) = q * Factorial(m)
    OBVIOUS
  <2>1. Factorial(m) \in Nat /\ Factorial(0) = 1
    BY FactorialIs
  <2>2. CASE m = 0
    <3>1. Arrangement(0, m) = 1
      BY <2>2, ArrangementIs
    <3>2. Arrangement(0, m) = 1 * Factorial(m)
      BY <2>1, <2>2, <3>1
    <3> QED BY <3>2
  <2>3. CASE m # 0
    <3>1. Arrangement(0, m) = 0 * Arrangement(0 - 1, m - 1)
      BY <2>3, ArrangementOfLess
    <3>2. Arrangement(0 - 1, m - 1) \in Int
      BY <2>3, ArrangementIs
    <3>3. Arrangement(0, m) = 0 * Factorial(m)
      BY <2>1, <3>1, <3>2
    <3> QED BY <3>3
  <2> QED BY <2>2, <2>3
<1>2. ASSUME NEW i \in 1..n, i - 1 \in S PROVE i \in S
  <2> SUFFICES ASSUME NEW m \in Nat PROVE \E q \in Nat : Arrangement(i, m) = q * Factorial(m)
    OBVIOUS
  <2>1. Factorial(m) \in Nat /\ Factorial(0) = 1
    BY FactorialIs
  <2>2. CASE m = 0
    <3>1. Arrangement(i, m) = 1
      BY <2>2, ArrangementIs
    <3>2. Arrangement(i, m) = 1 * Factorial(m)
      BY <2>1, <2>2, <3>1
    <3> QED BY <3>2
  <2>3. CASE m # 0
    <3>1. Divides(i - 1) /\ m - 1 \in Nat
      BY <1>2, <2>3
    <3>2. PICK q \in Nat : Arrangement(i - 1, m) = q * Factorial(m)
      BY <3>1
    <3>3. PICK r \in Nat : Arrangement(i - 1, m - 1) = r * Factorial(m - 1)
      BY <3>1
    <3>4. Factorial(m) = m * Factorial(m - 1) /\ Factorial(m - 1) \in Int
      BY <2>3, FactorialGrows
    <3>5. Arrangement(i, m) = Arrangement(i - 1, m) + m * Arrangement(i - 1, m - 1)
      BY <2>3, ArrangementPascal
    <3> DEFINE f == Factorial(m)
               g == Factorial(m - 1)
    <3>6. Arrangement(i, m) = q * f + m * (r * g) /\ f = m * g /\ g \in Int /\ f \in Int
      BY <2>1, <3>2, <3>3, <3>4, <3>5
    <3>7. q * f + m * (r * g) = (q + r) * f
      <4> HIDE DEF f, g
      <4> QED BY <3>6
    <3>8. q + r \in Nat
      OBVIOUS
    <3> QED BY <3>6, <3>7, <3>8
  <2> QED BY <2>2, <2>3
<1>3. \A i \in 0..n : i \in S
  <2> HIDE DEF S
  <2> QED BY <1>1, <1>2, UpwardsTo
<1>4. n \in S
  BY <1>3
<1> QED
  BY <1>4

LEMMA ChoicesIs ==
  ASSUME NEW n \in Nat, NEW m \in Nat
  PROVE  Chosen(n, m) \in Nat /\ Arrangement(n, m) = Chosen(n, m) * Factorial(m)
<1>1. PICK q \in Nat : Arrangement(n, m) = q * Factorial(m)
  BY ChoicesDivide
<1>2. Factorial(m) \in Nat /\ Factorial(m) > 0
  BY FactorialIs
<1>3. (q * Factorial(m)) \div Factorial(m) = q
  BY <1>2
<1> QED
  BY <1>1, <1>3 DEF Chosen

LEMMA ChoicesPascal ==
  ASSUME NEW n \in Nat \ {0}, NEW m \in Nat \ {0}
  PROVE  Chosen(n, m) = Chosen(n - 1, m) + Chosen(n - 1, m - 1)
<1>1. n - 1 \in Nat /\ m - 1 \in Nat
  OBVIOUS
<1>2. /\ Chosen(n, m) \in Nat /\ Arrangement(n, m) = Chosen(n, m) * Factorial(m)
      /\ Chosen(n - 1, m) \in Nat /\ Arrangement(n - 1, m) = Chosen(n - 1, m) * Factorial(m)
      /\ Chosen(n - 1, m - 1) \in Nat
      /\ Arrangement(n - 1, m - 1) = Chosen(n - 1, m - 1) * Factorial(m - 1)
  BY <1>1, ChoicesIs
<1>3. Arrangement(n, m) = Arrangement(n - 1, m) + m * Arrangement(n - 1, m - 1)
  BY ArrangementPascal
<1>4. Factorial(m) = m * Factorial(m - 1) /\ Factorial(m - 1) \in Int
  BY FactorialGrows
<1>5. Factorial(m) \in Nat /\ Factorial(m) > 0
  BY FactorialIs
<1> DEFINE f == Factorial(m)
           g == Factorial(m - 1)
           x == Chosen(n, m)
           y == Chosen(n - 1, m)
           z == Chosen(n - 1, m - 1)
<1>6. /\ x * f = y * f + m * (z * g) /\ f = m * g
      /\ f > 0 /\ f \in Nat /\ g \in Int /\ x \in Nat /\ y \in Nat /\ z \in Nat
  BY <1>2, <1>3, <1>4, <1>5
<1>7. x * f = (y + z) * f
  <2> HIDE DEF f, g, x, y, z
  <2> QED BY <1>6
<1>8. x = y + z
  <2> HIDE DEF f, g, x, y, z
  <2> QED BY <1>6, <1>7
<1> QED
  BY <1>8

(* A row of Pascal's triangle: zero beyond its end, one at both ends, the  *)
(* same from both sides, and two at least in between.                      *)
IsRow(n) ==
  /\ Chosen(n, 0) = 1 /\ Chosen(n, n) = 1
  /\ \A m \in Nat : m > n => Chosen(n, m) = 0
  /\ \A m \in 0..n : Chosen(n, m) = Chosen(n, n - m) /\ Chosen(n, m) >= 1
  /\ \A m \in 1..(n - 1) : Chosen(n, m) >= 2

LEMMA NoChoices ==
  ASSUME NEW n \in Nat
  PROVE  Chosen(n, 0) = 1
<1>1. Arrangement(n, 0) = 1 /\ Factorial(0) = 1
  BY ArrangementIs, FactorialIs
<1> QED
  BY <1>1 DEF Chosen

LEMMA Rows ==
  ASSUME NEW n \in Nat
  PROVE  IsRow(n)
<1> DEFINE S == {i \in 0..n : IsRow(i)}
<1>1. 0 \in S
  <2>1. ASSUME NEW m \in Nat, m > 0 PROVE Chosen(0, m) = 0
    <3>1. Arrangement(0, m) = 0 * Arrangement(0 - 1, m - 1)
      BY <2>1, ArrangementOfLess
    <3>2. Arrangement(0 - 1, m - 1) \in Int
      BY <2>1, ArrangementIs
    <3>3. Arrangement(0, m) = Chosen(0, m) * Factorial(m) /\ Chosen(0, m) \in Nat
      BY ChoicesIs
    <3>4. Factorial(m) \in Nat /\ Factorial(m) > 0
      BY FactorialIs
    <3> QED BY <3>1, <3>2, <3>3, <3>4
  <2>2. Chosen(0, 0) = 1
    BY NoChoices
  <2> QED BY <2>1, <2>2 DEF IsRow
<1>2. ASSUME NEW i \in 1..n, i - 1 \in S PROVE i \in S
  <2>1. i \in Nat \ {0} /\ i - 1 \in Nat
    OBVIOUS
  <2> DEFINE c == [m \in Nat |-> Chosen(i - 1, m)]
             r == [m \in Nat |-> Chosen(i, m)]
  <2>2. c \in [Nat -> Nat] /\ r \in [Nat -> Nat]
    BY <2>1, ChoicesIs
  <2>3. \A m \in Nat \ {0} : r[m] = c[m] + c[m - 1]
    BY <2>1, ChoicesPascal
  <2>4. r[0] = 1
    BY <2>1, NoChoices
  <2>5. /\ c[0] = 1 /\ c[i - 1] = 1
        /\ \A m \in Nat : m > i - 1 => c[m] = 0
        /\ \A m \in 0..(i - 1) : c[m] = c[i - 1 - m] /\ c[m] >= 1
    BY <1>2 DEF IsRow
  <2> HIDE DEF c, r
  <2>6. r[i] = 1
    BY <2>1, <2>2, <2>3, <2>5
  <2>7. \A m \in Nat : m > i => r[m] = 0
    BY <2>1, <2>2, <2>3, <2>5
  <2>8. \A m \in 1..(i - 1) : r[m] >= 2
    BY <2>1, <2>2, <2>3, <2>5
  <2>9. ASSUME NEW m \in 0..i PROVE r[m] = r[i - m] /\ r[m] >= 1
    <3>1. CASE m = 0 \/ m = i
      BY <2>4, <2>6, <3>1
    <3>2. CASE m \in 1..(i - 1)
      <4>1. r[m] = c[m] + c[m - 1] /\ r[i - m] = c[i - m] + c[(i - m) - 1]
        BY <2>3, <3>2
      <4>2. c[m] = c[i - 1 - m] /\ c[m - 1] = c[i - 1 - (m - 1)]
        BY <2>5, <3>2
      <4>3. i - 1 - m = (i - m) - 1 /\ i - 1 - (m - 1) = i - m
        BY <3>2
      <4>4. c[m] \in Nat /\ c[m - 1] \in Nat
        BY <2>2, <3>2
      <4>5. r[m] = r[i - m]
        BY <4>1, <4>2, <4>3, <4>4
      <4>6. r[m] >= 2 /\ r[m] \in Nat
        BY <2>2, <2>8, <3>2
      <4> QED BY <4>5, <4>6
    <3> QED BY <3>1, <3>2
  <2>10. \A m \in Nat : r[m] = Chosen(i, m)
    BY DEF r
  <2>11. IsRow(i)
    BY <2>1, <2>4, <2>6, <2>7, <2>8, <2>9, <2>10 DEF IsRow
  <2> QED BY <2>11
<1>3. \A i \in 0..n : i \in S
  <2> HIDE DEF S
  <2> QED BY <1>1, <1>2, UpwardsTo
<1>4. n \in S
  BY <1>3
<1> QED
  BY <1>4

(* combination() chooses the shorter of the two products (math.cpp:86-91). *)
LEMMA CombinationIs ==
  ASSUME NEW n \in Nat, NEW m \in 0..n
  PROVE  Combination(n, m) = Chosen(n, m)
<1>1. Chosen(n, m) = Chosen(n, n - m)
  BY Rows DEF IsRow
<1> QED
  BY <1>1 DEF Combination, Chosen

(* What a jump leaves in the n-th differences, from the first it reaches. *)
Entry(n, e) ==
  IF e \in 1..n THEN (IF e % 2 = 0 THEN -1 ELSE 1) * Chosen(n - 1, e - 1) ELSE 0

LEMMA EntryIs ==
  ASSUME NEW n \in Nat \ {0}, NEW e \in Int
  PROVE  /\ Entry(n, e) \in Int
         /\ Entry(n + 1, e) = Entry(n, e) - Entry(n, e - 1)
<1> DEFINE c == [m \in Nat |-> Chosen(n - 1, m)]
           r == [m \in Nat |-> Chosen(n, m)]
           sign == IF e % 2 = 0 THEN -1 ELSE 1
<1>1. c \in [Nat -> Nat] /\ r \in [Nat -> Nat]
  BY ChoicesIs
<1>2. \A m \in Nat \ {0} : r[m] = c[m] + c[m - 1]
  BY ChoicesPascal
<1>3. r[0] = 1 /\ r[n] = 1 /\ c[0] = 1 /\ c[n - 1] = 1
  BY Rows DEF IsRow
<1>4. \A m \in Nat : c[m] = Chosen(n - 1, m) /\ r[m] = Chosen(n, m)
  OBVIOUS
<1> HIDE DEF c, r
<1>5. e \in 1..n => Entry(n, e) = sign * c[e - 1]
  BY <1>4 DEF Entry
<1>6. e \in 1..(n + 1) => Entry(n + 1, e) = sign * r[e - 1]
  BY <1>4 DEF Entry
<1>7. e - 1 \in 1..n => Entry(n, e - 1) = (-sign) * c[e - 2]
  <2> SUFFICES ASSUME e - 1 \in 1..n PROVE Entry(n, e - 1) = (-sign) * c[e - 2]
    OBVIOUS
  <2>1. (IF (e - 1) % 2 = 0 THEN -1 ELSE 1) = -sign
    OBVIOUS
  <2>2. Entry(n, e - 1) = (IF (e - 1) % 2 = 0 THEN -1 ELSE 1) * c[(e - 1) - 1]
    BY <1>4 DEF Entry
  <2> QED BY <2>1, <2>2
<1>8. /\ e \notin 1..n => Entry(n, e) = 0
      /\ e - 1 \notin 1..n => Entry(n, e - 1) = 0
      /\ e \notin 1..(n + 1) => Entry(n + 1, e) = 0
  BY DEF Entry
<1>9. sign \in {-1, 1}
  OBVIOUS
<1> HIDE DEF sign
<1>10. CASE e < 1 \/ e > n + 1
  BY <1>8, <1>10
<1>11. CASE e = 1
  BY <1>1, <1>3, <1>5, <1>6, <1>8, <1>9, <1>11
<1>12. CASE e \in 2..n
  <2>1. r[e - 1] = c[e - 1] + c[e - 2] /\ c[e - 1] \in Nat /\ c[e - 2] \in Nat
    BY <1>1, <1>2, <1>12
  <2>2. /\ Entry(n, e) = sign * c[e - 1] /\ Entry(n + 1, e) = sign * r[e - 1]
        /\ Entry(n, e - 1) = (-sign) * c[e - 2]
    BY <1>5, <1>6, <1>7, <1>12
  <2> QED BY <1>9, <2>1, <2>2
<1>13. CASE e = n + 1 /\ e > 1
  <2>1. Entry(n, e) = 0 /\ Entry(n + 1, e) = sign * r[n] /\ Entry(n, e - 1) = (-sign) * c[n - 1]
    BY <1>6, <1>7, <1>8, <1>13
  <2> QED BY <1>3, <1>9, <2>1
<1> QED
  BY <1>10, <1>11, <1>12, <1>13

LEMMA PatternIs ==
  ASSUME NEW degree \in Nat \ {0}
  PROVE  Pattern(degree) = [j \in 1..degree |-> Entry(degree, j)]
<1>1. ASSUME NEW j \in 1..degree
      PROVE  Combination(degree - 1, j - 1) = Chosen(degree - 1, j - 1)
  BY CombinationIs
<1> QED
  BY <1>1 DEF Pattern, Entry

-----------------------------------------------------------------------------

(* The differences of a series, degree by degree. *)
Differences(N, vals, degree, D) ==
  /\ D[0] = vals
  /\ \A n \in 0..degree : D[n] \in [1..(N - n) -> Int]
  /\ \A n \in 1..degree : \A j \in 1..(N - n) : D[n][j] = D[n - 1][j + 1] - D[n - 1][j]

LEMMA LevelIsSequence ==
  ASSUME NEW m \in Int, NEW s \in [1..m -> Int]
  PROVE  s \in Seq(Int) /\ (m >= 0 => Len(s) = m)
<1>1. CASE m >= 0
  BY <1>1
<1>2. CASE m < 0
  <2>1. 1..m = 1..0
    BY <1>2
  <2> QED BY <1>2, <2>1
<1> QED
  BY <1>1, <1>2

LEMMA DifferencesOf ==
  ASSUME NEW N \in Nat, NEW vals \in [1..N -> Int], NEW degree \in 0..N
  PROVE  \E D : Differences(N, vals, degree, D) /\ Difference(vals, degree) = D[degree]
<1> DEFINE Differed(s) == [j \in 1..(Len(s) - 1) |-> s[j + 1] - s[j]]
           step == [n \in 1..degree |-> [s \in Seq(Int) |-> Differed(s)]]
           Unfold(g, n) == IF n = 0 THEN vals ELSE Differed(g[n - 1])
           Solves(g) == g = [n \in 0..degree |-> Unfold(g, n)]
<1>1. vals \in Seq(Int) /\ degree \in Nat /\ Len(vals) = N
  BY LevelIsSequence
<1>2. ASSUME NEW s \in Seq(Int) PROVE Differed(s) \in Seq(Int)
  <2>1. \A j \in 1..(Len(s) - 1) : s[j + 1] \in Int /\ s[j] \in Int
    OBVIOUS
  <2>2. Differed(s) \in [1..(Len(s) - 1) -> Int]
    BY <2>1
  <2>3. Len(s) - 1 \in Int
    OBVIOUS
  <2> HIDE DEF Differed
  <2> QED BY <2>2, <2>3, LevelIsSequence
<1>3. step \in [1..degree -> [Seq(Int) -> Seq(Int)]]
  <2> HIDE DEF Differed
  <2> QED BY <1>2
<1>4. PICK f \in [0..degree -> Seq(Int)] : Recursion(degree, vals, step, f)
  <2> HIDE DEF step
  <2> QED BY ONLY <1>1, <1>3, RecursionExists
<1>5. f[0] = vals /\ \A n \in 1..degree : f[n] = Differed(f[n - 1])
  <2>1. \A n \in 1..degree : f[n - 1] \in Seq(Int)
    OBVIOUS
  <2> HIDE DEF Differed
  <2> QED BY <1>4, <2>1 DEF Recursion
<1>6. Solves(f)
  <2>1. \A n \in 0..degree : f[n] = Unfold(f, n)
    <3> HIDE DEF Differed
    <3> QED BY <1>5
  <2>2. f = [n \in 0..degree |-> f[n]]
    OBVIOUS
  <2> HIDE DEF Unfold
  <2> QED BY <2>1, <2>2
<1> DEFINE D == CHOOSE g : Solves(g)
<1>7. Difference(vals, degree) = D[degree]
  BY DEF Difference
<1>8. Solves(D)
  BY <1>6
<1> HIDE DEF D
<1>9. \A n \in 0..degree : D[n] = Unfold(D, n)
  <2> HIDE DEF Unfold
  <2> QED BY <1>8
<1>10. D[0] = vals /\ \A n \in 1..degree : D[n] = Differed(D[n - 1])
  <2>1. 0 \in 0..degree /\ \A n \in 1..degree : n \in 0..degree /\ n # 0
    BY <1>1
  <2> HIDE DEF Differed
  <2> QED BY <1>9, <2>1
<1> HIDE DEF Unfold, Solves
<1>11. ASSUME NEW n \in 1..degree, D[n - 1] \in [1..(N - (n - 1)) -> Int]
       PROVE  /\ D[n] \in [1..(N - n) -> Int]
              /\ \A j \in 1..(N - n) : D[n][j] = D[n - 1][j + 1] - D[n - 1][j]
  <2> DEFINE s == D[n - 1]
             m == N - (n - 1)
  <2>1. m \in Int /\ m >= 0 /\ m = N - n + 1
    OBVIOUS
  <2>2. s \in [1..m -> Int]
    BY <1>11
  <2>3. D[n] = Differed(s)
    BY <1>10
  <2> HIDE DEF s, m
  <2>4. Len(s) = m
    BY <2>1, <2>2, LevelIsSequence
  <2>5. D[n] = [j \in 1..(N - n) |-> s[j + 1] - s[j]]
    BY <2>1, <2>3, <2>4
  <2>6. \A j \in 1..(N - n) : s[j + 1] \in Int /\ s[j] \in Int
    BY <2>1, <2>2
  <2>7. /\ D[n] \in [1..(N - n) -> Int]
        /\ \A j \in 1..(N - n) : D[n][j] = s[j + 1] - s[j]
    <3> DEFINE t == [j \in 1..(N - n) |-> s[j + 1] - s[j]]
    <3>1. t \in [1..(N - n) -> Int] /\ \A j \in 1..(N - n) : t[j] = s[j + 1] - s[j]
      BY <2>6, SMTT(30)
    <3>2. D[n] = t
      BY <2>5
    <3> HIDE DEF t
    <3> QED BY ONLY <3>1, <3>2
  <2> QED BY <2>7 DEF s
<1> DEFINE S == {n \in 0..degree : D[n] \in [1..(N - n) -> Int]}
<1> HIDE DEF Differed
<1>12. \A n \in 0..degree : n \in S
  <2>1. 0 \in S
    BY <1>10
  <2>2. ASSUME NEW n \in 1..degree, n - 1 \in S PROVE n \in S
    <3>1. D[n - 1] \in [1..(N - (n - 1)) -> Int]
      BY <2>2
    <3>2. D[n] \in [1..(N - n) -> Int]
      BY <1>11, <3>1
    <3> QED BY <3>2
  <2> HIDE DEF S
  <2> QED BY <1>1, <2>1, <2>2, UpwardsTo
<1>13. \A n \in 1..degree : D[n - 1] \in [1..(N - (n - 1)) -> Int]
  <2>1. \A n \in 1..degree : n - 1 \in S
    BY <1>12
  <2> QED BY <2>1
<1>14. \A n \in 1..degree : \A j \in 1..(N - n) : D[n][j] = D[n - 1][j + 1] - D[n - 1][j]
  BY <1>11, <1>13
<1> QED
  BY <1>7, <1>10, <1>12, <1>14 DEF Differences

(* What is left of the slope. *)
Rest(n, slope) == IF n = 1 THEN slope ELSE 0

(* The first differences of a series with jumps. *)
Jumping(N, vals, slope, slips) ==
  \A j \in 1..(N - 1) :
    vals[j + 1] - vals[j] = slope + (IF j \in DOMAIN slips THEN slips[j] ELSE 0)

(* A difference that takes in one jump has its entry of the pattern, one   *)
(* that takes in none what is left of the slope (math.cpp:103-118).        *)
LevelHas(n, N, slope, slips, D) ==
  \A j \in 1..(N - n) :
    /\ (\A l \in DOMAIN slips : l \notin j..(j + n - 1)) => D[n][j] = Rest(n, slope)
    /\ \A k \in DOMAIN slips :
         (\A l \in DOMAIN slips : l \in j..(j + n - 1) => l = k) =>
           D[n][j] = Rest(n, slope) + slips[k] * Entry(n, j - k + n)

LEMMA LevelsHave ==
  ASSUME NEW N \in Nat, NEW degree \in 1..(N - 1), NEW vals, NEW D,
         Differences(N, vals, degree, D),
         NEW slope \in Int, NEW S \in SUBSET Int, NEW slips \in [S -> Int],
         Jumping(N, vals, slope, slips)
  PROVE  \A n \in 1..degree : LevelHas(n, N, slope, slips, D)
<1>1. \A k \in S : slips[k] \in Int /\ k \in Int
  OBVIOUS
<1>2. ASSUME NEW j \in 1..(N - 1)
      PROVE  D[1][j] = slope + (IF j \in S THEN slips[j] ELSE 0)
  <2>1. D[1][j] = D[1 - 1][j + 1] - D[1 - 1][j] /\ D[0] = vals /\ 1 - 1 = 0
    BY DEF Differences
  <2>2. vals[j + 1] - vals[j] = slope + (IF j \in DOMAIN slips THEN slips[j] ELSE 0)
    BY DEF Jumping
  <2>3. DOMAIN slips = S
    OBVIOUS
  <2> QED BY <2>1, <2>2, <2>3
<1>3. Entry(1, 1) = 1 /\ \A e \in Int : e # 1 => Entry(1, e) = 0
  BY NoChoices DEF Entry
<1>4. LevelHas(1, N, slope, slips, D)
  <2> SUFFICES ASSUME NEW j \in 1..(N - 1)
               PROVE  /\ (\A l \in S : l \notin j..(j + 1 - 1)) => D[1][j] = Rest(1, slope)
                      /\ \A k \in S :
                           (\A l \in S : l \in j..(j + 1 - 1) => l = k) =>
                             D[1][j] = Rest(1, slope) + slips[k] * Entry(1, j - k + 1)
    BY DEF LevelHas
  <2>1. j \in j..(j + 1 - 1)
    OBVIOUS
  <2>2. (\A l \in S : l \notin j..(j + 1 - 1)) => D[1][j] = Rest(1, slope)
    BY <1>2, <2>1 DEF Rest
  <2>3. ASSUME NEW k \in S, \A l \in S : l \in j..(j + 1 - 1) => l = k
        PROVE  D[1][j] = Rest(1, slope) + slips[k] * Entry(1, j - k + 1)
    <3>1. CASE j = k
      <4>1. D[1][j] = slope + slips[k] /\ j - k + 1 = 1
        BY <1>2, <3>1
      <4>2. slips[k] \in Int
        OBVIOUS
      <4>3. Entry(1, j - k + 1) = 1
        BY <1>3, <4>1
      <4> QED BY <4>1, <4>2, <4>3 DEF Rest
    <3>2. CASE j # k
      <4>1. j \notin S
        BY <2>1, <2>3, <3>2
      <4>2. Entry(1, j - k + 1) = 0
        BY <1>1, <1>3, <3>2
      <4>3. D[1][j] = slope
        BY <1>2, <4>1
      <4> QED BY <1>1, <4>2, <4>3 DEF Rest
    <3> QED BY <3>1, <3>2
  <2> QED BY <2>2, <2>3
<1>5. ASSUME NEW n \in 1..degree, n + 1 \in 1..degree, LevelHas(n, N, slope, slips, D)
      PROVE  LevelHas(n + 1, N, slope, slips, D)
  <2> SUFFICES ASSUME NEW j \in 1..(N - (n + 1))
               PROVE  /\ (\A l \in S : l \notin j..(j + (n + 1) - 1)) =>
                            D[n + 1][j] = Rest(n + 1, slope)
                      /\ \A k \in S :
                           (\A l \in S : l \in j..(j + (n + 1) - 1) => l = k) =>
                             D[n + 1][j] = Rest(n + 1, slope)
                                             + slips[k] * Entry(n + 1, j - k + (n + 1))
    BY DEF LevelHas
  <2>1. D[n + 1][j] = D[(n + 1) - 1][j + 1] - D[(n + 1) - 1][j]
    BY <1>5 DEF Differences
  <2>2. (n + 1) - 1 = n /\ j + 1 \in 1..(N - n) /\ j \in 1..(N - n)
    OBVIOUS
  <2>3. D[n + 1][j] = D[n][j + 1] - D[n][j]
    BY <2>1, <2>2
  <2>4. Rest(n + 1, slope) = 0 /\ Rest(n, slope) \in Int
    BY DEF Rest
  <2>5. ASSUME \A l \in S : l \notin j..(j + (n + 1) - 1)
        PROVE  D[n + 1][j] = Rest(n + 1, slope)
    <3>1. \A l \in S : l \notin j..(j + n - 1) /\ l \notin (j + 1)..((j + 1) + n - 1)
      BY <2>5
    <3>2. D[n][j] = Rest(n, slope) /\ D[n][j + 1] = Rest(n, slope)
      BY <1>5, <2>2, <3>1 DEF LevelHas
    <3> QED BY <2>3, <2>4, <3>2
  <2>6. ASSUME NEW k \in S, \A l \in S : l \in j..(j + (n + 1) - 1) => l = k
        PROVE  D[n + 1][j] = Rest(n + 1, slope) + slips[k] * Entry(n + 1, j - k + (n + 1))
    <3>1. /\ \A l \in S : l \in j..(j + n - 1) => l = k
          /\ \A l \in S : l \in (j + 1)..((j + 1) + n - 1) => l = k
      BY <1>1, <2>6
    <3>2. D[n][j] = Rest(n, slope) + slips[k] * Entry(n, j - k + n)
      BY <1>5, <2>2, <3>1 DEF LevelHas
    <3>3. D[n][j + 1] = Rest(n, slope) + slips[k] * Entry(n, (j + 1) - k + n)
      BY <1>5, <2>2, <3>1 DEF LevelHas
    <3> DEFINE e == j - k + (n + 1)
    <3>4. e \in Int /\ (j + 1) - k + n = e /\ j - k + n = e - 1 /\ n \in Nat \ {0}
      BY <1>1
    <3>5. /\ Entry(n, e) \in Int /\ Entry(n, e - 1) \in Int
          /\ Entry(n + 1, e) = Entry(n, e) - Entry(n, e - 1)
      <4>1. e - 1 \in Int
        BY <3>4
      <4> HIDE DEF e
      <4> QED BY <3>4, <4>1, EntryIs
    <3>6. /\ D[n][j] = Rest(n, slope) + slips[k] * Entry(n, e - 1)
          /\ D[n][j + 1] = Rest(n, slope) + slips[k] * Entry(n, e)
      <4> HIDE DEF e
      <4> QED BY <3>2, <3>3, <3>4
    <3>7. D[n + 1][j] = Rest(n + 1, slope) + slips[k] * Entry(n + 1, e)
      <4>1. slips[k] \in Int
        OBVIOUS
      <4> DEFINE c == slips[k]
                 x == Entry(n, e)
                 y == Entry(n, e - 1)
                 r == Rest(n, slope)
      <4>2. c \in Int /\ x \in Int /\ y \in Int /\ r \in Int
        BY <2>4, <3>5
      <4>3. (r + c * x) - (r + c * y) = 0 + c * (x - y)
        <5> HIDE DEF c, x, y, r, e
        <5> QED BY <4>2
      <4> HIDE DEF e
      <4> QED BY <2>3, <2>4, <3>5, <3>6, <4>3
    <3> QED BY <3>7
  <2> QED BY <2>5, <2>6
<1> DEFINE M == {n \in 0..(degree - 1) : LevelHas(n + 1, N, slope, slips, D)}
<1>6. \A n \in 0..(degree - 1) : n \in M
  <2>1. 0 \in M
    BY <1>4
  <2>2. ASSUME NEW n \in 1..(degree - 1), n - 1 \in M PROVE n \in M
    <3>1. LevelHas((n - 1) + 1, N, slope, slips, D) /\ (n - 1) + 1 = n
      BY <2>2
    <3>2. n \in 1..degree /\ n + 1 \in 1..degree
      OBVIOUS
    <3>3. LevelHas(n + 1, N, slope, slips, D)
      BY <1>5, <3>1, <3>2
    <3> QED BY <3>3
  <2>3. degree - 1 \in Nat
    OBVIOUS
  <2> HIDE DEF M
  <2> QED BY <2>1, <2>2, <2>3, UpwardsTo
<1>7. ASSUME NEW n \in 1..degree PROVE LevelHas(n, N, slope, slips, D)
  <2>1. n - 1 \in M /\ (n - 1) + 1 = n
    BY <1>6
  <2> QED BY <2>1
<1> QED
  BY <1>7

-----------------------------------------------------------------------------
(* What within_abs_pct makes of an entry x of the pattern and a difference *)
(* v, scaled to a head (math.cpp:12-16, cycle_slip_edit.cpp:28-34).        *)
LEMMA SameShapeIsWithin ==
  ASSUME NEW x \in Int, NEW c \in Int, x # 0, c # 0
  PROVE  WithinPct(x, c * x, c)
<1> DEFINE X == x * AbsOf(c)
           Y == IF c < 0 THEN -(c * x) ELSE c * x
<1>1. X = Y /\ X \in Int /\ X # 0
  <2>1. CASE c < 0
    BY <2>1 DEF AbsOf
  <2>2. CASE c > 0
    BY <2>2 DEF AbsOf
  <2> QED BY <2>1, <2>2
<1>2. 20 * (AbsOf(X) - AbsOf(X)) <= AbsOf(X)
  <2> HIDE DEF X
  <2> QED BY <1>1 DEF AbsOf
<1> QED
  BY <1>1, <1>2 DEF WithinPct

LEMMA ZeroIsNotWithin ==
  ASSUME NEW x \in Int, NEW c \in Int, NEW v \in Int, x > 0, v = 0
  PROVE  ~WithinPct(x, v, c)
<1> SUFFICES ASSUME c # 0 PROVE ~WithinPct(x, v, c)
  BY DEF WithinPct
<1> DEFINE X == x * AbsOf(c)
<1>1. X \in Int /\ X > 0
  <2>1. AbsOf(c) \in Int /\ AbsOf(c) > 0
    BY DEF AbsOf
  <2> QED BY <2>1
<1>2. WithinPct(x, v, c) => 20 * (AbsOf(X) - AbsOf(0)) <= AbsOf(X)
  <2>1. (IF c < 0 THEN -v ELSE v) = 0
    <3> DEFINE y == -v
    <3>1. y \in Int /\ y + v = 0
      OBVIOUS
    <3> HIDE DEF y
    <3>2. y = 0
      BY <3>1
    <3> QED BY <3>2 DEF y
  <2>2. (IF X > 0 THEN X ELSE 0) = X /\ (IF X < 0 THEN X ELSE 0) = 0 /\ X # 0
    BY <1>1
  <2> QED BY <2>1, <2>2 DEF WithinPct
<1>3. AbsOf(X) = X /\ AbsOf(0) = 0
  <2> HIDE DEF X
  <2> QED BY <1>1 DEF AbsOf
<1> HIDE DEF X
<1> QED
  BY <1>1, <1>2, <1>3

LEMMA ZeroIsWithin ==
  ASSUME NEW x \in Int, NEW c \in Int, NEW v \in Int, x < 0, v = 0, c # 0
  PROVE  WithinPct(x, v, c)
<1> DEFINE X == x * AbsOf(c)
<1>1. X \in Int /\ X < 0
  <2>1. AbsOf(c) \in Int /\ AbsOf(c) > 0
    BY DEF AbsOf
  <2> QED BY <2>1
<1>2. (IF c < 0 THEN -v ELSE v) = 0
  <2> DEFINE y == -v
  <2>1. y \in Int /\ y + v = 0
    OBVIOUS
  <2> HIDE DEF y
  <2>2. y = 0
    BY <2>1
  <2> QED BY <2>2 DEF y
<1>3. (IF X > 0 THEN X ELSE 0) = 0 /\ (IF X < 0 THEN X ELSE 0) = X /\ X # 0
  BY <1>1
<1> QED
  BY <1>2, <1>3 DEF WithinPct

LEMMA SmallIsNotWithin ==
  ASSUME NEW x \in Int, NEW c \in Int, NEW head \in Int, NEW v \in Int,
         x >= 2, c # 0, head = c * x \/ head = c * (-x), v = c \/ v = -c
  PROVE  ~WithinPct(x, v, head)
<1> DEFINE X == x * AbsOf(head)
           Y == IF head < 0 THEN -v ELSE v
           a == AbsOf(c)
<1>1. a \in Int /\ a > 0 /\ (Y = a \/ Y = -a)
  BY DEF AbsOf
<1>2. AbsOf(head) = a * x
  <2>1. c > 0 => c * x > 0 /\ c * (-x) < 0 /\ c * (-x) = -(c * x)
    OBVIOUS
  <2>2. c < 0 => c * x < 0 /\ c * (-x) > 0 /\ (-c) * x = -(c * x) /\ c * (-x) = -(c * x)
    OBVIOUS
  <2>3. c * x \in Int /\ c * (-x) \in Int
    OBVIOUS
  <2> QED BY <2>1, <2>2, <2>3 DEF AbsOf
<1>3. X >= 4 * a /\ X \in Int
  <2> HIDE DEF a
  <2>1. X = x * (a * x)
    BY <1>2
  <2>2. x * x >= 4 /\ x * x \in Int /\ x * (a * x) = a * (x * x)
    BY <1>1
  <2>3. a * (x * x) >= a * 4
    <3> DEFINE z == x * x
    <3>1. z \in Int /\ z >= 4
      BY <2>2
    <3> HIDE DEF z
    <3>2. a * z >= a * 4
      BY <1>1, <3>1
    <3> QED BY <3>2 DEF z
  <2>4. a * (x * x) \in Int
    BY <1>1, <2>2
  <2> QED BY <1>1, <2>1, <2>2, <2>3, <2>4
<1> HIDE DEF X, a, Y
<1>4. X > Y /\ X # 0 /\ AbsOf(X) = X /\ AbsOf(Y) = a
  BY <1>1, <1>3 DEF AbsOf
<1>5. WithinPct(x, v, head) => 20 * (AbsOf(X) - AbsOf(Y)) <= AbsOf(X)
  <2>1. (IF X > Y THEN X ELSE Y) = X /\ (IF X < Y THEN X ELSE Y) = Y
    BY <1>1, <1>3, <1>4
  <2> QED BY <1>4, <2>1 DEF WithinPct, X, Y
<1> QED
  BY <1>1, <1>3, <1>4, <1>5

LEMMA EntrySigns ==
  ASSUME NEW n \in Nat \ {0}, NEW e \in 1..n
  PROVE  /\ e % 2 = 0 => Entry(n, e) = -Chosen(n - 1, e - 1)
         /\ e % 2 # 0 => Entry(n, e) = Chosen(n - 1, e - 1)
         /\ Chosen(n - 1, e - 1) \in Nat /\ Chosen(n - 1, e - 1) >= 1
         /\ Chosen(n - 1, e - 1) = Chosen(n - 1, n - e)
         /\ e \in 2..(n - 1) => Chosen(n - 1, e - 1) >= 2
<1>1. e - 1 \in 0..(n - 1) /\ n - 1 \in Nat /\ (n - 1) - (e - 1) = n - e
  OBVIOUS
<1>2. IsRow(n - 1)
  BY <1>1, Rows
<1>3. Chosen(n - 1, e - 1) \in Nat
  BY <1>1, ChoicesIs
<1>4. Chosen(n - 1, e - 1) >= 1 /\ Chosen(n - 1, e - 1) = Chosen(n - 1, n - e)
  BY <1>1, <1>2 DEF IsRow
<1>5. e \in 2..(n - 1) => Chosen(n - 1, e - 1) >= 2
  BY <1>2 DEF IsRow
<1>6. /\ e % 2 = 0 => Entry(n, e) = -Chosen(n - 1, e - 1)
      /\ e % 2 # 0 => Entry(n, e) = Chosen(n - 1, e - 1)
  BY <1>3 DEF Entry
<1> QED
  BY <1>3, <1>4, <1>5, <1>6

MatchesPattern(n, w) == \A j \in 1..n : WithinPct(Pattern(n)[j], w[j], w[1])

Shows(n, s, c, w) == \A j \in 1..n : w[j] = c * Entry(n, s + j)

(* Over the differences of one jump the pattern fits where they begin; of  *)
(* second differences also one position further, where it compares -1 with *)
(* the 0 behind them.                                                      *)
LEMMA PatternFits ==
  ASSUME NEW n \in Nat, n >= 2, NEW s \in 0..(n - 1), NEW c \in Int, c # 0, NEW w,
         Shows(n, s, c, w)
  PROVE  MatchesPattern(n, w) <=> (s = 0 \/ (n = 2 /\ s = 1))
<1> USE DEF Shows
<1>1. \A j \in 1..n : Pattern(n)[j] = Entry(n, j) /\ Entry(n, j) \in Int
  BY PatternIs, EntryIs
<1>2. \A j \in 1..n : Entry(n, j) # 0
  <2> SUFFICES ASSUME NEW j \in 1..n PROVE Entry(n, j) # 0
    OBVIOUS
  <2>1. n \in Nat \ {0}
    OBVIOUS
  <2>2. /\ j % 2 = 0 => Entry(n, j) = -Chosen(n - 1, j - 1)
        /\ j % 2 # 0 => Entry(n, j) = Chosen(n - 1, j - 1)
        /\ Chosen(n - 1, j - 1) \in Nat /\ Chosen(n - 1, j - 1) >= 1
    BY <2>1, EntrySigns
  <2> QED BY <2>2
<1>3. \A j \in 1..n : s + j > n => w[j] = 0
  BY DEF Entry
<1>4. Entry(n, 1) = 1 /\ Entry(n, 2) < 0 /\ (n >= 3 => Entry(n, 3) > 0)
  <2>1. n - 1 \in Nat /\ 1 \in 1..n /\ 2 \in 1..n /\ 1 - 1 = 0
    OBVIOUS
  <2>2. Entry(n, 1) = 1
    BY <2>1, EntrySigns, NoChoices
  <2>3. Entry(n, 2) < 0
    BY <2>1, EntrySigns
  <2>4. n >= 3 => Entry(n, 3) > 0
    <3> SUFFICES ASSUME n >= 3 PROVE Entry(n, 3) > 0
      OBVIOUS
    <3>1. 3 \in 1..n
      OBVIOUS
    <3> QED BY <3>1, EntrySigns
  <2> QED BY <2>2, <2>3, <2>4
<1>5. w[1] = c * Entry(n, s + 1) /\ w[1] \in Int /\ w[1] # 0
  <2>1. s + 1 \in 1..n /\ 1 \in 1..n
    OBVIOUS
  <2>2. Entry(n, s + 1) \in Int /\ Entry(n, s + 1) # 0
    BY <1>1, <1>2, <2>1
  <2> DEFINE x == Entry(n, s + 1)
  <2>3. w[1] = c * x
    BY <2>1
  <2>4. c * x \in Int /\ c * x # 0
    <3>1. x \in Int /\ x # 0
      BY <2>2
    <3> HIDE DEF x
    <3> QED BY <3>1
  <2> QED BY <2>3, <2>4
<1>6. ASSUME s = 0, NEW j \in 1..n PROVE WithinPct(Pattern(n)[j], w[j], w[1])
  <2>1. w[1] = c
    BY <1>4, <1>5, <1>6
  <2>2. w[j] = c * Entry(n, j)
    BY <1>6
  <2>3. Pattern(n)[j] = Entry(n, j) /\ Entry(n, j) \in Int /\ Entry(n, j) # 0
    BY <1>1, <1>2, <1>6
  <2> QED BY <2>1, <2>2, <2>3, SameShapeIsWithin
<1>7. ASSUME n = 2, s = 1, NEW j \in 1..n PROVE WithinPct(Pattern(n)[j], w[j], w[1])
  <2>1. CASE j = 1
    <3>1. Pattern(n)[1] = 1 /\ w[1] * 1 = w[1]
      BY <1>1, <1>4, <1>5
    <3>2. WithinPct(1, w[1] * 1, w[1])
      BY <1>5, SameShapeIsWithin
    <3> QED BY <2>1, <3>1, <3>2
  <2>2. CASE j = 2
    <3>1. w[j] = 0 /\ Pattern(n)[j] = Entry(n, 2) /\ Entry(n, 2) < 0 /\ Entry(n, 2) \in Int
      BY <1>1, <1>3, <1>4, <1>7, <2>2
    <3> QED BY <1>5, <3>1, ZeroIsWithin
  <2> QED BY <1>7, <2>1, <2>2
<1>8. ASSUME s # 0, ~(n = 2 /\ s = 1)
      PROVE  \E j \in 1..n : ~WithinPct(Pattern(n)[j], w[j], w[1])
  <2>1. CASE (n - s) % 2 = 0
    <3> DEFINE j == n - s + 1
    <3>1. j \in 1..n /\ s + j > n /\ j % 2 # 0
      BY <1>8, <2>1
    <3>2. Pattern(n)[j] = Entry(n, j) /\ Entry(n, j) \in Int /\ w[j] = 0
      BY <1>1, <1>3, <3>1
    <3>3. Entry(n, j) > 0
      <4> HIDE DEF j
      <4>1. n \in Nat \ {0}
        OBVIOUS
      <4>2. /\ j % 2 # 0 => Entry(n, j) = Chosen(n - 1, j - 1)
            /\ Chosen(n - 1, j - 1) \in Nat /\ Chosen(n - 1, j - 1) >= 1
        BY ONLY <3>1, <4>1, EntrySigns
      <4> QED BY <3>1, <4>2
    <3>4. ~WithinPct(Pattern(n)[j], w[j], w[1])
      BY <1>5, <3>2, <3>3, ZeroIsNotWithin
    <3> QED BY <3>1, <3>4
  <2>2. CASE s = n - 1
    <3>1. n >= 3 /\ 3 \in 1..n /\ s + 3 > n
      BY <1>8, <2>2
    <3>2. Pattern(n)[3] = Entry(n, 3) /\ Entry(n, 3) \in Int /\ w[3] = 0 /\ Entry(n, 3) > 0
      BY <1>1, <1>3, <1>4, <3>1
    <3>3. ~WithinPct(Pattern(n)[3], w[3], w[1])
      BY <1>5, <3>2, ZeroIsNotWithin
    <3> QED BY <3>1, <3>3
  <2>3. CASE (n - s) % 2 # 0 /\ s # n - 1
    <3> DEFINE j == n - s
               x == Chosen(n - 1, j - 1)
               h == Chosen(n - 1, s)
    <3>1. j \in 1..n /\ j \in 2..(n - 1) /\ j % 2 # 0 /\ s + j = n /\ n - j = s
      BY <1>8, <2>3
    <3>2. Entry(n, j) = x /\ x \in Nat /\ x >= 2 /\ x = h
      <4> HIDE DEF j
      <4> QED BY <3>1, EntrySigns
    <3>3. Entry(n, s + 1) = h \/ Entry(n, s + 1) = -h
      <4>1. s + 1 \in 1..n /\ (s + 1) - 1 = s
        OBVIOUS
      <4>2. n \in Nat \ {0}
        OBVIOUS
      <4> QED BY <4>1, <4>2, EntrySigns
    <3>4. w[1] = c * x \/ w[1] = c * (-x)
      BY <1>5, <3>2, <3>3
    <3>5. w[j] = c \/ w[j] = -c
      <4>1. n \in 1..n /\ n - n = 0
        OBVIOUS
      <4>2. Chosen(n - 1, n - 1) = 1
        BY Rows DEF IsRow
      <4>3. Entry(n, n) = 1 \/ Entry(n, n) = -1
        BY <4>1, <4>2, EntrySigns
      <4>4. w[j] = c * Entry(n, n)
        BY <3>1
      <4> QED BY <4>3, <4>4
    <3>6. ~WithinPct(x, w[j], w[1])
      <4>1. x \in Int /\ w[j] \in Int
        BY <3>2, <3>5
      <4> HIDE DEF x, j
      <4> QED BY <1>5, <3>2, <3>4, <3>5, <4>1, SmallIsNotWithin
    <3>7. Pattern(n)[j] = x
      BY <1>1, <3>1, <3>2
    <3> QED BY <3>1, <3>6, <3>7
  <2> QED BY <2>1, <2>2, <2>3
<1> QED
  BY <1>6, <1>7, <1>8 DEF MatchesPattern

-----------------------------------------------------------------------------
(* Jumps so far from each other and from the ends. *)
Spaced(N, degree, S) ==
  /\ \A k \in S : k >= degree /\ k + degree <= N
  /\ \A k, l \in S : k < l => l - k > 2 * degree

(* What the differences of such a series hold. *)
Patterned(N, degree, slips, diff) ==
  /\ diff \in [1..(N - degree) -> Int]
  /\ \A k \in DOMAIN slips : \A j \in (k - 2 * degree)..(k + degree + 1) :
       j \in 1..(N - degree) => diff[j] = slips[k] * Entry(degree, j - k + degree)
  /\ \A j \in 1..(N - degree) :
       (\A k \in DOMAIN slips : k \notin j..(j + degree - 1)) => diff[j] = 0

LEMMA DifferenceIsPatterned ==
  ASSUME NEW N \in Nat, NEW degree \in Nat, degree >= 2, degree < N,
         NEW vals \in [1..N -> Int], NEW slope \in Int,
         NEW S \in SUBSET Int, NEW slips \in [S -> Int],
         Jumping(N, vals, slope, slips), Spaced(N, degree, S)
  PROVE  Patterned(N, degree, slips, Difference(vals, degree))
<1>1. degree \in 0..N /\ degree \in 1..(N - 1) /\ degree \in 1..degree
  OBVIOUS
<1>2. PICK D : Differences(N, vals, degree, D) /\ Difference(vals, degree) = D[degree]
  BY <1>1, DifferencesOf
<1>3. LevelHas(degree, N, slope, slips, D)
  BY <1>1, <1>2, LevelsHave
<1>4. Rest(degree, slope) = 0 /\ DOMAIN slips = S
  BY DEF Rest
<1>5. D[degree] \in [1..(N - degree) -> Int]
  BY <1>1, <1>2 DEF Differences
<1>6. ASSUME NEW k \in S, NEW j \in (k - 2 * degree)..(k + degree + 1), j \in 1..(N - degree)
      PROVE  D[degree][j] = slips[k] * Entry(degree, j - k + degree)
  <2>1. \A l \in S : l \in j..(j + degree - 1) => l = k
    <3> SUFFICES ASSUME NEW l \in S, l \in j..(j + degree - 1), l # k PROVE FALSE
      OBVIOUS
    <3>1. k \in Int /\ l \in Int
      OBVIOUS
    <3>2. (k < l => l - k > 2 * degree) /\ (l < k => k - l > 2 * degree)
      BY DEF Spaced
    <3> QED BY <1>6, <3>1, <3>2
  <2>2. D[degree][j] = Rest(degree, slope) + slips[k] * Entry(degree, j - k + degree)
    BY <1>3, <1>4, <1>6, <2>1 DEF LevelHas
  <2>3. j - k + degree \in Int /\ slips[k] \in Int /\ degree \in Nat \ {0}
    OBVIOUS
  <2>4. Entry(degree, j - k + degree) \in Int
    BY <2>3, EntryIs
  <2>5. slips[k] * Entry(degree, j - k + degree) \in Int
    BY <2>3, <2>4
  <2> QED BY <1>4, <2>2, <2>5
<1>7. ASSUME NEW j \in 1..(N - degree), \A k \in S : k \notin j..(j + degree - 1)
      PROVE  D[degree][j] = 0
  BY <1>3, <1>4, <1>7 DEF LevelHas
<1> QED
  BY <1>2, <1>4, <1>5, <1>6, <1>7 DEF Patterned

(* The windows that match begin with the differences of a jump, and for    *)
(* second differences one later, too (cycle_slip_edit.cpp:21-38).          *)
LEMMA SlipWindows ==
  ASSUME NEW N \in Nat, NEW degree \in Nat, degree >= 2,
         NEW S \in SUBSET Int, NEW slips \in [S -> Int \ {0}], NEW diff,
         Spaced(N, degree, S), Patterned(N, degree, slips, diff),
         NEW i \in 0..(N - 2 * degree)
  PROVE  IsSlip(diff, degree, i)
           <=> \E k \in S : i = k - degree \/ (degree = 2 /\ i = k - 1)
<1>1. ASSUME NEW k \in S, NEW s \in 0..(degree - 1), i = k - degree + s
      PROVE  IsSlip(diff, degree, i) <=> (s = 0 \/ (degree = 2 /\ s = 1))
  <2> DEFINE w == [j \in 1..degree |-> diff[i + j]]
             c == slips[k]
  <2>1. c \in Int /\ c # 0 /\ k \in Int /\ DOMAIN slips = S
    OBVIOUS
  <2>2. ASSUME NEW j \in 1..degree PROVE w[j] = c * Entry(degree, s + j)
    <3>1. i + j \in (k - 2 * degree)..(k + degree + 1) /\ i + j \in 1..(N - degree)
      BY <1>1, <2>1
    <3>2. (i + j) - k + degree = s + j
      BY <1>1, <2>1
    <3>3. diff[i + j] = c * Entry(degree, (i + j) - k + degree)
      BY <2>1, <3>1 DEF Patterned
    <3> QED BY <3>2, <3>3
  <2>3. IsSlip(diff, degree, i) <=> MatchesPattern(degree, w)
    <3>1. 1 \in 1..degree
      OBVIOUS
    <3> QED BY <3>1 DEF IsSlip, MatchesPattern
  <2>4. MatchesPattern(degree, w) <=> (s = 0 \/ (degree = 2 /\ s = 1))
    <3>1. degree \in Nat /\ degree >= 2 /\ s \in 0..(degree - 1) /\ Shows(degree, s, c, w)
      BY <2>2 DEF Shows
    <3> HIDE DEF w, c
    <3> QED BY ONLY <2>1, <3>1, PatternFits
  <2> QED BY <2>3, <2>4
<1>2. ASSUME NEW k \in S, i = k - degree \/ (degree = 2 /\ i = k - 1)
      PROVE  IsSlip(diff, degree, i)
  <2>1. CASE i = k - degree
    <3>1. 0 \in 0..(degree - 1) /\ i = k - degree + 0
      BY <2>1
    <3> QED BY <1>1, <3>1
  <2>2. CASE degree = 2 /\ i = k - 1
    <3>1. 1 \in 0..(degree - 1) /\ i = k - degree + 1
      BY <2>2
    <3> QED BY <1>1, <2>2, <3>1
  <2> QED BY <1>2, <2>1, <2>2
<1>3. ASSUME IsSlip(diff, degree, i)
      PROVE  \E k \in S : i = k - degree \/ (degree = 2 /\ i = k - 1)
  <2>1. diff[i + 1] # 0
    <3>1. 1 \in 1..degree
      OBVIOUS
    <3> QED BY <1>3, <3>1 DEF IsSlip, WithinPct
  <2>2. PICK k \in S : k \in (i + 1)..((i + 1) + degree - 1)
    <3>1. i + 1 \in 1..(N - degree) /\ DOMAIN slips = S
      OBVIOUS
    <3> QED BY <2>1, <3>1 DEF Patterned
  <2> DEFINE s == i - (k - degree)
  <2>3. s \in 0..(degree - 1) /\ i = k - degree + s
    BY <2>2
  <2>4. s = 0 \/ (degree = 2 /\ s = 1)
    <3> HIDE DEF s
    <3> QED BY <1>1, <1>3, <2>3
  <2>5. i = k - degree \/ (degree = 2 /\ i = k - 1)
    BY <2>2, <2>4
  <2> QED BY <2>5
<1> QED
  BY <1>2, <1>3

(* boost::icl::interval_set joins what covers the differences of one jump, *)
(* and keeps the jumps apart.                                              *)
LEMMA JoinedIs ==
  ASSUME NEW S \in SUBSET Int, NEW lo \in [S -> Int], NEW hi \in [S -> Int], NEW covered,
         \A k \in S : lo[k] <= hi[k],
         \A k, l \in S : k < l => hi[k] + 1 < lo[l],
         \A x : x \in covered <=> \E k \in S : x \in lo[k]..hi[k]
  PROVE  Joined(covered) = {<<lo[k], hi[k]>> : k \in S}
<1> USE DEF Joined
<1>1. \A x \in covered : x \in Int
  OBVIOUS
<1>2. ASSUME NEW k \in S PROVE <<lo[k], hi[k]>> \in Joined(covered)
  <2> DEFINE b == <<lo[k], hi[k]>>
  <2>1. lo[k] \in Int /\ hi[k] \in Int /\ lo[k] <= hi[k] /\ k \in Int
    OBVIOUS
  <2>2. lo[k] \in covered /\ hi[k] \in covered /\ lo[k]..hi[k] \subseteq covered
    BY <2>1
  <2>3. ASSUME NEW l \in S PROVE lo[k] - 1 \notin lo[l]..hi[l] /\ hi[k] + 1 \notin lo[l]..hi[l]
    <3>1. l \in Int /\ lo[l] \in Int /\ hi[l] \in Int /\ lo[l] <= hi[l]
      OBVIOUS
    <3>2. (k < l => hi[k] + 1 < lo[l]) /\ (l < k => hi[l] + 1 < lo[k])
      OBVIOUS
    <3>3. CASE l = k
      BY <2>1, <3>3
    <3>4. CASE k < l
      BY <2>1, <3>1, <3>2, <3>4
    <3>5. CASE l < k
      BY <2>1, <3>1, <3>2, <3>5
    <3> QED BY <2>1, <3>1, <3>3, <3>4, <3>5
  <2>4. lo[k] - 1 \notin covered /\ hi[k] + 1 \notin covered
    BY <2>3
  <2> QED BY <2>1, <2>2, <2>4
<1>3. ASSUME NEW b \in Joined(covered) PROVE \E k \in S : b = <<lo[k], hi[k]>>
  <2>1. /\ b = <<b[1], b[2]>> /\ b[1] \in covered /\ b[2] \in covered /\ b[1] <= b[2]
        /\ b[1]..b[2] \subseteq covered /\ b[1] - 1 \notin covered /\ b[2] + 1 \notin covered
    OBVIOUS
  <2>2. PICK k \in S : b[1] \in lo[k]..hi[k]
    BY <2>1
  <2>3. b[1] \in Int /\ b[2] \in Int /\ lo[k] \in Int /\ hi[k] \in Int /\ k \in Int
    BY <1>1, <2>1
  <2>4. b[1] = lo[k]
    <3>1. b[1] - 1 \notin lo[k]..hi[k]
      BY <2>1
    <3> DEFINE p == b[1]
               q == lo[k]
               r == hi[k]
    <3>2. p \in Int /\ q \in Int /\ r \in Int /\ p \in q..r /\ p - 1 \notin q..r
      BY ONLY <2>2, <2>3, <3>1
    <3> HIDE DEF p, q, r
    <3>3. p = q
      BY ONLY <3>2
    <3> QED BY ONLY <3>3 DEF p, q
  <2>5. b[2] <= hi[k]
    <3> SUFFICES ASSUME b[2] > hi[k] PROVE FALSE
      BY <2>3
    <3>1. hi[k] + 1 \in b[1]..b[2]
      BY <2>2, <2>3
    <3>2. hi[k] + 1 \in covered
      BY <2>1, <3>1
    <3>3. PICK l \in S : hi[k] + 1 \in lo[l]..hi[l]
      BY <3>2
    <3>4. l \in Int /\ lo[l] \in Int /\ hi[l] \in Int
      OBVIOUS
    <3>5. (k < l => hi[k] + 1 < lo[l]) /\ (l < k => hi[l] + 1 < lo[k])
      OBVIOUS
    <3>6. lo[k] <= hi[k]
      OBVIOUS
    <3> QED BY ONLY <2>3, <3>3, <3>4, <3>5, <3>6
  <2>6. b[2] = hi[k]
    <3>1. b[2] + 1 \notin lo[k]..hi[k]
      BY <2>1
    <3> QED BY <2>1, <2>3, <2>4, <2>5, <3>1, SMTT(30)
  <2> QED BY <2>1, <2>4, <2>6
<1> HIDE DEF Joined
<1> QED
  BY <1>2, <1>3

(* Where the differences of a jump that match begin, and where they end. *)
FirstOf(degree, k) == k - degree
LastOf(N, degree, k) == IF degree = 2 /\ k - 1 <= N - 4 THEN k + 1 ELSE k

(* What SlipsFound asks of an answer r. *)
FindsJumps(r, degree, slips) ==
  LET S == DOMAIN slips
  IN  IF degree \in S THEN r.end = "undefined"
      ELSE
      /\ r.end = "returns"
      /\ Len(r.intervals) = Cardinality(S)
      /\ {r.intervals[j][1] : j \in DOMAIN r.intervals} = S
      /\ \A j \in DOMAIN r.intervals :
           LET here == r.intervals[j] IN
           /\ here[2] > here[1] + degree
           /\ \A k \in S : k > here[1] => here[2] <= k
      /\ \A j \in DOMAIN r.cycle_slips :
           r.cycle_slips[j] = slips[r.intervals[j][1]]

(* The windows that match, put together. *)
Matching(diff, degree) == {i \in 0..(Len(diff) - degree) : IsSlip(diff, degree, i)}

LEMMA SlipsJoined ==
  ASSUME NEW N \in Nat, NEW degree \in Nat, degree >= 2,
         NEW S \in SUBSET Int, NEW slips \in [S -> Int \ {0}], NEW diff,
         Spaced(N, degree, S), Patterned(N, degree, slips, diff), Len(diff) = N - degree
  PROVE  Joined(UNION {i..(i + degree) : i \in Matching(diff, degree)})
           = {<<FirstOf(degree, k), LastOf(N, degree, k)>> : k \in S}
<1> DEFINE W == Matching(diff, degree)
           covered == UNION {i..(i + degree) : i \in W}
           lo == [k \in S |-> FirstOf(degree, k)]
           hi == [k \in S |-> LastOf(N, degree, k)]
<1>1. ASSUME NEW i
      PROVE  i \in W <=> /\ i \in 0..(N - 2 * degree)
                         /\ \E k \in S : i = k - degree \/ (degree = 2 /\ i = k - 1)
  <2>1. (N - degree) - degree = N - 2 * degree
    OBVIOUS
  <2>2. i \in W <=> i \in 0..(N - 2 * degree) /\ IsSlip(diff, degree, i)
    BY <2>1 DEF Matching
  <2>3. i \in 0..(N - 2 * degree) =>
          (IsSlip(diff, degree, i)
             <=> \E k \in S : i = k - degree \/ (degree = 2 /\ i = k - 1))
    BY SlipWindows
  <2> HIDE DEF W
  <2> QED BY <2>2, <2>3
<1>2. ASSUME NEW k \in S
      PROVE  /\ k \in Int /\ k - degree \in 0..(N - 2 * degree)
             /\ lo[k] = k - degree /\ hi[k] \in {k, k + 1} /\ lo[k] <= hi[k]
             /\ lo[k] \in Int /\ hi[k] \in Int
  BY DEF Spaced, FirstOf, LastOf
<1>3. \A k, l \in S : k < l => hi[k] + 1 < lo[l]
  <2> SUFFICES ASSUME NEW k \in S, NEW l \in S, k < l PROVE hi[k] + 1 < lo[l]
    OBVIOUS
  <2>1. l - k > 2 * degree
    BY DEF Spaced
  <2>2. k \in Int /\ l \in Int /\ lo[l] = l - degree /\ hi[k] \in {k, k + 1}
    BY <1>2
  <2> HIDE DEF lo, hi
  <2> QED BY <2>1, <2>2
<1>4. ASSUME NEW x PROVE x \in covered <=> \E k \in S : x \in lo[k]..hi[k]
  <2>1. ASSUME x \in covered PROVE \E k \in S : x \in lo[k]..hi[k]
    <3>1. PICK i \in W : x \in i..(i + degree)
      BY <2>1
    <3>2. i \in 0..(N - 2 * degree)
      BY <1>1
    <3>3. PICK k \in S : i = k - degree \/ (degree = 2 /\ i = k - 1)
      BY <1>1
    <3>4. x \in lo[k]..hi[k]
      <4>1. k \in Int /\ lo[k] = k - degree /\ hi[k] \in {k, k + 1} /\ hi[k] \in Int
        BY <1>2
      <4>2. degree = 2 /\ i = k - 1 => hi[k] = k + 1
        BY <3>2, <4>1 DEF LastOf
      <4> HIDE DEF lo, hi, W
      <4> QED BY <3>1, <3>2, <3>3, <4>1, <4>2
    <3> QED BY <3>4
  <2>2. ASSUME NEW k \in S, x \in lo[k]..hi[k] PROVE x \in covered
    <3>1. /\ k \in Int /\ lo[k] = k - degree /\ hi[k] \in {k, k + 1} /\ hi[k] \in Int
          /\ k - degree \in 0..(N - 2 * degree)
      BY <1>2
    <3>2. x \in Int /\ x >= k - degree /\ x <= hi[k]
      <4> HIDE DEF lo, hi
      <4> QED BY <2>2, <3>1
    <3>3. CASE x <= k
      <4>1. k - degree \in W
        BY <1>1, <3>1
      <4>2. x \in (k - degree)..((k - degree) + degree)
        BY <3>1, <3>2, <3>3
      <4> HIDE DEF W
      <4> QED BY <4>1, <4>2
    <3>4. CASE x > k
      <4>1. x = k + 1 /\ hi[k] # k
        <5> HIDE DEF lo, hi
        <5> QED BY <3>1, <3>2, <3>4
      <4>2. degree = 2 /\ k - 1 <= N - 4
        BY <4>1 DEF LastOf
      <4>3. k - 1 \in 0..(N - 2 * degree)
        BY <3>1, <4>2
      <4>4. k - 1 \in W
        BY <1>1, <4>2, <4>3
      <4>5. x \in (k - 1)..((k - 1) + degree)
        BY <3>1, <4>1, <4>2
      <4> HIDE DEF W
      <4> QED BY <4>4, <4>5
    <3> QED BY <3>1, <3>2, <3>3, <3>4
  <2> QED BY <2>1, <2>2
<1>5. lo \in [S -> Int] /\ hi \in [S -> Int]
  <2>1. \A k \in S : FirstOf(degree, k) \in Int /\ LastOf(N, degree, k) \in Int
    BY DEF FirstOf, LastOf
  <2> QED BY <2>1
<1>6. \A k \in S : lo[k] <= hi[k]
  BY <1>2
<1>7. Joined(covered) = {<<lo[k], hi[k]>> : k \in S}
  <2> HIDE DEF covered, lo, hi
  <2> QED BY ONLY S \in SUBSET Int, <1>3, <1>4, <1>5, <1>6, JoinedIs
<1> QED
  BY <1>7

(* The intervals in the order of the set, one for every jump. *)
Firsts(joined) == {b[1] : b \in joined}

Found(joined) ==
  [j \in 1..Cardinality(Firsts(joined)) |->
     CHOOSE b \in joined : b[1] = Nth(Firsts(joined), j)]

Pairs(S, lo, hi) == {<<lo[k], hi[k]>> : k \in S}

InOrder(S, lo, hi, found) ==
  /\ Cardinality(S) \in Nat /\ DOMAIN found = 1..Cardinality(S)
  /\ \A j \in 1..Cardinality(S) : \E k \in S : found[j] = <<lo[k], hi[k]>>
  /\ \A k \in S : \E j \in 1..Cardinality(S) : found[j] = <<lo[k], hi[k]>>

LEMMA IntervalsInOrder ==
  ASSUME NEW S, IsFiniteSet(S), NEW lo \in [S -> Nat], NEW hi \in [S -> Int], NEW joined,
         joined = Pairs(S, lo, hi), \A k, l \in S : lo[k] = lo[l] => k = l
  PROVE  InOrder(S, lo, hi, Found(joined))
<1> DEFINE firsts == Firsts(joined)
           found == Found(joined)
<1>1. ASSUME NEW x PROVE x \in firsts <=> \E k \in S : x = lo[k]
  <2>1. x \in firsts <=> \E b \in joined : x = b[1]
    BY DEF Firsts
  <2>2. \A b : b \in joined <=> \E k \in S : b = <<lo[k], hi[k]>>
    BY DEF Pairs
  <2>3. ASSUME NEW b \in joined, x = b[1] PROVE \E k \in S : x = lo[k]
    <3>1. PICK k \in S : b = <<lo[k], hi[k]>>
      BY <2>2, <2>3
    <3> QED BY <2>3, <3>1
  <2>4. ASSUME NEW k \in S, x = lo[k] PROVE \E b \in joined : x = b[1]
    <3>1. <<lo[k], hi[k]>> \in joined /\ x = <<lo[k], hi[k]>>[1]
      BY <2>2, <2>4
    <3> QED BY <3>1
  <2> QED BY <2>1, <2>3, <2>4
<1>2. IsFiniteSet(firsts) /\ Cardinality(firsts) = Cardinality(S)
  <2> DEFINE g == [k \in S |-> lo[k]]
  <2>1. g \in [S -> firsts] /\ \A x \in firsts : \E k \in S : g[k] = x
    BY <1>1
  <2>2. \A k, l \in S : g[k] = g[l] => k = l
    OBVIOUS
  <2>3. g \in Bijection(S, firsts)
    <3> HIDE DEF g
    <3> QED BY <2>1, <2>2 DEF Bijection, Injection, Surjection, IsInjective
  <2> HIDE DEF g
  <2> QED BY <2>3, FS_Bijection DEF ExistsBijection
<1>3. firsts \in SUBSET Nat /\ Cardinality(S) \in Nat
  BY <1>1, FS_CardinalityType
<1>4. ASSUME NEW k \in S, NEW j \in 1..Cardinality(S), Nth(firsts, j) = lo[k]
      PROVE  found[j] = <<lo[k], hi[k]>>
  <2> DEFINE b == CHOOSE b \in joined : b[1] = Nth(firsts, j)
  <2>1. found[j] = b
    BY <1>2 DEF Found
  <2>2. <<lo[k], hi[k]>> \in joined /\ <<lo[k], hi[k]>>[1] = Nth(firsts, j)
    BY <1>4 DEF Pairs
  <2>3. b \in joined /\ b[1] = Nth(firsts, j)
    BY <2>2
  <2> HIDE DEF b
  <2>4. PICK l \in S : b = <<lo[l], hi[l]>>
    BY <2>3 DEF Pairs
  <2>5. lo[l] = lo[k]
    BY <1>4, <2>3, <2>4
  <2>6. l = k
    BY <2>5
  <2> QED BY <2>1, <2>4, <2>6
<1>5. ASSUME NEW j \in 1..Cardinality(S) PROVE \E k \in S : found[j] = <<lo[k], hi[k]>>
  <2>1. Nth(firsts, j) \in firsts
    BY <1>2, <1>3, NthIsNth
  <2>2. PICK k \in S : Nth(firsts, j) = lo[k]
    BY <1>1, <2>1
  <2> QED BY <1>4, <2>2
<1>6. ASSUME NEW k \in S PROVE \E j \in 1..Cardinality(S) : found[j] = <<lo[k], hi[k]>>
  <2>1. lo[k] \in firsts
    BY <1>1
  <2>2. PICK j \in 1..Cardinality(S) : Nth(firsts, j) = lo[k]
    BY <1>2, <1>3, <2>1, EveryPositionIsNth
  <2> QED BY <1>4, <2>2
<1>7. DOMAIN found = 1..Cardinality(S)
  BY <1>2 DEF Found
<1> QED
  BY <1>2, <1>3, <1>5, <1>6, <1>7 DEF InOrder

(* diff_detect() on a series with jumps (cycle_slip_edit.cpp:9-53) *)
LEMMA DetectsJumps ==
  ASSUME NEW N \in Nat, NEW degree \in Nat, degree >= 2, degree < N,
         NEW vals \in [1..N -> Int], NEW slope \in Int,
         NEW S \in SUBSET Int, NEW slips \in [S -> Int \ {0}],
         Jumping(N, vals, slope, slips), Spaced(N, degree, S)
  PROVE  FindsJumps(DiffDetect(vals, degree), degree, slips)
<1> DEFINE diff == Difference(vals, degree)
           joined == Joined(UNION {i..(i + degree) : i \in Matching(diff, degree)})
           found == Found(joined)
           lo == [k \in S |-> FirstOf(degree, k)]
           hi == [k \in S |-> LastOf(N, degree, k)]
           c == Cardinality(S)
           report == [end |-> "returns",
                      intervals |-> [j \in DOMAIN found |->
                                       <<found[j][1] + degree, found[j][2] + degree + 1>>],
                      cycle_slips |-> [j \in DOMAIN found |->
                                         diff[found[j][1] + 1] - diff[found[j][1]]]]
<1>1. DiffDetect(vals, degree) = IF \E j \in DOMAIN found : found[j][1] = 0
                                 THEN [end |-> "undefined"] ELSE report
  BY DEF DiffDetect, Matching, Firsts, Found
<1>2. slips \in [S -> Int] /\ DOMAIN slips = S
  OBVIOUS
<1>3. Patterned(N, degree, slips, diff)
  BY <1>2, DifferenceIsPatterned
<1>4. diff \in [1..(N - degree) -> Int] /\ Len(diff) = N - degree
  <2>1. diff \in [1..(N - degree) -> Int]
    BY <1>3 DEF Patterned
  <2>2. N - degree \in Int /\ N - degree >= 0
    OBVIOUS
  <2> HIDE DEF diff
  <2> QED BY <2>1, <2>2, LevelIsSequence
<1>5. joined = {<<lo[k], hi[k]>> : k \in S}
  <2>1. joined = {<<FirstOf(degree, k), LastOf(N, degree, k)>> : k \in S}
    <3> HIDE DEF diff
    <3> QED BY <1>3, <1>4, SlipsJoined, ZenonT(30)
  <2> HIDE DEF joined
  <2> QED BY <2>1
<1>6. ASSUME NEW k \in S
      PROVE  /\ k \in Int /\ k >= degree /\ k + degree <= N
             /\ lo[k] = k - degree /\ hi[k] \in {k, k + 1} /\ lo[k] \in Nat /\ hi[k] \in Int
  BY DEF Spaced, FirstOf, LastOf
<1>7. IsFiniteSet(S)
  <2>1. S \in SUBSET (0..N)
    BY <1>6
  <2>2. IsFiniteSet(0..N)
    BY FS_Interval
  <2> QED BY <2>1, <2>2, FS_Subset
<1>8. lo \in [S -> Nat] /\ hi \in [S -> Int] /\ \A k, l \in S : lo[k] = lo[l] => k = l
  <2>1. \A k \in S : lo[k] \in Nat /\ hi[k] \in Int
    BY <1>6
  <2>2. \A k, l \in S : lo[k] = lo[l] => k = l
    <3> SUFFICES ASSUME NEW k \in S, NEW l \in S, lo[k] = lo[l] PROVE k = l
      OBVIOUS
    <3>1. k \in Int /\ l \in Int /\ lo[k] = k - degree /\ lo[l] = l - degree
      BY <1>6
    <3>2. k - degree = l - degree
      BY <3>1
    <3> QED BY <3>1, <3>2
  <2> QED BY <2>1, <2>2
<1> HIDE DEF diff, joined, lo, hi
<1>9. /\ c \in Nat /\ DOMAIN found = 1..c
      /\ \A j \in 1..c : \E k \in S : found[j] = <<lo[k], hi[k]>>
      /\ \A k \in S : \E j \in 1..c : found[j] = <<lo[k], hi[k]>>
  <2>1. joined = Pairs(S, lo, hi)
    BY <1>5 DEF Pairs
  <2>2. InOrder(S, lo, hi, Found(joined))
    BY ONLY <1>7, <1>8, <2>1, IntervalsInOrder
  <2> QED BY <2>2 DEF InOrder
<1> HIDE DEF found, c
<1>10. CASE degree \in S
  <2>1. lo[degree] = 0
    BY <1>6, <1>10
  <2>2. PICK j \in 1..c : found[j] = <<lo[degree], hi[degree]>>
    BY <1>9, <1>10
  <2>3. j \in DOMAIN found /\ found[j][1] = 0
    BY <1>9, <2>1, <2>2
  <2>4. DiffDetect(vals, degree) = [end |-> "undefined"]
    BY <1>1, <2>3
  <2> QED BY <1>2, <1>10, <2>4 DEF FindsJumps
<1>11. CASE degree \notin S
  <2>1. \A j \in DOMAIN found : found[j][1] # 0
    <3> SUFFICES ASSUME NEW j \in 1..c PROVE found[j][1] # 0
      BY <1>9
    <3>1. PICK k \in S : found[j] = <<lo[k], hi[k]>>
      BY <1>9
    <3>2. k # degree /\ k \in Int /\ lo[k] = k - degree
      BY <1>6, <1>11
    <3> QED BY <3>1, <3>2
  <2>2. DiffDetect(vals, degree) = report
    BY <1>1, <2>1
  <2> DEFINE intervals == report.intervals
             sizes == report.cycle_slips
  <2>3. DOMAIN intervals = 1..c /\ DOMAIN sizes = 1..c /\ Len(intervals) = c
    BY <1>9
  <2> HIDE DEF report
  <2>4. /\ report.end = "returns"
        /\ \A j \in DOMAIN found :
             /\ intervals[j] = <<found[j][1] + degree, found[j][2] + degree + 1>>
             /\ sizes[j] = diff[found[j][1] + 1] - diff[found[j][1]]
    BY DEF report
  <2>5. ASSUME NEW j \in 1..c, NEW k \in S, found[j] = <<lo[k], hi[k]>>
        PROVE  /\ intervals[j] = <<k, hi[k] + degree + 1>>
               /\ sizes[j] = slips[k]
    <3>1. /\ k \in Int /\ k >= degree /\ k + degree <= N /\ k # degree
          /\ lo[k] = k - degree /\ hi[k] \in {k, k + 1}
      BY <1>6, <1>11
    <3>2. /\ intervals[j] = <<lo[k] + degree, hi[k] + degree + 1>>
          /\ sizes[j] = diff[lo[k] + 1] - diff[lo[k]]
      <4>1. found[j][1] = lo[k] /\ found[j][2] = hi[k] /\ j \in DOMAIN found
        BY <1>9, <2>5
      <4>2. intervals[j] = <<found[j][1] + degree, found[j][2] + degree + 1>>
        BY <2>4, <4>1
      <4>3. sizes[j] = diff[found[j][1] + 1] - diff[found[j][1]]
        BY <2>4, <4>1
      <4> QED BY <4>1, <4>2, <4>3
    <3>3. diff[lo[k] + 1] = slips[k]
      <4>1. lo[k] + 1 \in (k - 2 * degree)..(k + degree + 1) /\ lo[k] + 1 \in 1..(N - degree)
        BY <3>1
      <4>2. diff[lo[k] + 1] = slips[k] * Entry(degree, (lo[k] + 1) - k + degree)
        BY <1>2, <1>3, <4>1 DEF Patterned
      <4>3. (lo[k] + 1) - k + degree = 1 /\ slips[k] \in Int
        BY <1>2, <3>1
      <4>4. Entry(degree, 1) = 1
        <5>1. degree \in Nat \ {0} /\ 1 \in 1..degree /\ 1 - 1 = 0 /\ degree - 1 \in Nat
          OBVIOUS
        <5>2. Entry(degree, 1) = Chosen(degree - 1, 1 - 1)
          BY <5>1, EntrySigns
        <5> QED BY <5>1, <5>2, NoChoices
      <4> QED BY <4>2, <4>3, <4>4
    <3>4. diff[lo[k]] = 0
      <4>1. lo[k] \in (k - 2 * degree)..(k + degree + 1) /\ lo[k] \in 1..(N - degree)
        BY <3>1
      <4>2. diff[lo[k]] = slips[k] * Entry(degree, lo[k] - k + degree)
        BY <1>2, <1>3, <4>1 DEF Patterned
      <4>3. lo[k] - k + degree = 0 /\ slips[k] \in Int
        BY <1>2, <3>1
      <4>4. Entry(degree, 0) = 0
        BY DEF Entry
      <4> QED BY <4>2, <4>3, <4>4
    <3>5. slips[k] - 0 = slips[k] /\ lo[k] + degree = k
      BY <1>2, <3>1
    <3> HIDE DEF intervals, sizes
    <3> QED BY <3>2, <3>3, <3>4, <3>5
  <2> HIDE DEF intervals, sizes
  <2>6. {intervals[j][1] : j \in 1..c} = S
    <3>1. ASSUME NEW j \in 1..c PROVE intervals[j][1] \in S
      <4>1. PICK k \in S : found[j] = <<lo[k], hi[k]>>
        BY <1>9
      <4>2. intervals[j] = <<k, hi[k] + degree + 1>>
        BY <2>5, <4>1
      <4> QED BY <4>2
    <3>2. ASSUME NEW k \in S PROVE \E j \in 1..c : intervals[j][1] = k
      <4>1. PICK j \in 1..c : found[j] = <<lo[k], hi[k]>>
        BY <1>9
      <4>2. intervals[j] = <<k, hi[k] + degree + 1>>
        BY <2>5, <4>1
      <4> QED BY <4>2
    <3> QED BY <3>1, <3>2, SMTT(30)
  <2>7. ASSUME NEW j \in 1..c
        PROVE  /\ intervals[j][2] > intervals[j][1] + degree
               /\ \A l \in S : l > intervals[j][1] => intervals[j][2] <= l
    <3>1. PICK k \in S : found[j] = <<lo[k], hi[k]>>
      BY <1>9
    <3>2. intervals[j] = <<k, hi[k] + degree + 1>>
      BY <2>5, <3>1
    <3>3. k \in Int /\ hi[k] \in {k, k + 1}
      BY <1>6
    <3>4. ASSUME NEW l \in S, l > k PROVE hi[k] + degree + 1 <= l
      <4>1. l \in Int /\ l - k > 2 * degree
        BY <3>3, <3>4 DEF Spaced
      <4> QED BY <3>3, <4>1
    <3> QED BY <3>2, <3>3, <3>4
  <2>8. ASSUME NEW j \in 1..c PROVE sizes[j] = slips[intervals[j][1]]
    <3>1. PICK k \in S : found[j] = <<lo[k], hi[k]>>
      BY <1>9
    <3> QED BY <2>5, <3>1
  <2>9. report.end = "returns" /\ report.intervals = intervals /\ report.cycle_slips = sizes
    BY <2>4 DEF intervals, sizes
  <2>10. FindsJumps(report, degree, slips)
    <3>1. DOMAIN report.intervals = 1..c /\ DOMAIN report.cycle_slips = 1..c
      BY <2>3, <2>9
    <3>2. {report.intervals[j][1] : j \in DOMAIN report.intervals} = S
      BY <2>6, <2>9, <3>1
    <3>3. Len(report.intervals) = Cardinality(S)
      BY <2>3, <2>9 DEF c
    <3>4. \A j \in DOMAIN report.intervals :
            /\ report.intervals[j][2] > report.intervals[j][1] + degree
            /\ \A l \in S : l > report.intervals[j][1] => report.intervals[j][2] <= l
      BY <2>7, <2>9, <3>1
    <3>5. \A j \in DOMAIN report.cycle_slips :
            report.cycle_slips[j] = slips[report.intervals[j][1]]
      BY <2>8, <2>9, <3>1
    <3> QED BY ONLY <1>2, <1>11, <2>9, <3>2, <3>3, <3>4, <3>5, Zenon DEF FindsJumps
  <2> QED BY <2>2, <2>10
<1> QED
  BY <1>10, <1>11

(* The series of a call jump by jump. *)
LEMMA SeriesJumps ==
  ASSUME AlgorithmsAssumption, NEW degree \in Degrees, NEW slope \in 0..1,
         NEW S \in Findable(degree), NEW slips \in [S -> Sizes \union {-z : z \in Sizes}]
  PROVE  LET N == SeriesLength(degree)
             vals == Series(degree, slope, slips)
         IN  /\ N \in Nat /\ degree \in Nat /\ degree >= 2 /\ degree < N
             /\ vals \in [1..N -> Int] /\ slope \in Int
             /\ S \in SUBSET Int /\ slips \in [S -> Int \ {0}]
             /\ Jumping(N, vals, slope, slips) /\ Spaced(N, degree, S)
<1> DEFINE N == SeriesLength(degree)
           vals == Series(degree, slope, slips)
           Jump(j) == IF j \in DOMAIN slips THEN slips[j] ELSE 0
           Unfold(g, j) == IF j = 0 THEN 0 ELSE g[j - 1] + slope + Jump(j - 1)
           Solves(g) == g = [j \in 0..N |-> Unfold(g, j)]
           step == [j \in 1..N |-> [r \in Int |-> r + slope + Jump(j - 1)]]
<1>1. degree \in Nat /\ degree >= 2 /\ slope \in Int
  BY DEF AlgorithmsAssumption
<1>2. N \in Nat /\ degree < N
  <2>1. Jumps \in Nat /\ Jumps > 0
    BY DEF AlgorithmsAssumption
  <2> DEFINE x == 2 * degree + 1
  <2>2. x \in Nat /\ x > degree
    BY <1>1
  <2>3. N = x * Jumps
    BY DEF SeriesLength
  <2>4. x * Jumps \in Nat /\ x * Jumps >= x
    <3> HIDE DEF x
    <3> QED BY <2>1, <2>2
  <2> HIDE DEF N, x
  <2> QED BY <1>1, <2>2, <2>3, <2>4
<1>3. /\ S \in SUBSET (0..(N - 1))
      /\ \A k \in S : k >= degree /\ k + degree <= N
      /\ \A k, l \in S : k < l => l - k > 2 * degree
  BY DEF Findable
<1>4. S \in SUBSET Int /\ Spaced(N, degree, S)
  BY <1>2, <1>3 DEF Spaced
<1>5. slips \in [S -> Int \ {0}] /\ DOMAIN slips = S
  <2>1. \A z \in Sizes : z \in Int /\ -z \in Int /\ z # 0 /\ -z # 0
    BY DEF AlgorithmsAssumption
  <2> QED BY <2>1
<1>6. \A j \in Int : Jump(j) \in Int
  BY <1>5
<1> HIDE DEF N, Jump
<1>7. step \in [1..N -> [Int -> Int]]
  <2>1. \A j \in 1..N : \A r \in Int : r + slope + Jump(j - 1) \in Int
    BY <1>1, <1>2, <1>6
  <2> QED BY <2>1
<1>8. PICK f \in [0..N -> Int] : Recursion(N, 0, step, f)
  <2>1. 0 \in Int
    OBVIOUS
  <2> HIDE DEF step
  <2> QED BY ONLY <1>2, <1>7, <2>1, RecursionExists
<1>9. Solves(f)
  <2>1. \A j \in 1..N : f[j - 1] \in Int
    BY <1>2
  <2>2. f[0] = 0 /\ \A j \in 1..N : f[j] = f[j - 1] + slope + Jump(j - 1)
    BY <1>8, <2>1 DEF Recursion
  <2>3. \A j \in 0..N : f[j] = Unfold(f, j)
    BY <1>2, <2>2
  <2>4. f = [j \in 0..N |-> f[j]]
    OBVIOUS
  <2> HIDE DEF Unfold
  <2> QED BY <2>3, <2>4
<1> DEFINE v == CHOOSE g : Solves(g)
<1>10. vals = [j \in 1..N |-> v[j]]
  BY DEF Series, N, Jump
<1>11. Solves(v)
  BY <1>9, ZenonT(30)
<1> HIDE DEF v, vals
<1>12. \A j \in 0..N : v[j] = Unfold(v, j)
  <2> HIDE DEF Unfold
  <2> QED BY <1>11
<1>13. v[0] = 0 /\ \A j \in 1..N : v[j] = v[j - 1] + slope + Jump(j - 1)
  <2>1. 0 \in 0..N /\ \A j \in 1..N : j \in 0..N /\ j # 0
    BY <1>2
  <2> QED BY <1>12, <2>1
<1> HIDE DEF Unfold, Solves
<1>14. \A j \in 0..N : v[j] \in Int
  <2> DEFINE M == {j \in 0..N : v[j] \in Int}
  <2>1. 0 \in M
    BY <1>2, <1>13
  <2>2. ASSUME NEW j \in 1..N, j - 1 \in M PROVE j \in M
    <3>1. v[j - 1] \in Int
      BY <2>2
    <3>2. j - 1 \in Int
      BY <1>2
    <3>3. Jump(j - 1) \in Int
      BY <1>6, <3>2
    <3>4. v[j] = v[j - 1] + slope + Jump(j - 1)
      BY <1>13
    <3>5. v[j] \in Int
      BY <1>1, <3>1, <3>3, <3>4
    <3> QED BY <1>2, <3>5
  <2> HIDE DEF M
  <2>3. \A j \in 0..N : j \in M
    BY <1>2, <2>1, <2>2, UpwardsTo
  <2> QED BY <2>3 DEF M
<1>15. vals \in [1..N -> Int]
  BY <1>2, <1>10, <1>14
<1>16. Jumping(N, vals, slope, slips)
  <2> SUFFICES ASSUME NEW j \in 1..(N - 1)
               PROVE  vals[j + 1] - vals[j]
                        = slope + (IF j \in DOMAIN slips THEN slips[j] ELSE 0)
    BY DEF Jumping
  <2>1. j + 1 \in 1..N /\ j \in 1..N /\ (j + 1) - 1 = j /\ j \in Int /\ j \in 0..N
    BY <1>2
  <2>2. vals[j + 1] = v[j + 1] /\ vals[j] = v[j]
    BY <1>10, <2>1
  <2>3. v[j + 1] = v[(j + 1) - 1] + slope + Jump((j + 1) - 1)
    BY <1>13, <2>1
  <2>4. v[j + 1] = v[j] + slope + Jump(j)
    BY <2>1, <2>3
  <2>5. v[j] \in Int /\ Jump(j) \in Int
    BY <1>6, <1>14, <2>1
  <2>6. vals[j + 1] - vals[j] = slope + Jump(j)
    BY <1>1, <2>2, <2>4, <2>5
  <2> QED BY <2>6 DEF Jump
<1> QED
  BY <1>1, <1>2, <1>4, <1>5, <1>15, <1>16 DEF N, vals

-----------------------------------------------------------------------------
(* Calls *)

(* A call keeps the arguments it was made with, ... *)
Calls ==
  /\ call.fn = "convex_hull_2" => HullCall
  /\ call.fn = "Map_index" => SheetCall
  /\ call.fn = "operator>>" => ChannelCall
  /\ call.fn = "diff_detect" => SlipCall
  /\ call.fn = "eval" => ExpressionCall
  /\ call.fn = "bessel" => BesselCall
  /\ call.fn = "rbessel" => BesselInverseCall
  /\ call.fn \in {"vincenty", "gauss_lemma"} => LineCall
  /\ call.fn = "rvincenty" => VincentyInverseCall
  /\ call.fn = "rgauss_lemma" => GaussInverseCall
  /\ call.fn = "plane" => PlaneCall
  /\ call.fn = "ecef" => EcefCall
  /\ call.fn = "julia_day" => DayCall

(* ... and once it is done it holds what its function makes of them.       *)
Answered ==
  /\ call.fn = "convex_hull_2" => answer = Hull(call.pm, call.sorted)
  /\ call.fn = "Map_index" => answer = MapIndex(call.lat, call.lon, call.scale)
  /\ call.fn = "operator>>" => answer = SentAll(call.from, call.path)
  /\ call.fn = "diff_detect" => answer = DiffDetect(call.vals, call.degree)
  /\ call.fn = "eval" => answer = Evaluated(call.expr, call.len)
  /\ call.fn = "bessel" => answer = BesselSolve(call.line, call.lambda)
  /\ call.fn = "rbessel" =>
       BesselDefined(call.line) /\ answer = BesselRsolve(call.line, call.sigma)
  /\ call.fn = "vincenty" => answer = VincentySolve(call.line)
  /\ call.fn = "rvincenty" =>
       VincentyDefined(call.line) /\ answer = VincentyRsolve(call.line)
  /\ call.fn = "gauss_lemma" => answer = GaussSolve(call.line)
  /\ call.fn = "rgauss_lemma" => answer = GaussRsolve(call.line, call.steep)
  /\ call.fn = "plane" =>
       answer = [solved |-> PlaneRsolve(PlaneSolve(call.a)),
                 converted |-> Xy2da(Da2xy(call.a))]
  /\ call.fn = "ecef" => answer = [lon |-> EcefLongitude(call.lon)]
  /\ call.fn = "julia_day" => answer = [hours |-> JulianHours(call.t)]

AlgorithmsInd ==
  /\ pc \in {"call", "loop", "done"}
  /\ Calls
  /\ pc = "done" => Answered

LEMMA InitCalls == Init => AlgorithmsInd
<1> SUFFICES ASSUME Init PROVE AlgorithmsInd
  OBVIOUS
<1>1. Calls
  <2>1. CASE HullCall
    <3>1. call.fn = "convex_hull_2"
      BY <2>1 DEF HullCall
    <3> QED BY <2>1, <3>1 DEF Calls
  <2>2. CASE SheetCall
    <3>1. call.fn = "Map_index"
      BY <2>2 DEF SheetCall
    <3> QED BY <2>2, <3>1 DEF Calls
  <2>3. CASE ChannelCall
    <3>1. call.fn = "operator>>"
      BY <2>3 DEF ChannelCall
    <3> QED BY <2>3, <3>1 DEF Calls
  <2>4. CASE SlipCall
    <3>1. call.fn = "diff_detect"
      BY <2>4 DEF SlipCall
    <3> QED BY <2>4, <3>1 DEF Calls
  <2>5. CASE ExpressionCall
    <3>1. call.fn = "eval"
      BY <2>5 DEF ExpressionCall
    <3> QED BY <2>5, <3>1 DEF Calls
  <2>6. CASE BesselCall
    <3>1. call.fn = "bessel"
      BY <2>6 DEF BesselCall
    <3> QED BY <2>6, <3>1 DEF Calls
  <2>7. CASE BesselInverseCall
    <3>1. call.fn = "rbessel"
      BY <2>7 DEF BesselInverseCall
    <3> QED BY <2>7, <3>1 DEF Calls
  <2>8. CASE LineCall
    <3>1. call.fn \in {"vincenty", "gauss_lemma"}
      BY <2>8 DEF LineCall
    <3> QED BY <2>8, <3>1 DEF Calls
  <2>8a. CASE VincentyInverseCall
    <3>1. call.fn = "rvincenty"
      BY <2>8a DEF VincentyInverseCall
    <3> QED BY <2>8a, <3>1 DEF Calls
  <2>9. CASE GaussInverseCall
    <3>1. call.fn = "rgauss_lemma"
      BY <2>9 DEF GaussInverseCall
    <3> QED BY <2>9, <3>1 DEF Calls
  <2>10. CASE PlaneCall
    <3>1. call.fn = "plane"
      BY <2>10 DEF PlaneCall
    <3> QED BY <2>10, <3>1 DEF Calls
  <2>11. CASE EcefCall
    <3>1. call.fn = "ecef"
      BY <2>11 DEF EcefCall
    <3> QED BY <2>11, <3>1 DEF Calls
  <2>12. CASE DayCall
    <3>1. call.fn = "julia_day"
      BY <2>12 DEF DayCall
    <3> QED BY <2>12, <3>1 DEF Calls
  <2>13. CASE call = [fn |-> "adjustment"]
    BY <2>13 DEF Calls
  <2> QED
    BY <2>1, <2>2, <2>3, <2>4, <2>5, <2>6, <2>7, <2>8, <2>8a, <2>9, <2>10, <2>11, <2>12, <2>13
       DEF Init, PureInit
<1> QED
  BY <1>1 DEF Init, AlgorithmsInd

LEMMA CallsStay == Calls /\ call' = call => Calls'
<1>1. HullCall /\ call' = call => HullCall'
  BY DEF HullCall
<1>2. SlipCall /\ call' = call => SlipCall'
  BY DEF SlipCall
<1> QED
  BY <1>1, <1>2 DEF Calls, SheetCall, ChannelCall, ExpressionCall, BesselCall, BesselInverseCall,
              LineCall, VincentyInverseCall, GaussInverseCall, PlaneCall, EcefCall, DayCall

LEMMA StepCalls == AlgorithmsInd /\ [Next]_vars => AlgorithmsInd'
<1> SUFFICES ASSUME AlgorithmsInd, [Next]_vars PROVE AlgorithmsInd'
  OBVIOUS
<1>1. call' = call /\ pc' \in {"call", "loop", "done"}
  BY DEF AlgorithmsInd, Next, vars, Answer, Loops, Iterates, Converges, Adjusts
<1>2. Calls'
  BY <1>1, CallsStay DEF AlgorithmsInd
<1>3. ASSUME pc' = "done" PROVE Answered'
  <2>1. CASE UNCHANGED vars
    BY <1>3, <2>1 DEF vars, AlgorithmsInd, Answered
  <2>2. CASE Loops
    BY <1>3, <2>2 DEF Loops, Iterates, Converges, Answered
  <2>3. CASE Adjusts
    BY <1>3, <2>3 DEF Adjusts, Answered
  <2>4. CASE Next /\ ~Loops /\ ~Adjusts
    BY <1>3, <2>4 DEF Next, Answer, Answered
  <2> QED
    BY <2>1, <2>2, <2>3, <2>4
<1> QED
  BY <1>1, <1>2, <1>3 DEF AlgorithmsInd
LEMMA PointsAreEast ==
  ASSUME AlgorithmsAssumption
  PROVE  /\ \A lat \in Lats : lat \in Nat
         /\ \A lon \in Lons : lon \in Nat /\ lon < 180 * Degree
<1>1. Cells \in 0..360
  BY DEF AlgorithmsAssumption
<1>2. LatDif("D") = 4800 /\ LonDif("D") = 7200 /\ 180 * Degree = 2592000
  BY DEF LatDif, LonDif, Degree
<1>3. ASSUME NEW lat \in Lats PROVE lat \in Nat
  <2>1. PICK i \in 0..(Cells - 1) : lat = i * LatDif("D") + LatDif("D") \div 2
    BY DEF Lats
  <2>2. lat = i * 4800 + 4800 \div 2
    BY <1>2, <2>1
  <2> QED
    BY <1>1, <2>2
<1>4. ASSUME NEW lon \in Lons PROVE lon \in Nat /\ lon < 180 * Degree
  <2>1. PICK i \in 0..(Cells - 1) : lon = i * LonDif("D") + LonDif("D") \div 2
    BY DEF Lons
  <2>2. lon = i * 7200 + 7200 \div 2
    BY <1>2, <2>1
  <2> QED
    BY <1>1, <1>2, <2>2
<1> QED
  BY <1>3, <1>4

LEMMA SheetsNamed == AlgorithmsInd => SheetNamesCell
<1> SUFFICES ASSUME AlgorithmsInd, Done("Map_index"), answer.end = "made"
             PROVE  /\ \A lat \in Lats, lon \in Lons :
                         LET s == call.scale
                             sameCell == /\ lat \div LatDif(s) = call.lat \div LatDif(s)
                                         /\ lon \div LonDif(s) = call.lon \div LonDif(s)
                         IN  SameIndex(answer, MapIndex(lat, lon, s)) <=> sameCell
                    /\ LET read == Parsed(Fmt(answer))
                       IN  read.end = "made" /\ SameIndex(read, answer)
  BY DEF SheetNamesCell
<1>1. SheetCall /\ answer = MapIndex(call.lat, call.lon, call.scale)
  BY DEF AlgorithmsInd, Calls, Answered, Done
<1>2. /\ call.lat \in Lats /\ call.lon \in Lons /\ call.scale \in Scales
  BY <1>1, AlgorithmsAssumption DEF SheetCall, AlgorithmsAssumption
<1>3. /\ call.lat \in Nat /\ call.lon \in Nat /\ call.lon < 180 * Degree
  BY <1>2, PointsAreEast, AlgorithmsAssumption
<1> DEFINE x == call.lat
           y == call.lon
           s == call.scale
<1>4. ASSUME NEW lat \in Lats, NEW lon \in Lons
      PROVE  SameIndex(MapIndex(x, y, s), MapIndex(lat, lon, s))
               <=> /\ lat \div LatDif(s) = x \div LatDif(s)
                   /\ lon \div LonDif(s) = y \div LonDif(s)
  BY <1>2, <1>3, PointsAreEast, AlgorithmsAssumption, SameSheet
<1>5. LET read == Parsed(Fmt(MapIndex(x, y, s)))
      IN  read.end = "made" /\ SameIndex(read, MapIndex(x, y, s))
  BY <1>1, <1>2, <1>3, TextReadBack
<1> QED
  BY <1>1, <1>4, <1>5

(* Points north of the equator and less than 180 degrees east of Greenwich *)
(* have the same map index exactly when they lie in the same cell, at      *)
(* every scale, and the text of an index is read back as it was            *)
(* (map_index.cpp:68-74, 88-123, 135-153).                                 *)
THEOREM SheetsNameCells == Spec => []SheetNamesCell
<1> QED
  BY InitCalls, StepCalls, SheetsNamed, PTL DEF Spec

LEMMA DayCounted == AlgorithmsInd => DaysCounted
<1> SUFFICES ASSUME AlgorithmsInd, Done("julia_day") PROVE DaysCounted
  BY DEF DaysCounted
<1>1. DayCall /\ answer = [hours |-> JulianHours(call.t)]
  BY DEF AlgorithmsInd, Calls, Answered, Done
<1>2. PICK t \in Dates : call = [fn |-> "julia_day", t |-> t]
  BY <1>1 DEF DayCall
<1>3. call.t = t
  BY <1>2
<1>4. Date(t)
  BY <1>2, AlgorithmsAssumption DEF Dates, Date, AlgorithmsAssumption
<1> DEFINE midnight == [t EXCEPT !.H = 0, !.m = 0, !.S = 0]
           skipped == t.M = 2 /\ t.D = 28 /\ t.Y % 4 = 0 /\ ~IsLeap(t.Y)
<1>5. JulianHours(NextDay(t)) = JulianHours(t) + (IF skipped THEN 48 ELSE 24)
  BY <1>4, DaysGoOn
<1>6. /\ t.M \in 1..12 /\ t.Y \in Nat /\ t.D \in Nat /\ t.H \in {0, 23}
      /\ t.m \in {0, 59} /\ t.S = 0
  BY <1>4 DEF Date
<1>7. /\ midnight.Y = t.Y /\ midnight.M = t.M /\ midnight.D = t.D
      /\ midnight.H = 0 /\ midnight.m = 0 /\ midnight.S = 0
  BY <1>4 DEF Date
<1> HIDE DEF midnight
<1>8. JulianHours(t) = 24 * (DayOf(t.Y, t.M, t.D) + 1720981) + 12 + t.H
  BY <1>6, JulianHoursAre, SMT
<1>9. JulianHours(midnight) = 24 * (DayOf(t.Y, t.M, t.D) + 1720981) + 12
  <2>1. /\ midnight.M \in 1..12 /\ midnight.H \in {0, 23}
        /\ midnight.m \in {0, 59} /\ midnight.S = 0
    BY <1>6, <1>7
  <2>2. JulianHours(midnight)
          = 24 * (DayOf(midnight.Y, midnight.M, midnight.D) + 1720981) + 12 + midnight.H
    BY ONLY <2>1, JulianHoursAre, SMT
  <2>3. DayOf(t.Y, t.M, t.D) \in Int
    BY <1>6, SMT DEF DayOf, YearDays, MonthDays
  <2> QED
    BY ONLY <1>7, <2>2, <2>3, SMT
<1>10. DayOf(t.Y, t.M, t.D) \in Int
  BY <1>6 DEF DayOf, YearDays, MonthDays
<1>11. JulianHours(t) = JulianHours(midnight) + t.H
  BY <1>6, <1>8, <1>9, <1>10, SMT
<1>12. (t.Y = 1980 /\ t.M = 1 /\ t.D = 6) => JulianHours(midnight) = 24 * 2444244 + 12
  BY <1>9, SMT DEF DayOf, YearDays, MonthDays
<1>13. answer.hours = JulianHours(t)
  BY <1>1, <1>3
<1> QED
  BY <1>3, <1>5, <1>11, <1>12, <1>13, SMT DEF DaysCounted, midnight

(* In every year of the civil calendar from year 1 on the count goes on by *)
(* one a day, but where a century year leaves its 29th of February out,    *)
(* and counts the hours (etc.cpp:5-19).                                    *)
THEOREM DaysCount == Spec => []DaysCounted
<1> QED
  BY InitCalls, StepCalls, DayCounted, PTL DEF Spec

LEMMA HullAnswered == AlgorithmsInd => HullIsConvexHull
<1> SUFFICES ASSUME AlgorithmsInd, Done("convex_hull_2"),
                    Cardinality({call.pm[i] : i \in DOMAIN call.pm}) > 1
             PROVE  IsHull(call.pm, answer, {call.pm[i] : i \in DOMAIN call.pm})
  BY DEF HullIsConvexHull
<1>1. HullCall /\ answer = Hull(call.pm, call.sorted)
  BY DEF AlgorithmsInd, Calls, Answered, Done
<1>2. PICK n \in Counts :
        \E pm \in [0..(n - 1) -> Grid] :
          LET points == {pm[i] : i \in DOMAIN pm} IN
          \E sorted \in [1..Cardinality(points) -> DOMAIN pm] :
            /\ IsSortedUnique(sorted, pm)
            /\ call = [fn |-> "convex_hull_2", pm |-> pm, sorted |-> sorted]
  BY <1>1 DEF HullCall
<1>2a. PICK pm \in [0..(n - 1) -> Grid] :
         LET points == {pm[i] : i \in DOMAIN pm} IN
         \E sorted \in [1..Cardinality(points) -> DOMAIN pm] :
           /\ IsSortedUnique(sorted, pm)
           /\ call = [fn |-> "convex_hull_2", pm |-> pm, sorted |-> sorted]
  BY <1>2
<1> DEFINE points == {pm[i] : i \in DOMAIN pm}
           I == 0..(n - 1)
<1>3. PICK sorted \in [1..Cardinality(points) -> DOMAIN pm] :
        /\ IsSortedUnique(sorted, pm)
        /\ call = [fn |-> "convex_hull_2", pm |-> pm, sorted |-> sorted]
  BY <1>2a
<1>4. call.pm = pm /\ call.sorted = sorted
  BY <1>3
<1>5. pm \in [I -> Point] /\ DOMAIN pm = I
  <2>1. Grid \subseteq Point
    BY ConvexHullAssumption DEF ConvexHullAssumption, Grid, Point
  <2> QED BY <2>1
<1>6. IsFiniteSet(points)
  <2> DEFINE at == [i \in I |-> pm[i]]
  <2>1. IsFiniteSet(I)
    <3>1. n - 1 \in Int
      BY ConvexHullAssumption DEF ConvexHullAssumption
    <3> QED BY <3>1, FS_Interval
  <2>2. at \in Surjection(I, points)
    <3>1. at \in [I -> points] /\ \A p \in points : \E i \in I : at[i] = p
      BY <1>5
    <3> HIDE DEF at, points, I
    <3> QED BY <3>1 DEF Surjection
  <2> HIDE DEF at, points, I
  <2> QED BY <2>1, <2>2, FS_Surjection
<1>7. sorted \in Seq(I)
  <2>1. Cardinality(points) \in Nat
    BY <1>6, FS_CardinalityType
  <2> DEFINE c == Cardinality(points)
  <2>2. c \in Nat /\ sorted \in [1..c -> I]
    BY <1>3, <1>5, <2>1
  <2> HIDE DEF c, I
  <2> QED BY <2>2
<1>8. Cardinality(points) > 1
  BY <1>4
<1> HIDE DEF I
<1>9. IsHull(pm, Hull(pm, sorted), points)
  BY <1>3, <1>5, <1>7, <1>8, HullOfSorted
<1> QED
  BY <1>1, <1>4, <1>9

(* However many points a program passes, repeated, in line or inside, and  *)
(* whatever the size of the grid they lie on: when two of them differ, the *)
(* result is the vertices of their convex hull, every one once and         *)
(* counter-clockwise (convex_hull_2.hpp:7-63).                             *)
THEOREM HullsAreHulls == Spec => []HullIsConvexHull
<1> QED
  BY InitCalls, StepCalls, HullAnswered, PTL DEF Spec

LEMMA SlipsAnswered == AlgorithmsInd => SlipsFound
<1> SUFFICES ASSUME AlgorithmsInd, Done("diff_detect")
             PROVE  FindsJumps(answer, call.degree, call.slips)
  BY DEF SlipsFound, FindsJumps
<1>1. SlipCall /\ answer = DiffDetect(call.vals, call.degree)
  BY DEF AlgorithmsInd, Calls, Answered, Done
<1>2. PICK d \in Degrees, slope \in 0..1 :
        \E S \in Findable(d) :
          \E slips \in [S -> Sizes \union {-z : z \in Sizes}] :
            call = [fn |-> "diff_detect", degree |-> d, slips |-> slips,
                    vals |-> Series(d, slope, slips)]
  BY <1>1 DEF SlipCall
<1>3. PICK S \in Findable(d) :
        \E slips \in [S -> Sizes \union {-z : z \in Sizes}] :
          call = [fn |-> "diff_detect", degree |-> d, slips |-> slips,
                  vals |-> Series(d, slope, slips)]
  BY <1>2
<1>4. PICK slips \in [S -> Sizes \union {-z : z \in Sizes}] :
        call = [fn |-> "diff_detect", degree |-> d, slips |-> slips,
                vals |-> Series(d, slope, slips)]
  BY <1>3
<1>5. call.degree = d /\ call.slips = slips /\ call.vals = Series(d, slope, slips)
  BY <1>4
<1> DEFINE N == SeriesLength(d)
           vals == Series(d, slope, slips)
<1>6. /\ N \in Nat /\ d \in Nat /\ d >= 2 /\ d < N
      /\ vals \in [1..N -> Int] /\ slope \in Int
      /\ S \in SUBSET Int /\ slips \in [S -> Int \ {0}]
      /\ Jumping(N, vals, slope, slips) /\ Spaced(N, d, S)
  BY AlgorithmsAssumption, SeriesJumps
<1> HIDE DEF N, vals
<1>7. FindsJumps(DiffDetect(vals, d), d, slips)
  BY ONLY <1>6, DetectsJumps
<1> QED
  BY <1>1, <1>5, <1>7 DEF vals

(* However many jumps a series has and whatever their sizes, in            *)
(* differences of any degree from the second on that the arrangements fit  *)
(* a long long for: diff_detect finds each of them once, where it is, with *)
(* its size, and nothing else - unless one lies in the very first window   *)
(* (cycle_slip_edit.cpp:9-53, math.cpp:68-118).                            *)
THEOREM SlipsAreFound == Spec => []SlipsFound
<1> QED
  BY InitCalls, StepCalls, SlipsAnswered, PTL DEF Spec

LEMMA ExpressionsBounded == AlgorithmsInd => ExpressionsInBounds
<1> SUFFICES ASSUME AlgorithmsInd, Done("eval"), \A c \in Reads(call.expr) : call.len[c] > 0
             PROVE  /\ answer.end # "undefined"
                    /\ answer.end = "returns" =>
                         \A c \in Reads(call.expr) : answer.length = call.len[c]
  BY DEF ExpressionsInBounds
<1>1. ExpressionCall /\ answer = Evaluated(call.expr, call.len)
  BY DEF AlgorithmsInd, Calls, Answered, Done
<1>2. PICK e \in Expressions, len \in [Containers -> 0..MaxSize] :
        call = [fn |-> "eval", expr |-> e, len |-> len]
  BY <1>1 DEF ExpressionCall
<1>3. call.expr = e /\ call.len = len
  BY <1>2
<1>4. len \in [Containers -> Nat]
  BY AlgorithmsAssumption DEF AlgorithmsAssumption
<1>5. \A c \in Reads(e) : len[c] > 0
  BY <1>3
<1> DEFINE a == Evaluated(e, len)
<1>6. /\ a.end # "undefined"
      /\ a.end = "returns" => \A c \in Reads(e) : a.length = len[c]
  BY <1>4, <1>5, AlgorithmsAssumption, EvaluationInBounds
<1> QED
  BY <1>1, <1>3, <1>6

(* An expression of any size over containers of any lengths that passes    *)
(* the assertions reads no element that is not there and has the length of *)
(* each of its containers, none of them being empty (operation.hpp:64-84,  *)
(* expr.hpp:8-42).                                                         *)
THEOREM ExpressionsStayInBounds == Spec => []ExpressionsInBounds
<1> QED
  BY InitCalls, StepCalls, ExpressionsBounded, PTL DEF Spec

LEMMA ChainCalled ==
  ASSUME AlgorithmsInd, Done("operator>>")
  PROVE  \E lon \in Int, e \in Ellipsoids :
           /\ call.from = Geodetic(lon, e) /\ call.path \in Chains
           /\ answer = SentAll(Geodetic(lon, e), call.path)
<1>1. ChannelCall /\ answer = SentAll(call.from, call.path)
  BY DEF AlgorithmsInd, Calls, Answered, Done
<1>2. PICK lon \in ChannelLons, e \in Ellipsoids, path \in Chains :
        call = [fn |-> "operator>>", from |-> Geodetic(lon, e), path |-> path]
  BY <1>1 DEF ChannelCall
<1>3. call.from = Geodetic(lon, e) /\ call.path = path
  BY <1>2
<1>4. lon \in Int
  BY AlgorithmsAssumption, LongitudesAreIntegers
<1> QED
  BY <1>1, <1>3, <1>4

LEMMA ChainsKeep == AlgorithmsInd => ChannelsKeepPosition
<1> SUFFICES ASSUME AlgorithmsInd, Done("operator>>") PROVE ChannelsKeepPosition
  BY DEF ChannelsKeepPosition
<1>1. PICK lon \in Int, e \in Ellipsoids :
        /\ call.from = Geodetic(lon, e) /\ call.path \in Chains
        /\ answer = SentAll(Geodetic(lon, e), call.path)
  BY ChainCalled
<1>2. call.from.ellipsoid = e
  BY <1>1 DEF Geodetic
<1> DEFINE path == call.path
<1>3. path \in Chains /\ answer = SentAll(Geodetic(lon, e), path)
  BY <1>1
<1>4. AlgorithmsAssumption /\ lon \in Int
  BY AlgorithmsAssumption
<1> HIDE DEF path
<1>5. IF answer = Failed
      THEN \E k \in DOMAIN path :
             IF path[k].to = "project"
             THEN \E l \in 1..(k - 1) :
                    /\ path[l].to = "project"
                    /\ path[l].project.interval # path[k].project.interval
             ELSE path[k].ellipsoid # e
      ELSE Geodetic(lon, e) = IF answer.kind = "projected" THEN Unprojected(answer) ELSE answer
  BY ONLY <1>3, <1>4, ChainKeeps
<1> QED
  BY ONLY <1>1, <1>2, <1>5 DEF ChannelsKeepPosition, path

(* A chain of any length, through any bands, ends at the longitude and on  *)
(* the ellipsoid it began with, or stops at another ellipsoid or another   *)
(* width of zones (gauss_kruger.hpp:69-97, gauss_kruger.cpp:89-148,        *)
(* message.hpp:60-66).                                                     *)
THEOREM ChannelsKeep == Spec => []ChannelsKeepPosition
<1> QED
  BY InitCalls, StepCalls, ChainsKeep, PTL DEF Spec

LEMMA BandsStay == AlgorithmsInd => ProjectKeepsBand
<1> SUFFICES ASSUME AlgorithmsInd, Done("operator>>"), answer.kind = "projected",
                    call.from.lon >= 0
             PROVE  ProjectKeepsBand
  BY DEF ProjectKeepsBand
<1>1. PICK lon \in Int, e \in Ellipsoids :
        /\ call.from = Geodetic(lon, e) /\ call.path \in Chains
        /\ answer = SentAll(Geodetic(lon, e), call.path)
  BY ChainCalled
<1>2. call.from.ellipsoid = e /\ call.from.lon = lon
  BY <1>1 DEF Geodetic
<1> DEFINE path == call.path
<1>3. path \in Chains /\ answer = SentAll(Geodetic(lon, e), path) /\ answer.kind = "projected"
  BY <1>1
<1>4. AlgorithmsAssumption /\ lon \in Nat
  BY <1>2, AlgorithmsAssumption
<1> HIDE DEF path
<1>5. /\ path[Len(path)].project.band = Virtual =>
           2 * Abs(answer.y) <= answer.project.interval * Degree
      /\ \A lon2 \in ChannelLons :
           Sent(Geodetic(lon2, e), ToProject(answer.project)).band = answer.band
  BY ONLY <1>3, <1>4, BandStays
<1> QED
  BY ONLY <1>2, <1>5 DEF ProjectKeepsBand, path

(* A project that chooses its band chooses one at most half a zone away,   *)
(* east of Greenwich, and the project of the coordinate keeps the band for *)
(* whatever is sent to it next (gauss_kruger.hpp:50-64,                    *)
(* gauss_kruger.cpp:50-102).                                               *)
THEOREM BandsKept == Spec => []ProjectKeepsBand
<1> QED
  BY InitCalls, StepCalls, BandsStay, PTL DEF Spec

LEMMA HeadingsAreOff ==
  ASSUME AlgorithmsAssumption
  PROVE  Headings \subseteq Off
<1>1. \A a \in Headings : a \in 0..359 /\ a % 90 # 0
  BY DEF AlgorithmsAssumption
<1> QED
  BY <1>1 DEF Off

LEMMA LinesAre ==
  ASSUME AlgorithmsAssumption, NEW line \in Oblique \union AlongAxes
  PROVE  /\ line = [from |-> line.from, to |-> line.to]
         /\ line.from \in 0..359 /\ line.to \in 0..359
         /\ (line.from + line.to) % 2 = 0
         /\ \/ line.from \in Off /\ line.to \in Off /\ SinSign(line.from) = SinSign(line.to)
            \/ line.from \in {0, 90, 180, 270} /\ line.to = line.from
<1>1. CASE line \in Oblique
  <2>1. line \in [from : Headings, to : Headings] /\ SinSign(line.from) = SinSign(line.to)
    BY <1>1 DEF Oblique
  <2>2. line.from \in Off /\ line.to \in Off
    BY <2>1, HeadingsAreOff
  <2>3. (line.from + line.to) % 2 = 0
    BY <2>1 DEF AlgorithmsAssumption
  <2>4. line.from \in 0..359 /\ line.to \in 0..359
    BY <2>2 DEF Off
  <2> QED
    BY <2>1, <2>2, <2>3, <2>4
<1>2. CASE line \in AlongAxes
  <2>1. PICK a \in {0, 90, 180, 270} : line = [from |-> a, to |-> a]
    BY <1>2 DEF AlongAxes
  <2>2. (a + a) % 2 = 0
    BY <2>1
  <2> QED
    BY <2>1, <2>2
<1> QED
  BY <1>1, <1>2

LEMMA BesselAnswers ==
  ASSUME AlgorithmsInd, Done("bessel")
  PROVE  answer.lambda = call.lambda /\ Same(answer.rangle, Back(call.line.to))
<1>1. BesselCall /\ answer = BesselSolve(call.line, call.lambda)
  BY DEF AlgorithmsInd, Calls, Answered, Done
<1>2. PICK line \in Oblique, h \in Headings :
        /\ SinSign(h) = SinSign(line.from)
        /\ call = [fn |-> "bessel", line |-> line, lambda |-> Atan2(h)]
  BY <1>1 DEF BesselCall
<1>3. call.line = line /\ call.lambda = Atan2(h)
  BY <1>2
<1> DEFINE from == line.from
           to == line.to
<1>4. /\ line = [from |-> from, to |-> to]
      /\ from \in Off /\ to \in Off /\ h \in Off
      /\ SinSign(from) = SinSign(to) /\ SinSign(h) = SinSign(from)
  BY <1>2, HeadingsAreOff, AlgorithmsAssumption DEF Oblique
<1> HIDE DEF from, to
<1> DEFINE a == BesselSolve([from |-> from, to |-> to], Atan2(h))
<1>5. a.lambda = Atan2(h) /\ Same(a.rangle, Back(to))
  BY <1>4, BesselDirect
<1> HIDE DEF a
<1>6. answer = a
  BY <1>1, <1>3, <1>4 DEF a
<1> QED
  BY <1>3, <1>5, <1>6 DEF to

LEMMA BesselInverseAnswers ==
  ASSUME AlgorithmsInd, Done("rbessel")
  PROVE  /\ Same(answer.angle, call.line.from)
         /\ answer.sigma = call.sigma
         /\ Same(answer.rangle, Back(call.line.to)) <=> CosSign(call.line.to) > 0
<1>1. /\ BesselInverseCall /\ BesselDefined(call.line)
      /\ answer = BesselRsolve(call.line, call.sigma)
  BY DEF AlgorithmsInd, Calls, Answered, Done
<1>2. PICK line \in Oblique \union AlongAxes \union {Coincident},
           s \in {h \in Headings : h < 180} :
        call = [fn |-> "rbessel", line |-> line, sigma |-> s]
  BY <1>1 DEF BesselInverseCall
<1>3. call.line = line /\ call.sigma = s
  BY <1>2
<1> DEFINE from == line.from
           to == line.to
<1>4. /\ line = [from |-> from, to |-> to]
      /\ \/ from \in Off /\ to \in Off /\ SinSign(from) = SinSign(to)
         \/ from \in {0, 90, 180, 270, NaN}
  <2>1. CASE line = Coincident
    BY <2>1 DEF Coincident
  <2>2. CASE line # Coincident
    BY <2>2, LinesAre, AlgorithmsAssumption
  <2> QED
    BY <2>1, <2>2
<1>5. s \in Off /\ s < 180
  BY HeadingsAreOff, AlgorithmsAssumption
<1>6. BesselA1(line) # NaN
  BY <1>1, <1>3 DEF BesselDefined
<1>7. from \notin {0, 90, 180, 270, NaN}
  BY <1>6, NoA1OnAxes DEF BesselA1
<1> HIDE DEF from, to
<1> DEFINE a == BesselRsolve([from |-> from, to |-> to], s)
<1>8. /\ Same(a.angle, from) /\ a.sigma = s
      /\ Same(a.rangle, Back(to)) <=> CosSign(to) > 0
  BY <1>4, <1>5, <1>7, BesselInverse
<1> HIDE DEF a
<1>9. answer = a
  BY <1>1, <1>3, <1>4 DEF a
<1> QED
  BY <1>3, <1>8, <1>9 DEF from, to

LEMMA LineAnswers ==
  ASSUME AlgorithmsInd
  PROVE  /\ (Done("vincenty") \/ Done("gauss_lemma")) =>
              Same(answer.rangle, Back(call.line.to))
         /\ Done("rvincenty") =>
              /\ Same(answer.angle, Back(call.line.from))
              /\ Same(answer.rangle, Back(call.line.to)) <=> SinSign(call.line.from) >= 0
<1> SUFFICES ASSUME Done("vincenty") \/ Done("gauss_lemma") \/ Done("rvincenty")
             PROVE  /\ (Done("vincenty") \/ Done("gauss_lemma")) =>
                         Same(answer.rangle, Back(call.line.to))
                    /\ Done("rvincenty") =>
                         /\ Same(answer.angle, Back(call.line.from))
                         /\ Same(answer.rangle, Back(call.line.to))
                              <=> SinSign(call.line.from) >= 0
  OBVIOUS
<1>1. /\ Done("vincenty") \/ Done("gauss_lemma") => LineCall
      /\ Done("rvincenty") => VincentyInverseCall /\ VincentyDefined(call.line)
      /\ Done("vincenty") => answer = VincentySolve(call.line)
      /\ Done("rvincenty") => answer = VincentyRsolve(call.line)
      /\ Done("gauss_lemma") => answer = GaussSolve(call.line)
  BY DEF AlgorithmsInd, Calls, Answered, Done
<1>2. PICK line \in Oblique \union AlongAxes : call.line = line
  <2>1. CASE Done("rvincenty")
    <3>1. VincentyInverseCall /\ VincentyDefined(call.line)
      BY <1>1, <2>1
    <3>2. PICK line \in Oblique \union AlongAxes \union {Coincident} :
            call = [fn |-> "rvincenty", line |-> line]
      BY <3>1 DEF VincentyInverseCall
    <3>3. line # Coincident
      BY <3>1, <3>2, SignsAt DEF VincentyDefined, Coincident
    <3> QED
      BY <3>2, <3>3
  <2>2. CASE ~Done("rvincenty")
    BY <1>1, <2>2 DEF LineCall
  <2> QED
    BY <2>1, <2>2
<1>3. call.line = line
  BY <1>2
<1> DEFINE from == line.from
           to == line.to
<1>4. line = [from |-> from, to |-> to] /\ from \in 0..359 /\ to \in 0..359
  BY LinesAre, AlgorithmsAssumption
<1> HIDE DEF from, to
<1> DEFINE direct == VincentySolve([from |-> from, to |-> to])
           inverse == VincentyRsolve([from |-> from, to |-> to])
           gauss == GaussSolve([from |-> from, to |-> to])
<1>5. /\ Same(direct.rangle, Back(to))
      /\ Same(inverse.angle, Back(from))
      /\ Same(inverse.rangle, Back(to)) <=> SinSign(from) >= 0
  BY <1>4, VincentyFinds
<1>6. Same(gauss.rangle, Back(to))
  BY <1>4, GaussDirect
<1> HIDE DEF direct, inverse, gauss
<1>7. /\ Done("vincenty") => answer = direct
      /\ Done("rvincenty") => answer = inverse
      /\ Done("gauss_lemma") => answer = gauss
  BY <1>1, <1>3, <1>4 DEF direct, inverse, gauss
<1> QED
  BY <1>3, <1>5, <1>6, <1>7 DEF from, to

LEMMA GaussAnswersInPlace ==
  ASSUME AlgorithmsInd, Done("rgauss_lemma"), call.line = Coincident
  PROVE  answer.angle = 90 /\ answer.rangle = 270 /\ answer.halves = 0
<1>1. GaussInverseCall /\ answer = GaussRsolve(call.line, call.steep)
  BY DEF AlgorithmsInd, Calls, Answered, Done
<1>2. Steepness(Coincident) = {TRUE}
  <2>1. Middle(Coincident) = NaN
    BY DEF Middle, Coincident, NaN
  <2> QED
    BY <2>1, SignsAt DEF Steepness
<1>3. call.steep = TRUE
  <2>1. PICK line \in Oblique \union AlongAxes \union {Coincident} :
          \E steep \in Steepness(line) :
            call = [fn |-> "rgauss_lemma", line |-> line, steep |-> steep]
    BY <1>1 DEF GaussInverseCall
  <2>2. PICK steep \in Steepness(line) :
          call = [fn |-> "rgauss_lemma", line |-> line, steep |-> steep]
    BY <2>1
  <2>3. line = Coincident /\ call.steep = steep
    BY <2>2
  <2> QED
    BY <1>2, <2>2, <2>3
<1> QED
  BY <1>1, <1>3, GaussInPlace

LEMMA GaussInverseAnswers ==
  ASSUME AlgorithmsInd, Done("rgauss_lemma"), call.line # Coincident
  PROVE  LET turn == TanSign(Middle(call.line))
             right == ~(call.steep /\ turn < 0)
         IN  /\ Same(answer.angle, call.line.from) <=> right
             /\ Same(answer.rangle, Back(call.line.to)) <=> right
             /\ answer.halves = 2 <=> right /\ turn # 0
<1>1. GaussInverseCall /\ answer = GaussRsolve(call.line, call.steep)
  BY DEF AlgorithmsInd, Calls, Answered, Done
<1>2. PICK line \in Oblique \union AlongAxes \union {Coincident} :
        \E steep \in Steepness(line) :
          call = [fn |-> "rgauss_lemma", line |-> line, steep |-> steep]
  BY <1>1 DEF GaussInverseCall
<1> DEFINE steep == call.steep
<1>2a. steep \in Steepness(line) /\ call = [fn |-> "rgauss_lemma", line |-> line, steep |-> steep]
  BY <1>2
<1>3. call.line = line /\ call.steep = steep
  BY <1>2
<1>3a. line \in Oblique \union AlongAxes
  BY <1>3
<1> DEFINE from == line.from
           to == line.to
           am == (from + to) \div 2
<1>4. line = [from |-> from, to |-> to] /\ from \in 0..359 /\ to \in 0..359
      /\ (from + to) % 2 = 0
  BY <1>3a, LinesAre, AlgorithmsAssumption
<1>5. /\ steep \in BOOLEAN
      /\ SinSign(am) = 0 => steep
      /\ CosSign(am) = 0 => ~steep
  <2>1. Middle(line) = am
    BY DEF Middle
  <2> HIDE DEF from, to
  <2>2. am \in 0..359
    BY <1>4
  <2> HIDE DEF am, steep
  <2>3. ~(SinSign(am) = 0 /\ CosSign(am) = 0)
    BY <2>2, FoldedDirections
  <2> QED
    BY <1>2a, <2>1, <2>2, <2>3, SignsAt DEF Steepness
<1> HIDE DEF from, to
<1> DEFINE found == GaussRsolve([from |-> from, to |-> to], steep)
           turn == TanSign(Middle([from |-> from, to |-> to]))
           right == ~(steep /\ turn < 0)
<1>6. /\ Same(found.angle, from) <=> right
      /\ Same(found.rangle, Back(to)) <=> right
      /\ found.halves = 2 <=> right /\ turn # 0
  BY <1>4, <1>5, GaussInverse
<1> HIDE DEF found, turn
<1>7. answer = found /\ turn = TanSign(Middle(call.line))
  BY <1>1, <1>3, <1>4 DEF found, turn
<1> QED
  BY <1>3, <1>6, <1>7 DEF from, to

LEMMA PlaneAnswers ==
  ASSUME AlgorithmsInd, Done("plane")
  PROVE  /\ Same(answer.solved, call.a)
         /\ Same(answer.converted, call.a) <=> call.a \in {45, 315}
<1>1. /\ PlaneCall
      /\ answer.solved = PlaneRsolve(PlaneSolve(call.a))
      /\ answer.converted = Xy2da(Da2xy(call.a))
  BY DEF AlgorithmsInd, Calls, Answered, Done
<1>2. call.a \in Headings \union {45, 135, 225, 315}
  BY <1>1 DEF PlaneCall
<1>3. {45, 135, 225, 315} \subseteq Off
  BY DEF Off
<1>4. call.a \in Off
  BY <1>2, <1>3, HeadingsAreOff, AlgorithmsAssumption
<1> QED
  BY <1>1, <1>4, PlaneFinds

LEMMA EcefAnswers ==
  ASSUME AlgorithmsInd, Done("ecef")
  PROVE  answer.lon = IF call.lon >= 0 THEN call.lon ELSE call.lon + 180
<1>1. EcefCall /\ answer.lon = EcefLongitude(call.lon)
  BY DEF AlgorithmsInd, Calls, Answered, Done
<1>2. call.lon \in {Atan2(h) : h \in Headings} \union {0, 90, -90}
  BY <1>1 DEF EcefCall
<1>3. call.lon \in {Atan2(h) : h \in Off} \union {0, 90, -90}
  BY <1>2, HeadingsAreOff, AlgorithmsAssumption
<1> QED
  BY <1>1, <1>3, EcefFolds

(* For all directions off the axes whose mean is a whole degree, the lines *)
(* along the axes and those from a point to itself, the solvers and the    *)
(* plane and ECEF coordinates make of a direction what AzimuthsRecovered   *)
(* says, right and wrong (bessel.cpp:45-311, vincenty.cpp:79-165,          *)
(* gauss_lemma.cpp:61-185, plane.cpp:7-31, ecef.hpp:40-46).                *)
THEOREM AzimuthsTold == Spec => []AzimuthsRecovered
<1>1. AlgorithmsInd => AzimuthsRecovered
  BY BesselAnswers, BesselInverseAnswers, LineAnswers, GaussAnswersInPlace, GaussInverseAnswers,
     PlaneAnswers, EcefAnswers DEF AzimuthsRecovered
<1> QED
  BY <1>1, InitCalls, StepCalls, PTL DEF Spec

LEMMA StepMoves == [Next]_vars => [AdjustmentNext]_avars
  BY DEF Next, vars, Answer, Loops, Iterates, Converges, Adjusts

LEMMA IdleStays == AdjustmentIdle /\ [AdjustmentNext]_avars => AdjustmentIdle'
<1> SUFFICES ASSUME AdjustmentIdle, [AdjustmentNext]_avars PROVE AdjustmentIdle'
  OBVIOUS
<1>1. ~AdjustmentNext
  <2>1. phase # "kw" /\ phase # "running"
    BY DEF AdjustmentIdle
  <2> QED
    BY <2>1 DEF AdjustmentNext, Give, Called, ResectionIterates, PointCorrected, SweepBegins,
                GivesUp
<1> QED
  BY <1>1 DEF AdjustmentIdle, avars

(* And so it is among the other calls: what an adjustment reports fits     *)
(* what it did, and no other call touches its state                        *)
(* (space_resection.cpp:20-79, space_intersection.cpp:58-116).             *)
THEOREM ReportsFit == Spec => []ReportFits
<1>1. Init => AdjustmentIdle \/ AdjustmentInd
  BY InitInd DEF Init
<1>2. (AdjustmentIdle \/ AdjustmentInd) /\ [Next]_vars => (AdjustmentIdle \/ AdjustmentInd)'
  BY StepMoves, IdleStays, StepInd
<1>3. AdjustmentIdle => ReportFits
  BY DEF AdjustmentIdle, ReportFits, NoValues, Finite
<1>4. AdjustmentInd => ReportFits
  BY IndFits
<1> QED
  BY <1>1, <1>2, <1>3, <1>4, PTL DEF Spec

=============================================================================
