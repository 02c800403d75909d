--------------------------- MODULE ContainerProofs ---------------------------
(***************************************************************************)
(* Lemmas about the operators of StdContainers and Pool that the proofs    *)
(* about the containers cite.                                              *)
(***************************************************************************)
EXTENDS Pool, FiniteSetTheorems, FunctionTheorems,
        SequenceTheorems, WellFoundedInduction, TLAPS

-----------------------------------------------------------------------------
(* std::set and std::map *)

(* The elements of a set of numbers below one of them are finitely many. *)
LEMMA BeforeIsFinite ==
  ASSUME NEW S \in SUBSET Nat, NEW x \in Nat
  PROVE  Before(S, x) \in SUBSET Nat /\ IsFiniteSet(Before(S, x))
<1>1. \A y \in Before(S, x) : y \in S /\ y < x
  BY Zenon DEF Before
<1>2. \A y \in S : y \in Nat /\ (y < x => y <= x)
  OBVIOUS
<1>3. Before(S, x) \in SUBSET Nat /\ \A y \in Before(S, x) : y <= x
  BY <1>1, <1>2, Zenon
<1>4. QED
  BY <1>3, FS_BoundedSetOfNaturals

(* *s.begin() of a non-empty set of indices is one of its members and no   *)
(* greater than any other (used by Pool::extract, pool.hpp:21-25).         *)
LEMMA LeastIsLeast ==
  ASSUME NEW S \in SUBSET Nat, S # {}
  PROVE  Least(S) \in S /\ \A y \in S : Least(S) <= y
<1> DEFINE T == {Before(S, x) : x \in S}
<1>1. T \subseteq FiniteSubsetsOf(Nat) /\ T # {}
  BY BeforeIsFinite DEF FiniteSubsetsOf
<1>2. PICK B \in T : \A C \in T : ~ (<<C, B>> \in StrictSubsetOrdering(Nat))
  <2> HIDE DEF T
  <2> QED BY <1>1, FS_StrictSubsetOrderingWellFounded, WFMin
<1>3. PICK x \in S : B = Before(S, x)
  BY <1>2
<1>4. \A y \in S : x <= y
  <2> SUFFICES ASSUME NEW y \in S, y < x
               PROVE  FALSE
    OBVIOUS
  <2>1. Before(S, y) \in T /\ Before(S, y) \in SUBSET Nat
    BY BeforeIsFinite
  <2>2. /\ \A q \in S : q < y => q < x
        /\ ~ (y < y)
    OBVIOUS
  <2>3. /\ Before(S, y) \subseteq Before(S, x)
        /\ y \in Before(S, x)
        /\ y \notin Before(S, y)
    BY <2>2, Zenon DEF Before
  <2>4. <<Before(S, y), Before(S, x)>> \in StrictSubsetOrdering(Nat)
    BY <2>1, <2>3, BeforeIsFinite DEF StrictSubsetOrdering
  <2>5. QED
    BY <1>2, <1>3, <2>1, <2>4
<1>5. QED
  BY <1>4 DEF Least

(* insert_or_assign(k, v) adds the key k, gives it the value v and leaves  *)
(* every other entry alone.                                                *)
LEMMA PutGives ==
  ASSUME NEW m, NEW k, NEW v
  PROVE  /\ DOMAIN Put(m, k, v) = DOMAIN m \cup {k}
         /\ Put(m, k, v)[k] = v
         /\ \A x \in DOMAIN m : x # k => Put(m, k, v)[x] = m[x]
BY DEF Put

(* erase(k) removes the key k and leaves every other entry alone. *)
LEMMA DropGives ==
  ASSUME NEW m, NEW k
  PROVE  /\ DOMAIN Drop(m, k) = DOMAIN m \ {k}
         /\ \A x \in DOMAIN m : x # k => Drop(m, k)[x] = m[x]
BY DEF Drop
-----------------------------------------------------------------------------
(* Induction and recursion up to a bound *)

(* Induction up to n, over the set of numbers for which the claim holds.   *)
LEMMA UpwardsTo ==
  ASSUME NEW n \in Nat, NEW S, 0 \in S,
         \A k \in 1..n : k - 1 \in S => k \in S
  PROVE  \A k \in 0..n : k \in S
<1> DEFINE F == (0..n) \ S
<1> SUFFICES ASSUME F # {} PROVE FALSE
  OBVIOUS
<1>1. F \in SUBSET Nat
  OBVIOUS
<1>2. Least(F) \in F /\ \A y \in F : Least(F) <= y
  <2> HIDE DEF F
  <2> QED BY <1>1, LeastIsLeast
<1> DEFINE m == Least(F)
<1>3. m \in 1..n /\ m \notin S
  BY <1>2
<1> HIDE DEF m
<1>4. m - 1 \in 0..n /\ ~(m <= m - 1)
  BY <1>3
<1>5. m - 1 \in S
  BY <1>2, <1>4 DEF m
<1> QED
  BY <1>3, <1>5

(* f is defined by recursion on 0..n. *)
Recursion(n, base, step, f) ==
  f[0] = base /\ \A k \in 1..n : f[k] = step[k][f[k - 1]]

LEMMA RecursionExists ==
  ASSUME NEW n \in Nat, NEW T, NEW base \in T, NEW step \in [1..n -> [T -> T]]
  PROVE  \E f \in [0..n -> T] : Recursion(n, base, step, f)
<1> DEFINE Solves(m, f) == /\ f \in [0..m -> T] /\ f[0] = base
                           /\ \A k \in 1..m : f[k] = step[k][f[k - 1]]
           S == {m \in 0..n : \E f : Solves(m, f)}
<1>1. 0 \in S
  <2> DEFINE f == [k \in 0..0 |-> base]
  <2>1. Solves(0, f)
    OBVIOUS
  <2>2. 0 \in 0..n
    OBVIOUS
  <2> HIDE DEF f, Solves
  <2> QED
    BY <2>1, <2>2
<1>2. ASSUME NEW m \in 1..n, m - 1 \in S
      PROVE  m \in S
  <2>1. PICK f : Solves(m - 1, f)
    BY <1>2
  <2> DEFINE g == [k \in 0..m |-> IF k = m THEN step[m][f[m - 1]] ELSE f[k]]
  <2>2. f[m - 1] \in T
    BY <2>1
  <2>3. step[m][f[m - 1]] \in T
    BY <2>2
  <2>4. g \in [0..m -> T]
    BY <2>1, <2>3
  <2>5. \A k \in 0..(m - 1) : g[k] = f[k]
    OBVIOUS
  <2>6. g[0] = base
    BY <2>1, <2>5
  <2>7. ASSUME NEW k \in 1..m PROVE g[k] = step[k][g[k - 1]]
    <3>1. g[k - 1] = f[k - 1]
      BY <2>5
    <3>2. CASE k = m
      BY <3>1, <3>2
    <3>3. CASE k # m
      <4>1. k \in 1..(m - 1)
        BY <3>3
      <4> QED
        BY <2>1, <2>5, <3>1, <4>1
    <3> QED
      BY <3>2, <3>3
  <2> HIDE DEF g
  <2>8. Solves(m, g)
    BY <2>4, <2>6, <2>7
  <2>9. m \in 0..n
    OBVIOUS
  <2> HIDE DEF Solves
  <2> QED
    BY <2>8, <2>9
<1> HIDE DEF S
<1>3. \A m \in 1..n : m - 1 \in S => m \in S
  BY <1>2
<1>4. \A m \in 0..n : m \in S
  BY <1>1, <1>3, UpwardsTo
<1>5. n \in S
  BY <1>4
<1> QED
  BY <1>5 DEF S, Recursion

-----------------------------------------------------------------------------
(* std::vector and views::filter *)

(* Of two positions, the greater has more positions before it. *)
LEMMA BeforeGrows ==
  ASSUME NEW P \in SUBSET Nat, NEW p \in P, NEW q \in P, p < q
  PROVE  /\ Cardinality(Before(P, p)) \in Nat
         /\ Cardinality(Before(P, q)) \in Nat
         /\ Cardinality(Before(P, p)) < Cardinality(Before(P, q))
<1>1. IsFiniteSet(Before(P, p)) /\ IsFiniteSet(Before(P, q))
  BY BeforeIsFinite
<1>2. /\ \A x \in P : x < p => x < q
      /\ ~ (p < p)
  OBVIOUS
<1>3. /\ Before(P, p) \in SUBSET Before(P, q)
      /\ Before(P, q) # Before(P, p)
  BY <1>2, Zenon DEF Before
<1>4. QED
  BY <1>1, <1>3, FS_Subset, FS_CardinalityType

(* Two positions with as many positions before them are the same one. *)
LEMMA SameRankSamePosition ==
  ASSUME NEW P \in SUBSET Nat, NEW p \in P, NEW q \in P,
         Cardinality(Before(P, p)) = Cardinality(Before(P, q))
  PROVE  p = q
<1>1. ~ (p < q)
  <2> SUFFICES ASSUME p < q PROVE FALSE
    OBVIOUS
  <2>1. QED BY BeforeGrows
<1>2. ~ (q < p)
  <2> SUFFICES ASSUME q < p PROVE FALSE
    OBVIOUS
  <2>1. QED BY BeforeGrows
<1>3. QED
  BY <1>1, <1>2

(* 1..n has n elements. *)
LEMMA UpTo ==
  ASSUME NEW n \in Nat
  PROVE  IsFiniteSet(1..n) /\ Cardinality(1..n) = n
<1>1. 1 \in Int /\ n \in Int
  OBVIOUS
<1>2. Cardinality(1..n) = IF 1 > n THEN 0 ELSE n - 1 + 1
  BY <1>1, FS_Interval
<1>3. QED
  BY <1>1, <1>2, FS_Interval

(* Nth(P, m) is a position in P with m - 1 positions before it. *)
LEMMA NthIsNth ==
  ASSUME NEW P \in SUBSET Nat, IsFiniteSet(P), NEW m \in 1..Cardinality(P)
  PROVE  Nth(P, m) \in P /\ Cardinality(Before(P, Nth(P, m))) = m - 1
<1> DEFINE c == Cardinality(P)
           rank == [p \in P |-> Cardinality(Before(P, p))]
<1>1. c \in Nat
  BY FS_CardinalityType
<1>2. ASSUME NEW p \in P
      PROVE  rank[p] \in 0..(c - 1)
  <2>1. p \notin Before(P, p) /\ Before(P, p) \in SUBSET P
    <3>1. ~ (p < p)
      OBVIOUS
    <3>2. QED
      BY <3>1, Zenon DEF Before
  <2>2. /\ Cardinality(Before(P, p)) \in Nat
        /\ Cardinality(Before(P, p)) <= c
        /\ Cardinality(Before(P, p)) # c
    BY <2>1, FS_Subset, FS_CardinalityType
  <2>3. QED
    BY <1>1, <2>2
<1>3. \A p, q \in P : rank[p] = rank[q] => p = q
  BY SameRankSamePosition
<1>4. rank \in Injection(P, 0..(c - 1))
  <2>1. rank \in [P -> 0..(c - 1)]
    BY <1>2
  <2> HIDE DEF rank
  <2>2. QED
    BY <1>3, <2>1, Fun_IsInj
<1>5. IsFiniteSet(0..(c - 1)) /\ Cardinality(0..(c - 1)) = c
  <2> HIDE DEF c
  <2>1. c - 1 \in Int
    BY <1>1
  <2>2. QED
    BY <1>1, <2>1, FS_Interval
<1>6. rank \in Surjection(P, 0..(c - 1))
  BY <1>4, <1>5, FS_Injection
<1>7. \E p \in P : rank[p] = m - 1
  <2>1. m - 1 \in 0..(c - 1)
    BY <1>1
  <2> HIDE DEF rank, c
  <2>2. \A n \in 0..(c - 1) : \E p \in P : rank[p] = n
    BY <1>6 DEF Surjection
  <2>3. QED
    BY <2>1, <2>2
<1>8. \E p \in P : Cardinality(Before(P, p)) = m - 1
  BY <1>7
<1>9. QED
  BY <1>8 DEF Nth

(* Every position of P is the one with as many positions before it as      *)
(* there are.                                                              *)
LEMMA EveryPositionIsNth ==
  ASSUME NEW P \in SUBSET Nat, IsFiniteSet(P), NEW p \in P
  PROVE  \E m \in 1..Cardinality(P) : Nth(P, m) = p
<1> DEFINE m == Cardinality(Before(P, p)) + 1
<1>1. p \notin Before(P, p) /\ Before(P, p) \in SUBSET P
  <2>1. ~ (p < p)
    OBVIOUS
  <2>2. QED
    BY <2>1, Zenon DEF Before
<1>2. m \in 1..Cardinality(P)
  BY <1>1, FS_Subset, FS_CardinalityType
<1>3. /\ Nth(P, m) \in P
      /\ Cardinality(Before(P, Nth(P, m))) = m - 1
  BY <1>2, NthIsNth
<1>4. m - 1 = Cardinality(Before(P, p))
  <2>1. Cardinality(Before(P, p)) \in Nat
    BY <1>1, FS_Subset, FS_CardinalityType
  <2>2. QED
    BY <2>1
<1>5. Nth(P, m) = p
  <2> HIDE DEF m
  <2>1. Cardinality(Before(P, Nth(P, m))) = Cardinality(Before(P, p))
    BY <1>3, <1>4, Zenon
  <2>2. QED
    BY <1>3, <2>1, SameRankSamePosition
<1>6. QED
  BY <1>2, <1>5

(* A sequence of indices in increasing order, none below its position: the *)
(* shape of m_indices and of the indices of a vector.                      *)
Increasing(s) ==
  /\ s \in Seq(Nat)
  /\ \A p \in DOMAIN s : p - 1 <= s[p]
  /\ \A p, q \in DOMAIN s : p < q => s[p] < s[q]

(* The filter keeps the elements that are not in out, in increasing order  *)
(* and none below its new position (valid_indices(), list.hpp:44-48), each *)
(* from its own position or one behind.                                    *)
LEMMA FilteredGives ==
  ASSUME NEW s, Increasing(s), NEW out
  PROVE  /\ Increasing(Filtered(s, out))
         /\ Len(Filtered(s, out)) <= Len(s)
         /\ RangeOf(Filtered(s, out)) = RangeOf(s) \ out
         /\ \A m \in DOMAIN Filtered(s, out) :
              \E p \in DOMAIN s : m <= p /\ s[p] = Filtered(s, out)[m]
<1> DEFINE P == Kept(s, out)
           c == Cardinality(P)
           f == Filtered(s, out)
<1>1. /\ s \in Seq(Nat)
      /\ Len(s) \in Nat
      /\ DOMAIN s = 1..Len(s)
      /\ \A p \in DOMAIN s : s[p] \in Nat
  BY DEF Increasing
<1>2. /\ P \in SUBSET Nat
      /\ P \in SUBSET (1..Len(s))
      /\ \A p \in DOMAIN s : p \in P <=> s[p] \notin out
  BY <1>1 DEF Kept
<1>3. /\ IsFiniteSet(P)
      /\ c \in Nat
      /\ c <= Len(s)
  <2>1. IsFiniteSet(1..Len(s)) /\ Cardinality(1..Len(s)) = Len(s)
    BY <1>1, UpTo
  <2> HIDE DEF P
  <2>2. QED
    BY <1>2, <2>1, FS_Subset, FS_CardinalityType
<1>4. f = [m \in 1..c |-> s[Nth(P, m)]]
  BY DEF Filtered
<1> HIDE DEF P, c, f
<1>5. ASSUME NEW m \in 1..c
      PROVE  /\ Nth(P, m) \in P
             /\ Cardinality(Before(P, Nth(P, m))) = m - 1
  BY <1>2, <1>3, NthIsNth DEF c
<1>6. ASSUME NEW m \in 1..c
      PROVE  m <= Nth(P, m)
  <2> DEFINE p == Nth(P, m)
  <2>1. p \in 1..Len(s)
    BY <1>2, <1>5
  <2>2. /\ IsFiniteSet(1..(p - 1))
        /\ Cardinality(1..(p - 1)) = p - 1
    <3>1. p - 1 \in Nat
      BY <1>1, <2>1
    <3> HIDE DEF p
    <3>2. QED
      BY <3>1, UpTo
  <2>3. Before(P, p) \in SUBSET (1..(p - 1))
    <3>1. \A q \in P : q < p => q \in 1..(p - 1)
      BY <1>1, <1>2, <2>1
    <3>2. QED
      BY <3>1, Zenon DEF Before
  <2>4. m - 1 <= p - 1
    BY <1>5, <2>2, <2>3, FS_Subset
  <2>5. QED
    BY <1>1, <1>3, <2>1, <2>4
<1>7. ASSUME NEW m \in 1..c, NEW n \in 1..c, m < n
      PROVE  Nth(P, m) < Nth(P, n)
  <2> DEFINE p == Nth(P, m)
             q == Nth(P, n)
  <2>1. /\ p \in P /\ q \in P
        /\ Cardinality(Before(P, p)) = m - 1
        /\ Cardinality(Before(P, q)) = n - 1
    BY <1>5
  <2> HIDE DEF p, q
  <2>2. p \in Nat /\ q \in Nat
    BY <1>2, <2>1
  <2>3. p # q
    BY <1>3, <1>7, <2>1
  <2>4. ~ (q < p)
    <3> SUFFICES ASSUME q < p PROVE FALSE
      OBVIOUS
    <3>1. n - 1 < m - 1
      BY <1>2, <2>1, BeforeGrows
    <3>2. QED
      BY <1>3, <1>7, <3>1
  <2>5. p < q
    BY <2>2, <2>3, <2>4
  <2>6. QED
    BY <2>5 DEF p, q
<1>8. /\ f \in Seq(Nat)
      /\ Len(f) = c
      /\ DOMAIN f = 1..c
      /\ \A m \in 1..c : f[m] = s[Nth(P, m)]
  <2>1. \A m \in 1..c : s[Nth(P, m)] \in Nat
    BY <1>1, <1>2, <1>5
  <2>2. f \in [1..c -> Nat]
    BY <1>4, <2>1
  <2>3. QED
    BY <1>3, <1>4, <2>2
<1>9. \A m \in DOMAIN f : m - 1 <= f[m]
  <2> SUFFICES ASSUME NEW m \in 1..c
               PROVE  m - 1 <= s[Nth(P, m)]
    BY <1>8
  <2>1. Nth(P, m) \in DOMAIN s /\ m <= Nth(P, m)
    BY <1>1, <1>2, <1>5, <1>6
  <2>2. Nth(P, m) - 1 <= s[Nth(P, m)]
    BY <2>1 DEF Increasing
  <2>3. QED
    BY <1>1, <1>3, <2>1, <2>2
<1>10. \A m, n \in DOMAIN f : m < n => f[m] < f[n]
  <2> SUFFICES ASSUME NEW m \in 1..c, NEW n \in 1..c, m < n
               PROVE  s[Nth(P, m)] < s[Nth(P, n)]
    BY <1>8
  <2>1. /\ Nth(P, m) \in DOMAIN s /\ Nth(P, n) \in DOMAIN s
        /\ Nth(P, m) < Nth(P, n)
    BY <1>1, <1>2, <1>5, <1>7
  <2>2. QED
    BY <2>1 DEF Increasing
<1>11. RangeOf(f) = RangeOf(s) \ out
  <2>1. ASSUME NEW m \in DOMAIN f
        PROVE  f[m] \in RangeOf(s) \ out
    <3>1. /\ f[m] = s[Nth(P, m)]
          /\ Nth(P, m) \in DOMAIN s
          /\ s[Nth(P, m)] \notin out
      BY <1>1, <1>2, <1>5, <1>8
    <3>2. QED
      BY <3>1 DEF RangeOf
  <2>2. ASSUME NEW p \in DOMAIN s, s[p] \notin out
        PROVE  s[p] \in RangeOf(f)
    <3>1. p \in P
      BY <1>2, <2>2
    <3>2. PICK m \in 1..c : Nth(P, m) = p
      BY <1>2, <1>3, <3>1, EveryPositionIsNth DEF c
    <3>3. f[m] = s[p] /\ m \in DOMAIN f
      BY <1>8, <3>2
    <3>4. QED
      BY <3>3 DEF RangeOf
  <2>3. QED
    BY <2>1, <2>2 DEF RangeOf
<1>12. \A m \in DOMAIN f : \E p \in DOMAIN s : m <= p /\ s[p] = f[m]
  BY <1>1, <1>2, <1>5, <1>6, <1>8
<1>13. QED
  BY <1>3, <1>8, <1>9, <1>10, <1>11, <1>12 DEF Increasing, f

(* With nothing to leave out the filter returns the sequence it was given. *)
LEMMA FilteredNothing ==
  ASSUME NEW s, Increasing(s)
  PROVE  Filtered(s, {}) = s
<1> DEFINE P == Kept(s, {})
<1>1. /\ s \in Seq(Nat)
      /\ Len(s) \in Nat
      /\ DOMAIN s = 1..Len(s)
  BY DEF Increasing
<1>2. /\ P = 1..Len(s)
      /\ P \in SUBSET Nat
  BY <1>1 DEF Kept
<1>3. IsFiniteSet(P) /\ Cardinality(P) = Len(s)
  BY <1>1, <1>2, UpTo
<1>4. Filtered(s, {}) = [m \in 1..Cardinality(P) |-> s[Nth(P, m)]]
  BY DEF Filtered
<1> HIDE DEF P
<1>5. ASSUME NEW m \in 1..Len(s)
      PROVE  Nth(P, m) = m
  <2>1. m \in P /\ m - 1 \in Nat
    BY <1>1, <1>2
  <2>2. Before(P, m) = 1..(m - 1)
    <3>1. \A q \in P : q < m <=> q \in 1..(m - 1)
      BY <1>1, <1>2
    <3>2. \A q \in 1..(m - 1) : q \in P
      BY <1>1, <1>2
    <3>3. QED
      BY <3>1, <3>2, Zenon DEF Before
  <2>3. Cardinality(Before(P, m)) = m - 1
    BY <2>1, <2>2, UpTo
  <2>4. /\ Nth(P, m) \in P
        /\ Cardinality(Before(P, Nth(P, m))) = m - 1
    BY <1>2, <1>3, NthIsNth
  <2>5. Cardinality(Before(P, Nth(P, m))) = Cardinality(Before(P, m))
    BY <2>3, <2>4, Zenon
  <2>6. QED
    BY <1>2, <2>1, <2>4, <2>5, SameRankSamePosition
<1>6. Filtered(s, {}) = [m \in 1..Len(s) |-> s[m]]
  BY <1>3, <1>4, <1>5
<1>7. QED
  BY <1>1, <1>6

(* Of the indices 0, ..., n - 1 in order, the filter leaves as many as are *)
(* not in out.                                                             *)
LEMMA NumberedCounts ==
  ASSUME NEW n \in Nat, NEW s, DOMAIN s = 1..n, \A p \in 1..n : s[p] = p - 1,
         NEW out \in SUBSET (0..(n - 1)), Len(Filtered(s, out)) \in Nat,
         DOMAIN Filtered(s, out) = 1..Len(Filtered(s, out))
  PROVE  Len(Filtered(s, out)) = n - Cardinality(out)
<1> DEFINE R == {i + 1 : i \in out}
           P == Kept(s, out)
<1>1. R \in SUBSET (1..n) /\ P = (1..n) \ R
  <2>1. \A i \in out : i + 1 \in 1..n /\ i \in Int
    OBVIOUS
  <2>2. \A p \in 1..n : p \in P <=> p - 1 \notin out
    BY DEF Kept
  <2>3. \A p \in 1..n : p \in R <=> p - 1 \in out
    BY <2>1
  <2>4. P \subseteq 1..n
    BY DEF Kept
  <2> HIDE DEF P
  <2> QED
    BY <2>1, <2>2, <2>3, <2>4
<1>2. IsFiniteSet(out) /\ IsFiniteSet(1..n) /\ Cardinality(1..n) = n
  <2>1. IsFiniteSet(0..(n - 1))
    BY FS_Interval
  <2> QED
    BY <2>1, UpTo, FS_Subset
<1>3. Cardinality(R) = Cardinality(out) /\ IsFiniteSet(R)
  <2> DEFINE up == [i \in out |-> i + 1]
  <2>1. \A i, j \in out : i + 1 = j + 1 => i = j
    OBVIOUS
  <2>2. up \in Bijection(out, R)
    <3>1. up \in [out -> R] /\ \A i, j \in out : up[i] = up[j] => i = j
      BY <2>1
    <3>2. \A q \in R : \E i \in out : up[i] = q
      OBVIOUS
    <3> HIDE DEF up, R
    <3> QED
      BY <3>1, <3>2 DEF Bijection, Injection, Surjection, IsInjective
  <2> HIDE DEF up, R
  <2> QED
    BY <1>2, <2>2, FS_Bijection DEF ExistsBijection
<1>4. Cardinality(P) = n - Cardinality(out)
  <2>1. Cardinality((1..n) \ R) = Cardinality(1..n) - Cardinality((1..n) \cap R)
    BY <1>2, FS_Difference
  <2>2. (1..n) \cap R = R
    BY <1>1
  <2> HIDE DEF R, P
  <2> QED
    BY <1>1, <1>2, <1>3, <2>1, <2>2
<1>5. Len(Filtered(s, out)) = Cardinality(P)
  <2>1. Filtered(s, out) = [m \in 1..Cardinality(P) |-> s[Nth(P, m)]]
    BY DEF Filtered
  <2>2. Cardinality(P) \in Nat
    BY <1>1, <1>2, FS_Subset, FS_CardinalityType
  <2> HIDE DEF P
  <2>3. 1..Len(Filtered(s, out)) = 1..Cardinality(P)
    BY <2>1
  <2> QED
    BY <2>2, <2>3
<1> QED
  BY <1>4, <1>5

(* v.push_back(e): one element more, behind the others. *)
LEMMA AppendGives ==
  ASSUME NEW T, NEW s \in Seq(T), NEW e \in T
  PROVE  /\ Append(s, e) \in Seq(T)
         /\ Len(Append(s, e)) = Len(s) + 1
         /\ DOMAIN Append(s, e) = 1..(Len(s) + 1)
         /\ Append(s, e)[Len(s) + 1] = e
         /\ \A p \in 1..Len(s) : Append(s, e)[p] = s[p]
         /\ Len(s) \in Nat /\ DOMAIN s = 1..Len(s)
OBVIOUS

-----------------------------------------------------------------------------
(* gaa::Pool *)

(* get() returns a number and leaves a pool; the number is a deprecated    *)
(* one, which is taken back, or the next new one (pool.hpp:35-43).         *)
LEMMA PoolGet ==
  ASSUME NEW p, IsPool(p)
  PROVE  /\ NextIndex(p) \in Nat
         /\ IsPool(AfterGet(p))
         /\ HasDeprecated(p) => /\ NextIndex(p) \in p.deprecated
                                /\ AfterGet(p).size = p.size
         /\ ~HasDeprecated(p) => /\ NextIndex(p) = p.size
                                 /\ AfterGet(p).size = p.size + 1
         /\ AfterGet(p).deprecated \subseteq p.deprecated
<1>1. p \in [deprecated : SUBSET Nat, size : Nat]
  BY DEF IsPool
<1>2. HasDeprecated(p) => Least(p.deprecated) \in p.deprecated
  BY <1>1, LeastIsLeast DEF HasDeprecated
<1>3. QED
  BY <1>1, <1>2 DEF NextIndex, AfterGet, IsPool, HasDeprecated

=============================================================================
