----------------------------- MODULE ConvexHull -----------------------------
(***************************************************************************)
(* gaa::convex_hull_2 (geometry/convex_hull_2.hpp): Andrew's monotone      *)
(* chain over a range of point indices, with exact arithmetic (integer     *)
(* coordinates).                                                           *)
(***************************************************************************)
EXTENDS Integers, SequencesExt, FiniteSetsExt

CONSTANTS
  Side,    (* points lie on the grid 0..Side x 0..Side     *)
  Counts   (* how many points an input has, at least three *)

ASSUME ConvexHullAssumption ==
  Side \in Nat /\ Counts \subseteq Nat /\ \A n \in Counts : n > 2

Grid == [x : 0..Side, y : 0..Side]

(* cross_product(a, b, c) *)
Cross(a, b, c) ==
  (b.x - a.x) * (c.y - a.y) - (b.y - a.y) * (c.x - a.x)

(* The comparison given to std::sort. *)
Less(a, b) == a.x < b.x \/ (a.x = b.x /\ a.y < b.y)

(* std::sort and std::unique: increasing points, every point once.  Which  *)
(* of the indices of equal points survives is up to the sort.              *)
IsSortedUnique(s, m) ==
  /\ \A i, j \in DOMAIN s : i < j => Less(m[s[i]], m[s[j]])
  /\ {m[s[i]] : i \in DOMAIN s} = {m[i] : i \in DOMAIN m}

(* Wrong variant of StaysAt: collinear points stay. *)
StaysAtCollinear(pm, chain, l, i) ==
  l < 2 \/ Cross(pm[chain[l - 1]], pm[chain[l]], pm[i]) >= 0

(* The last two points of chain[1..l] and i turn left. *)
StaysAt(pm, chain, l, i) ==
  l < 2 \/ Cross(pm[chain[l - 1]], pm[chain[l]], pm[i]) > 0

(* One iteration: pop while the last two points and i do not turn left,    *)
(* that is, cut the chain back to its longest prefix that may stay; push i. *)
Extended(pm, chain, i) ==
  LET l == Max({n \in 0..Len(chain) : /\ n >= 1 \/ Len(chain) = 0
                                      /\ StaysAt(pm, chain, n, i)})
  IN  Append(SubSeq(chain, 1, l), i)

(* A loop over the given indices, in their order. *)
Chain(pm, order) ==
  LET c[k \in 0..Len(order)] ==
        IF k = 0 THEN <<>> ELSE Extended(pm, c[k - 1], order[k])
  IN  c[Len(order)]

(* convex_hull_2: both chains lose their last point and are joined. *)
Hull(pm, sorted) == Front(Chain(pm, sorted)) \o Front(Chain(pm, Reverse(sorted)))

-----------------------------------------------------------------------------
(* Reference definition *)

(* p lies on the segment from a to b. *)
OnSegment(p, a, b) ==
  /\ Cross(a, b, p) = 0
  /\ (p.x - a.x) * (p.x - b.x) <= 0
  /\ (p.y - a.y) * (p.y - b.y) <= 0

(* p lies in the triangle a b c, its border included. *)
InTriangle(p, a, b, c) ==
  \/ Cross(a, b, p) >= 0 /\ Cross(b, c, p) >= 0 /\ Cross(c, a, p) >= 0
  \/ Cross(a, b, p) <= 0 /\ Cross(b, c, p) <= 0 /\ Cross(c, a, p) <= 0

(* A vertex of the convex hull is a point that the other points do not     *)
(* span.                                                                   *)
Extreme(p, points) ==
  LET others == points \ {p} IN
  /\ \A a, b \in others : ~OnSegment(p, a, b)
  /\ \A a, b, c \in others :
       Cross(a, b, c) # 0 => ~InTriangle(p, a, b, c)

(* The indices in hull are the vertices of the convex hull of points, each *)
(* once and counter-clockwise.                                             *)
IsHull(pm, hull, points) ==
  LET n == Len(hull)
      at(i) == pm[hull[((i - 1) % n) + 1]]
      extreme == {p \in points : Extreme(p, points)}
  IN  /\ {pm[hull[i]] : i \in DOMAIN hull} = extreme
      /\ n = Cardinality(extreme)
      /\ n > 2 => \A i \in 1..n : Cross(at(i), at(i + 1), at(i + 2)) > 0

=============================================================================
