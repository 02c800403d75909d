------------------------------ MODULE MapSheet ------------------------------
(***************************************************************************)
(* gaa::Map_index (geodesy/map_index.cpp), the sheet of a map series that  *)
(* covers a point.  Angles are integers, in quarters of an arc second.     *)
(***************************************************************************)
EXTENDS Integers, FiniteSets, FiniteSetsExt

CONSTANT
  NeverValidate   (* GAA_UNIT_NEVER_VALIDATE is defined (wrap/boost/units.hpp) *)

ASSUME MapSheetAssumption == NeverValidate \in BOOLEAN

Degree == 14400

(* int(a / b) and std::fmod(a, b), which round towards zero; b > 0. *)
Quotient(a, b) == IF a >= 0 THEN a \div b ELSE -((-a) \div b)
Remainder(a, b) == a - b * Quotient(a, b)

Abs(a) == IF a >= 0 THEN a ELSE -a

Scales == {"A", "B", "C", "D", "E", "F", "G", "H"}

LatDif(s) ==
  [A |-> 4 * Degree, B |-> 2 * Degree, C |-> Degree, D |-> 4800, E |-> 2400,
   F |-> 1200, G |-> 600, H |-> 300][s]

LonDif(s) ==
  [A |-> 6 * Degree, B |-> 3 * Degree, C |-> 21600, D |-> 7200, E |-> 3600,
   F |-> 1800, G |-> 900, H |-> 450][s]

(* The quotient 4 / dB of doubles is a whole number for these scales and   *)
(* just below one for the others, as dB went through radians.              *)
Exact == {"A", "B", "C"}

(* 4 / dB - int(fmod(B, 4) / dB) + 1, cut to an int. *)
MinorRow(lat, s) ==
  LET whole == (4 * Degree) \div LatDif(s)
                 - Quotient(Remainder(lat, 4 * Degree), LatDif(s)) + 1
  IN  IF s \in Exact THEN whole ELSE whole - 1

(* Wrong variant: the height of a sheet is taken for its width. *)
MinorColByLat(lon, s) == Quotient(Remainder(lon, 6 * Degree), LatDif(s)) + 1

MinorCol(lon, s) == Quotient(Remainder(lon, 6 * Degree), LonDif(s)) + 1

(* Latitude(b) and Longitude(l) validate their argument. *)
Valid(lat, lon) ==
  NeverValidate \/ (Abs(lat) <= 90 * Degree /\ Abs(lon) <= 180 * Degree)

(* Map_index(lat, lon, scale) *)
MapIndex(lat, lon, s) ==
  LET row == Quotient(lat, 4 * Degree) + 1
      col == Quotient(lon, 6 * Degree) + 31
      r == MinorRow(lat, s)
      c == MinorCol(lon, s)
      south == row * 4 * Degree + r * LatDif(s)
      west == col * 6 * Degree + c * LonDif(s)
  IN  [end |-> IF Valid(south, west) THEN "made" ELSE "aborts",
       row |-> row, col |-> col, scale |-> s, minorRow |-> r, minorCol |-> c,
       south |-> south, west |-> west]

(* operator==: the corners are not compared. *)
SameIndex(m, n) ==
  \A f \in {"row", "col", "scale", "minorRow", "minorCol"} : m[f] = n[f]

(* How many characters {:d} writes. *)
Width(n) ==
  (IF n < 0 THEN 1 ELSE 0)
    + Cardinality({p \in {1, 10, 100, 1000} : p = 1 \/ Abs(n) >= p})

(* fmt(), "{:1c}{:2d}{:1c}{:03d}{:03d}": the fields and the length. *)
Fmt(m) ==
  [index |-> m,
   length |-> 2 + Max({2, Width(m.col)}) + Max({3, Width(m.minorRow)})
                + Max({3, Width(m.minorCol)})]

(* Map_index(text): std::from_chars takes no leading blank.  The corners   *)
(* keep their initializers.                                                *)
Parsed(text) ==
  IF text.length - 4 \in {6, 8} /\ Width(text.index.col) = 2
  THEN [text.index EXCEPT !.south = 0, !.west = 0]
  ELSE [text.index EXCEPT !.end = "aborts"]

=============================================================================
