------------------------------ MODULE Calendar ------------------------------
(***************************************************************************)
(* Julian days (core/etc.cpp), in integers: a day is 24 hours, and days    *)
(* are counted from the noon that Julian days begin at, in half days.      *)
(***************************************************************************)
EXTENDS Integers

(* int(365.25 * Y) and int(30.6001 * (M + 1)): conversion to int rounds    *)
(* towards zero, and Y is -1 at least.                                     *)
YearDays(Y) == IF Y >= 0 THEN (1461 * Y) \div 4 ELSE -((-1461 * Y) \div 4)
MonthDays(M) == (306001 * (M + 1)) \div 10000

(* Wrong variant: January and February belong to their own year. *)
JulianHoursOwnYear(t) ==
  24 * (YearDays(t.Y) + MonthDays(t.M) + t.D + 1720981) + 12 + t.H

(* julia_day, in hours.  The fraction of the hour is cut off with the      *)
(* conversion to int of the hours, minutes and seconds together.           *)
JulianHours(t) ==
  LET early == t.M = 1 \/ t.M = 2
      Y == IF early THEN t.Y - 1 ELSE t.Y
      M == IF early THEN t.M + 12 ELSE t.M
  IN  24 * (YearDays(Y) + MonthDays(M) + t.D + 1720981) + 12
        + (3600 * t.H + 60 * t.m + t.S) \div 3600

-----------------------------------------------------------------------------
(* The civil calendar *)

IsLeap(Y) == Y % 4 = 0 /\ (Y % 100 # 0 \/ Y % 400 = 0)

MonthLength(Y, M) ==
  CASE M = 2 -> IF IsLeap(Y) THEN 29 ELSE 28
    [] M \in {4, 6, 9, 11} -> 30
    [] OTHER -> 31

NextDay(t) ==
  CASE t.D < MonthLength(t.Y, t.M) -> [t EXCEPT !.D = @ + 1]
    [] t.D = MonthLength(t.Y, t.M) /\ t.M < 12 -> [t EXCEPT !.D = 1, !.M = @ + 1]
    [] OTHER -> [t EXCEPT !.D = 1, !.M = 1, !.Y = @ + 1]

=============================================================================
