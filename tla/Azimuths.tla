------------------------------ MODULE Azimuths ------------------------------
(***************************************************************************)
(* How GAA's geodetic solvers, plane coordinates and ECEF coordinates turn *)
(* the ratio of two components back into a direction.                      *)
(*                                                                         *)
(* Angles are whole degrees, directions lie in 0..359.  The series, and    *)
(* what the iterations end with when they do, are taken for exact: a       *)
(* component is known by the direction it belongs to, and what is kept is  *)
(* which inverse function the code takes and how it corrects the quadrant  *)
(* by signs.                                                               *)
(*                                                                         *)
(* A line on the ellipsoid is known by its forward azimuths at its ends,   *)
(* from and to.  Both lie on the same side, east or west, and off the      *)
(* axes, or the line runs along a meridian or the equator, and both are    *)
(* the same multiple of 90, or its ends are the same point and it has none.*)
(***************************************************************************)
EXTENDS Integers

NaN == 10000   (* no angle *)

Magnitude(n) == IF n < 0 THEN -n ELSE n

(* atan(sin A / cos A), atan2(sin A, cos A) and the signs of sin A, cos A  *)
(* and tan A.                                                              *)
Atan(A) ==
  IF A % 180 < 90 THEN A % 180
  ELSE IF A % 180 > 90 THEN (A % 180) - 180
  ELSE IF A % 360 = 90 THEN 90 ELSE -90

Atan2(A) == IF A % 360 > 180 THEN (A % 360) - 360 ELSE A % 360

SinSign(A) == IF A % 180 = 0 THEN 0 ELSE IF A % 360 < 180 THEN 1 ELSE -1
CosSign(A) == SinSign(A + 90)
TanSign(A) == SinSign(A) * CosSign(A)

(* A line between a point and itself; its components are both zero.        *)
Coincident == [from |-> NaN, to |-> NaN]

SinAt(A) == IF A = NaN THEN 0 ELSE SinSign(A)
CosAt(A) == IF A = NaN THEN 0 ELSE CosSign(A)

Back(A) == (A + 180) % 360
Same(A, B) == A # NaN /\ B # NaN /\ (A - B) % 360 = 0

-----------------------------------------------------------------------------
(* Bessel *)

(* _bessel_adjust_lambda, _bessel_adjust_A2, _bessel_adjust_A1: the angle  *)
(* of the inverse tangent and two signs to the angle itself.               *)
AdjustLambda(lambda, sinA1, tanLambda) ==
  CASE sinA1 > 0 /\ tanLambda > 0 -> Magnitude(lambda)
    [] sinA1 > 0 /\ tanLambda < 0 -> 180 - Magnitude(lambda)
    [] sinA1 < 0 /\ tanLambda < 0 -> -Magnitude(lambda)
    [] sinA1 < 0 /\ tanLambda > 0 -> Magnitude(lambda) - 180
    [] OTHER -> NaN

AdjustA2(A2, sinA1, tanA2) ==
  CASE sinA1 < 0 /\ tanA2 > 0 -> Magnitude(A2)
    [] sinA1 < 0 /\ tanA2 < 0 -> 180 - Magnitude(A2)
    [] sinA1 > 0 /\ tanA2 > 0 -> 180 + Magnitude(A2)
    [] sinA1 > 0 /\ tanA2 < 0 -> 360 - Magnitude(A2)
    [] OTHER -> NaN

(* Wrong variant: the fourth quadrant is measured from the wrong axis. *)
AdjustA1Mirrored(A1, p, q) ==
  CASE p > 0 /\ q > 0 -> Magnitude(A1)
    [] p > 0 /\ q < 0 -> 180 - Magnitude(A1)
    [] p < 0 /\ q < 0 -> 180 + Magnitude(A1)
    [] p < 0 /\ q > 0 -> 180 - Magnitude(A1)
    [] OTHER -> NaN

AdjustA1(A1, p, q) ==
  CASE p > 0 /\ q > 0 -> Magnitude(A1)
    [] p > 0 /\ q < 0 -> 180 - Magnitude(A1)
    [] p < 0 /\ q < 0 -> 180 + Magnitude(A1)
    [] p < 0 /\ q > 0 -> 360 - Magnitude(A1)
    [] OTHER -> NaN

(* The distance on the sphere from 0 to 180, by the sign of its cosine. *)
AdjustSigma(sigma, cosSigma) ==
  CASE cosSigma > 0 -> Magnitude(sigma)
    [] cosSigma < 0 -> 180 - Magnitude(sigma)
    [] OTHER -> NaN

(* Bessel_solver::solve for a line that spans the difference lambda of     *)
(* longitudes on the sphere.                                               *)
BesselSolve(line, lambda) ==
  [lambda |-> AdjustLambda(Atan(lambda), SinSign(line.from), TanSign(Atan(lambda))),
   rangle |-> AdjustA2(Atan(line.to), SinSign(line.from), TanSign(Atan(line.to)))]

(* Bessel_solver::rsolve for a line that spans the arc sigma.  p and q,    *)
(* the sine and the cosine of the azimuth up to a factor: one is zero      *)
(* along a meridian, one along the equator, and both between a point and   *)
(* itself.  Then no quadrant is chosen, and every iterate is a NaN.        *)
BesselA1(line) ==
  AdjustA1(Atan(line.from), SinAt(line.from), CosAt(line.from))

BesselDefined(line) == BesselA1(line) # NaN

BesselRsolve(line, sigma) ==
  [angle |-> BesselA1(line),
   rangle |-> (IF BesselA1(line) < 180 THEN 180 ELSE -180) + Atan(line.to),
   sigma |-> AdjustSigma(Atan(sigma), CosSign(sigma))]

-----------------------------------------------------------------------------
(* Vincenty *)

VincentySolve(line) == [rangle |-> Atan2(line.to) + 180]

(* Along the equator cos_2_alpha is zero and divides zero, and between a   *)
(* point and itself, at any latitude, sin_sigma is and does: every iterate *)
(* is a NaN.                                                               *)
VincentyDefined(line) == CosAt(line.from) # 0

VincentyRsolve(line) ==
  LET a1 == Atan2(line.from) + 180
  IN  [angle |-> a1,
       rangle |-> Atan2(line.to) + 180 + (IF a1 < 180 THEN 180 ELSE 0)]

-----------------------------------------------------------------------------
(* The Gauss lemma works with the azimuth Am at the middle of the line:    *)
(* from = Am - dA / 2 and to = Am + dA / 2.                                *)

Middle(line) == (line.from + line.to) \div 2
Convergence(line) == line.to - line.from

(* Gauss_lemma_solver::solve *)
GaussSolve(line) ==
  [rangle |-> line.from + Convergence(line) + (IF line.from < 180 THEN 180 ELSE -180)]

(* T: atan(U / V) with its sign when the line climbs more than it runs,    *)
(* else the acute angle from atan((1 - c) / (1 + c)), c = |V / U|.         *)
GaussT(Am, steep) == IF steep THEN Atan(Am) ELSE Magnitude(Atan(Am))

(* _gauss_lemma_AmRad: T is taken for the acute angle. *)
AmRad(T, dB, dL) ==
  CASE dB > 0 /\ dL >= 0 -> T
    [] dB < 0 /\ dL >= 0 -> 180 - T
    [] dB <= 0 /\ dL < 0 -> 180 + T
    [] dB > 0 /\ dL < 0 -> 360 - T
    [] dB = 0 /\ dL >= 0 -> 90

(* Gauss_lemma_solver::rsolve.  The length is the mean of U / sin(Am) and  *)
(* V / cos(Am): each is the length when its sign agrees, minus the length  *)
(* when it disagrees, and on an axis one of them is 0 over almost 0, or,   *)
(* due north, 0 over 0.  halves counts half lengths.  Between a point and  *)
(* itself dB and dL are zero, and T, a NaN, is not looked at.              *)
GaussRsolve(line, steep) ==
  LET am == Middle(line)
      Am == AmRad(GaussT(am, steep), CosAt(am), SinAt(am))
      A12 == Am - Convergence(line) \div 2
  IN  [angle |-> A12,
       rangle |-> Am + Convergence(line) \div 2 + (IF A12 < 180 THEN 180 ELSE -180),
       halves |-> IF Am = 0 THEN NaN
                  ELSE SinAt(am) * SinSign(Am) + CosAt(am) * CosSign(Am)]

-----------------------------------------------------------------------------
(* Plane coordinates (coord/plane) and ECEF coordinates (coord/ecef).      *)

(* Points of the plane are known by the direction from the x axis towards  *)
(* the y axis in which they lie.                                           *)
Xy2da(dir) == Atan(dir)
Da2xy(a) == 90 - a
PlaneSolve(a) == a
PlaneRsolve(dir) == Atan2(dir)

(* cast_to: the longitude of a point, from its x and y. *)
EcefLongitude(lon) ==
  LET L == Atan(lon) IN IF L < 0 THEN L + 180 ELSE L

=============================================================================
