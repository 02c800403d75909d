----------------------------- MODULE Algorithms -----------------------------
(***************************************************************************)
(* GAA's algorithms, each called once with an input from a small set.      *)
(* Pure functions answer in one step: convex_hull_2, Map_index, chains of  *)
(* coordinate conversions with Gauss-Krueger projections, diff_detect, the *)
(* expressions of gaa::vectorize, the geodetic solvers, plane and ECEF     *)
(* coordinates and julia_day.  The solvers that iterate until a threshold  *)
(* is met answer after a loop that need not end.  The adjustments of       *)
(* photogrammetry take one step per setter, iteration and point.           *)
(***************************************************************************)
EXTENDS ConvexHull, Projection, CycleSlip, Vectorize, Azimuths, Calendar, Adjustment

CONSTANTS
  MapScales,   (* scales of maps                                   *)
  Cells,       (* points lie in 0..Cells-1 cells of scale D        *)
  Ellipsoids,  (* the ellipsoids                                   *)
  Bands,       (* bands a program chooses itself                   *)
  Links,       (* bound on the length of a chain                   *)
  HalfDegrees, (* longitudes east and west, in half degrees        *)
  Degrees,     (* degrees of differences                           *)
  Jumps,       (* bound on the jumps in a series                   *)
  Sizes,       (* sizes of jumps, up or down                       *)
  MaxSize,     (* bound on the length of a container               *)
  Objects,     (* bound on the objects of an expression            *)
  Headings,    (* directions off the axes                          *)
  Years        (* years of dates                                   *)

(* Points lie between Greenwich and 180 degrees east; the first difference *)
(* does not level a slope, and beyond the thirtieth the arrangements no    *)
(* longer fit a long long; half of the sum and of the difference of two    *)
(* directions are whole degrees; and the civil calendar has no year 0.     *)
ASSUME AlgorithmsAssumption ==
  /\ MapScales \subseteq Scales
  /\ Cells \in 0..360
  /\ Bands \subseteq Int /\ Links \in Nat /\ HalfDegrees \subseteq Nat
  /\ Degrees \subseteq 2..30 /\ Jumps \in Nat \ {0} /\ Sizes \subseteq Nat \ {0}
  /\ MaxSize \in Nat /\ Objects \in Nat
  /\ \A a \in Headings : a \in 0..359 /\ a % 90 # 0
  /\ \A a, b \in Headings : (a + b) % 2 = 0
  /\ Years \subseteq Nat \ {0}

VARIABLES
  call,     (* the function and its arguments *)
  answer,   (* what it returns                *)
  pc

vars == <<call, answer, pc, avars>>

(* Points in the middle of a cell of scale D. *)
Lats == {i * LatDif("D") + LatDif("D") \div 2 : i \in 0..(Cells - 1)}
Lons == {i * LonDif("D") + LonDif("D") \div 2 : i \in 0..(Cells - 1)}

ChannelLons ==
  {h * (Degree \div 2) : h \in HalfDegrees \union {-h : h \in HalfDegrees}}

Projects == [interval : {3, 6}, band : Bands \union {Virtual}]

Accepters ==
  {ToProject(p) : p \in Projects} \union {ToEllipsoid(e) : e \in Ellipsoids}
    \union {ToGeodeticOn(e) : e \in Ellipsoids} \union {ToGeodetic}

(* The chains a compiler accepts. *)
Chains ==
  {path \in UNION {[1..n -> Accepters] : n \in 1..Links} :
     \A k \in DOMAIN path :
       HasChannel(IF k = 1 THEN "geodetic" ELSE KindAfter(path[k - 1]), path[k])}

(* Linear series with jumps: slips, position (from 0) -> size.             *)
SeriesLength(degree) == (2 * degree + 1) * Jumps

Series(degree, slope, slips) ==
  LET v[j \in 0..SeriesLength(degree)] ==
        IF j = 0 THEN 0
        ELSE v[j - 1] + slope + (IF j - 1 \in DOMAIN slips THEN slips[j - 1] ELSE 0)
  IN  [j \in 1..SeriesLength(degree) |-> v[j]]

(* Jumps that leave a whole pattern each: degree away from the ends, and   *)
(* more than twice the degree apart.                                       *)
Findable(degree) ==
  {S \in SUBSET (0..(SeriesLength(degree) - 1)) :
     /\ \A k \in S : k >= degree /\ k + degree <= SeriesLength(degree)
     /\ \A k, l \in S : k < l => l - k > 2 * degree}

(* Expressions: nodes refer to objects made before them. *)
Wraps == {Leaf(c) : c \in Containers} \union {Scalar}

RefersBack(e) ==
  \A k \in DOMAIN e : e[k] \in Wraps \/ \E i, j \in 1..(k - 1) : e[k] = Node(i, j)

Expressions ==
  {e \in UNION {[1..n -> Wraps \union {Node(i, j) : i, j \in 1..n}] : n \in 1..Objects} :
     RefersBack(e)}

(* Lines off the axes, and along meridians and the equator. *)
Oblique ==
  {l \in [from : Headings, to : Headings] : SinSign(l.from) = SinSign(l.to)}

AlongAxes == {[from |-> a, to |-> a] : a \in {0, 90, 180, 270}}

(* Whether a line climbs at least as much as it runs, for the axis it is   *)
(* along.                                                                  *)
Steepness(line) ==
  IF SinAt(Middle(line)) = 0 THEN {TRUE}
  ELSE IF CosAt(Middle(line)) = 0 THEN {FALSE}
  ELSE BOOLEAN

Dates ==
  {t \in [Y : Years, M : 1..12, D : 1..31, H : {0, 23}, m : {0, 59}, S : {0}] :
     t.D <= MonthLength(t.Y, t.M)}

(* The calls of the pure functions. *)
HullCall ==
  \E n \in Counts : \E pm \in [0..(n - 1) -> Grid] :
    LET points == {pm[i] : i \in DOMAIN pm} IN
    \E sorted \in [1..Cardinality(points) -> DOMAIN pm] :
      /\ IsSortedUnique(sorted, pm)
      /\ call = [fn |-> "convex_hull_2", pm |-> pm, sorted |-> sorted]

SheetCall ==
  \E lat \in Lats, lon \in Lons, s \in MapScales :
    call = [fn |-> "Map_index", lat |-> lat, lon |-> lon, scale |-> s]

ChannelCall ==
  \E lon \in ChannelLons, e \in Ellipsoids, path \in Chains :
    call = [fn |-> "operator>>", from |-> Geodetic(lon, e), path |-> path]

SlipCall ==
  \E d \in Degrees, slope \in 0..1 : \E S \in Findable(d) :
    \E slips \in [S -> Sizes \union {-z : z \in Sizes}] :
      call = [fn |-> "diff_detect", degree |-> d, slips |-> slips,
              vals |-> Series(d, slope, slips)]

ExpressionCall ==
  \E e \in Expressions, len \in [Containers -> 0..MaxSize] :
    call = [fn |-> "eval", expr |-> e, len |-> len]

BesselCall ==
  \E line \in Oblique, lambda \in Headings :
    /\ SinSign(lambda) = SinSign(line.from)
    /\ call = [fn |-> "bessel", line |-> line, lambda |-> Atan2(lambda)]

BesselInverseCall ==
  \E line \in Oblique \union AlongAxes \union {Coincident},
     sigma \in {s \in Headings : s < 180} :
    call = [fn |-> "rbessel", line |-> line, sigma |-> sigma]

LineCall ==
  \E line \in Oblique \union AlongAxes, f \in {"vincenty", "gauss_lemma"} :
    call = [fn |-> f, line |-> line]

VincentyInverseCall ==
  \E line \in Oblique \union AlongAxes \union {Coincident} :
    call = [fn |-> "rvincenty", line |-> line]

GaussInverseCall ==
  \E line \in Oblique \union AlongAxes \union {Coincident} : \E steep \in Steepness(line) :
    call = [fn |-> "rgauss_lemma", line |-> line, steep |-> steep]

PlaneCall ==
  \E a \in Headings \union {45, 135, 225, 315} : call = [fn |-> "plane", a |-> a]

EcefCall ==
  \E lon \in {Atan2(h) : h \in Headings} \union {0, 90, -90} :
    call = [fn |-> "ecef", lon |-> lon]

DayCall ==
  \E t \in Dates : call = [fn |-> "julia_day", t |-> t]

PureInit ==
  \/ HullCall \/ SheetCall \/ ChannelCall \/ SlipCall \/ ExpressionCall
  \/ BesselCall \/ BesselInverseCall \/ LineCall \/ VincentyInverseCall \/ GaussInverseCall
  \/ PlaneCall \/ EcefCall \/ DayCall

Init ==
  /\ pc = "call"
  /\ answer = <<>>
  /\ \/ PureInit /\ AdjustmentIdle
     \/ call = [fn |-> "adjustment"] /\ AdjustmentInit

Answer(fn, a) ==
  /\ pc = "call"
  /\ call.fn = fn
  /\ answer' = a
  /\ pc' = "done"
  /\ UNCHANGED <<call, avars>>

(* A step of an adjustment; at its end the call is over. *)
Adjusts ==
  /\ pc = "call" /\ call.fn = "adjustment"
  /\ AdjustmentNext
  /\ pc' = IF phase' \in {"kw", "running"} THEN "call" ELSE "done"
  /\ UNCHANGED <<call, answer>>

(* The solvers that loop until a threshold is met.  From the first pass on *)
(* the loop is open: another pass shows nothing, and none has to be the    *)
(* last.  An iterate that is a NaN is near no other.                       *)
Loopers == {"rbessel", "vincenty", "rvincenty", "gauss_lemma"}

Iterates ==
  /\ pc = "call" /\ call.fn \in Loopers
  /\ pc' = "loop"
  /\ UNCHANGED <<call, answer, avars>>

Converges(fn, a) ==
  /\ pc = "loop"
  /\ call.fn = fn
  /\ answer' = a
  /\ pc' = "done"
  /\ UNCHANGED <<call, avars>>

Loops ==
  \/ Iterates
  \/ /\ call.fn = "rbessel" /\ BesselDefined(call.line)
     /\ Converges("rbessel", BesselRsolve(call.line, call.sigma))
  \/ Converges("vincenty", VincentySolve(call.line))
  \/ /\ call.fn = "rvincenty" /\ VincentyDefined(call.line)
     /\ Converges("rvincenty", VincentyRsolve(call.line))
  \/ Converges("gauss_lemma", GaussSolve(call.line))

Next ==
  \/ Answer("convex_hull_2", Hull(call.pm, call.sorted))
  \/ Answer("Map_index", MapIndex(call.lat, call.lon, call.scale))
  \/ Answer("operator>>", SentAll(call.from, call.path))
  \/ Answer("diff_detect", DiffDetect(call.vals, call.degree))
  \/ Answer("eval", Evaluated(call.expr, call.len))
  \/ Answer("bessel", BesselSolve(call.line, call.lambda))
  \/ Answer("rgauss_lemma", GaussRsolve(call.line, call.steep))
  \/ Answer("plane", [solved |-> PlaneRsolve(PlaneSolve(call.a)),
                      converted |-> Xy2da(Da2xy(call.a))])
  \/ Answer("ecef", [lon |-> EcefLongitude(call.lon)])
  \/ Answer("julia_day", [hours |-> JulianHours(call.t)])
  \/ Loops
  \/ Adjusts

(* An adjustment runs on while it can: it takes no locks and waits for     *)
(* nothing.  Nothing says that the other loops converge.                   *)
Spec == Init /\ [][Next]_vars /\ WF_vars(Adjusts)

-----------------------------------------------------------------------------
(* Properties *)

Done(fn) == pc = "done" /\ call.fn = fn

(* For inputs with two different points at least, the result is the        *)
(* vertices of the convex hull, every one once and counter-clockwise,      *)
(* however many points are repeated, collinear or inside                   *)
(* (convex_hull_2.hpp:7-63).                                               *)
HullIsConvexHull ==
  Done("convex_hull_2") =>
    LET points == {call.pm[i] : i \in DOMAIN call.pm} IN
    Cardinality(points) > 1 => IsHull(call.pm, answer, points)

(* Two points north of the equator and east of Greenwich have the same map *)
(* index exactly when they lie in the same cell of the grid, whatever the  *)
(* rounding of 4 / dB; and for these points the text that fmt() writes is  *)
(* read back as the index it was made of, as dev/geodesy/map_index.cpp:    *)
(* 111-114 asserts of its list (map_index.cpp:68-74, 88-123, 135-153).     *)
SheetNamesCell ==
  (Done("Map_index") /\ answer.end = "made") =>
    /\ \A lat \in Lats, lon \in Lons :
         LET s == call.scale
             sameCell == /\ lat \div LatDif(s) = call.lat \div LatDif(s)
                         /\ lon \div LonDif(s) = call.lon \div LonDif(s)
         IN  SameIndex(answer, MapIndex(lat, lon, s)) <=> sameCell
    /\ LET read == Parsed(Fmt(answer))
       IN  read.end = "made" /\ SameIndex(read, answer)

(* However long the chain of conversions, and through whatever bands, it   *)
(* ends at the same longitude on the same ellipsoid, or at a link for      *)
(* another ellipsoid or another width of zones                             *)
(* (gauss_kruger.hpp:69-97, gauss_kruger.cpp:89-148, message.hpp:60-66).   *)
ChannelsKeepPosition ==
  Done("operator>>") =>
    IF answer = Failed
    THEN \E k \in DOMAIN call.path :
           IF call.path[k].to = "project"
           THEN \E l \in 1..(k - 1) :
                  /\ call.path[l].to = "project"
                  /\ call.path[l].project.interval # call.path[k].project.interval
           ELSE call.path[k].ellipsoid # call.from.ellipsoid
    ELSE call.from = IF answer.kind = "projected" THEN Unprojected(answer) ELSE answer

(* East of Greenwich a project without a band chooses one whose central    *)
(* meridian is at most half a zone away, and every other point sent to the *)
(* project of the coordinate it made lands in the same band                *)
(* (gauss_kruger.hpp:50-64, gauss_kruger.cpp:50-102).                      *)
ProjectKeepsBand ==
  (Done("operator>>") /\ answer.kind = "projected" /\ call.from.lon >= 0) =>
    /\ call.path[Len(call.path)].project.band = Virtual =>
         2 * Abs(answer.y) <= answer.project.interval * Degree
    /\ \A lon \in ChannelLons :
         Sent(Geodetic(lon, call.from.ellipsoid), ToProject(answer.project)).band
           = answer.band

(* Jumps that are far enough from each other and from the ends, on a       *)
(* series the difference levels, are all found, nothing else is, and each  *)
(* interval begins at its jump, covers the pattern, stops before the next  *)
(* jump and comes with the size of its own.  Only a jump in the very first *)
(* window of differences has no difference before it to measure it by      *)
(* (cycle_slip_edit.cpp:9-53).                                             *)
SlipsFound ==
  Done("diff_detect") =>
    LET S == DOMAIN call.slips
    IN  IF call.degree \in S THEN answer.end = "undefined"
        ELSE
        /\ answer.end = "returns"
        /\ Len(answer.intervals) = Cardinality(S)
        /\ {answer.intervals[j][1] : j \in DOMAIN answer.intervals} = S
        /\ \A j \in DOMAIN answer.intervals :
             LET here == answer.intervals[j] IN
             /\ here[2] > here[1] + call.degree
             /\ \A k \in S : k > here[1] => here[2] <= k
        /\ \A j \in DOMAIN answer.cycle_slips :
             answer.cycle_slips[j] = call.slips[answer.intervals[j][1]]

(* What the code makes of directions. Bessel, Vincenty and Gauss's lemma   *)
(* give the back azimuth at the end of a line they lay out, and Bessel its *)
(* longitude. Between two points Bessel finds the azimuth of every line it *)
(* returns for, but the back azimuth only when the line arrives            *)
(* northwards; Vincenty gives the opposite of the azimuth, and the back    *)
(* azimuth only of lines that do not run west; the Gauss lemma goes wrong  *)
(* for steep lines to the north-west and the south-east, halves the length *)
(* of lines along an axis, and sends a point to itself due east. In the    *)
(* plane the point laid out in a direction is found back in it, but the    *)
(* two conversions between coordinates and direction invert each other at  *)
(* 45 and 315 degrees only. From ECEF coordinates longitudes in the east   *)
(* are right, those in the west come out on the opposite meridian          *)
(* (bessel.cpp:45-311, vincenty.cpp:79-165, gauss_lemma.cpp:61-185,        *)
(* plane.cpp:7-31, ecef.hpp:40-46).                                        *)
AzimuthsRecovered ==
  /\ Done("bessel") =>
       /\ answer.lambda = call.lambda
       /\ Same(answer.rangle, Back(call.line.to))
  /\ Done("rbessel") =>
       /\ Same(answer.angle, call.line.from)
       /\ answer.sigma = call.sigma
       /\ Same(answer.rangle, Back(call.line.to)) <=> CosSign(call.line.to) > 0
  /\ (Done("vincenty") \/ Done("gauss_lemma")) =>
       Same(answer.rangle, Back(call.line.to))
  /\ Done("rvincenty") =>
       /\ Same(answer.angle, Back(call.line.from))
       /\ Same(answer.rangle, Back(call.line.to)) <=> SinSign(call.line.from) >= 0
  /\ (Done("rgauss_lemma") /\ call.line = Coincident) =>
       answer.angle = 90 /\ answer.rangle = 270 /\ answer.halves = 0
  /\ (Done("rgauss_lemma") /\ call.line # Coincident) =>
       LET turn == TanSign(Middle(call.line))
           right == ~(call.steep /\ turn < 0)
       IN  /\ Same(answer.angle, call.line.from) <=> right
           /\ Same(answer.rangle, Back(call.line.to)) <=> right
           /\ answer.halves = 2 <=> right /\ turn # 0
  /\ Done("plane") =>
       /\ Same(answer.solved, call.a)
       /\ Same(answer.converted, call.a) <=> call.a \in {45, 315}
  /\ Done("ecef") =>
       answer.lon = IF call.lon >= 0 THEN call.lon ELSE call.lon + 180

(* A day is one day after the day before, but for the 29th of February     *)
(* that century years do not have, and the count agrees with the origin of *)
(* GPS time; within a day the hours count, minutes and seconds do not      *)
(* (etc.cpp:5-19).                                                         *)
DaysCounted ==
  Done("julia_day") =>
    LET midnight == [call.t EXCEPT !.H = 0, !.m = 0, !.S = 0]
        skipped == call.t.M = 2 /\ call.t.D = 28 /\ call.t.Y % 4 = 0 /\ ~IsLeap(call.t.Y)
    IN  /\ JulianHours(NextDay(call.t)) = answer.hours + (IF skipped THEN 48 ELSE 24)
        /\ answer.hours = JulianHours(midnight) + call.t.H
        /\ (call.t.Y = 1980 /\ call.t.M = 1 /\ call.t.D = 6) =>
             JulianHours(midnight) = 24 * 2444244 + 12

(* An adjustment comes to its end, whatever the corrections and whatever   *)
(* number of iterations it is asked for, a negative one included           *)
(* (space_resection.cpp:20, space_intersection.cpp:58).                    *)
AdjustmentEnds == call.fn = "adjustment" => <>(pc = "done")

(* An expression over containers that are not empty and passes the         *)
(* assertions evaluates to as many elements as each of its containers has, *)
(* and reads none a container does not have (operation.hpp:64-84,          *)
(* expr.hpp:8-42).                                                         *)
ExpressionsInBounds ==
  (Done("eval") /\ \A c \in Reads(call.expr) : call.len[c] > 0) =>
    /\ answer.end # "undefined"
    /\ answer.end = "returns" =>
         \A c \in Reads(call.expr) : answer.length = call.len[c]

=============================================================================
