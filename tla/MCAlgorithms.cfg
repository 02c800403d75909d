\* Inputs of three and four points on a 3 x 3 grid; maps of both kinds of
\* rounding on two columns and rows of sheets; chains of up to three
\* conversions between two ellipsoids, bands chosen and given; jumps in
\* series for second and third differences; expressions of up to three
\* operators on two containers; lines in directions of all quadrants, along
\* the axes, and from a point to itself; every day of ordinary, leap and
\* century years; adjustments of up to three iterations, or of less than
\* none, images and points.
CONSTANTS
  Side = 2
  Counts = {3, 4}
  NeverValidate = TRUE
  MapScales = {"A", "C", "D", "H"}
  Cells = 24
  Ellipsoids = {"cgcs2000", "wgs84"}
  Bands = {20}
  Links = 3
  HalfDegrees = {0, 1, 2, 3, 4, 5, 6, 7, 8, 9, 10, 11, 12, 13, 14, 15, 16, 17, 18, 230, 360}
  Degrees = {2, 3}
  Jumps = 2
  Sizes = {1, 3}
  Containers = {"u", "v"}
  MaxSize = 2
  Objects = 4
  Headings = {20, 70, 110, 160, 200, 250, 290, 340}
  Years = {1900, 1980, 1999, 2000, 2023, 2100}
  Limits <- MCLimits
  DefaultLimit = 2
  Thresholds = {1, 2}
  DefaultThreshold = 1
  Solvers = {"cc_solve_kappa"}
  DefaultSolver = "cc_solve_all"
  MaxCorrection = 2
  MaxImages = 3
  MaxPoints = 3
SPECIFICATION Spec
INVARIANTS HullIsConvexHull SheetNamesCell ChannelsKeepPosition ProjectKeepsBand SlipsFound ExpressionsInBounds AzimuthsRecovered DaysCounted ReportFits
PROPERTIES AdjustmentEnds
CHECK_DEADLOCK FALSE
