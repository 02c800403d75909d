----------------------------- MODULE Adjustment -----------------------------
(***************************************************************************)
(* The iterative adjustments of photogrammetry: space_resection, which     *)
(* finds the orientation of one image, and space_intersection_ols, which   *)
(* finds points that several images show, with their keyword arguments.    *)
(*                                                                         *)
(* What a least-squares solution yields is up to the data: a correction is *)
(* any size from 0 to MaxCorrection, and the estimate is known by the sum  *)
(* of the corrections applied to it.                                       *)
(***************************************************************************)
EXTENDS Integers, Kw

CONSTANTS
  Limits,            (* numbers of iterations a program asks for     *)
  DefaultLimit,      (* ... and without asking: 50 in the code       *)
  Thresholds,        (* thresholds of convergence it asks for        *)
  DefaultThreshold,  (* ... and without asking: 1e-5                 *)
  Solvers,           (* functions for the collinearity condition     *)
  DefaultSolver,     (* cc_solve_all                                 *)
  MaxCorrection,     (* bound on the size of a correction            *)
  MaxImages,         (* bound on the number of images                *)
  MaxPoints          (* bound on the number of points                *)

ASSUME AdjustmentAssumption ==
  /\ Limits \subseteq Int /\ DefaultLimit \in Nat
  /\ Thresholds \subseteq Nat /\ DefaultThreshold \in Nat
  /\ MaxCorrection \in Nat /\ MaxImages \in Nat
  /\ MaxPoints \in Nat /\ MaxPoints > 0

VARIABLES
  phase,      (* "kw", "running", "returned", "aborted", "undefined", "idle" *)
  job,        (* the function called, with its images and points       *)
  args,       (* the keyword arguments                                 *)
  used,       (* the values the function took from them                *)
  left,       (* number_of_iterations                                  *)
  row,        (* the point the intersection is at, or None             *)
  converged,  (* is_converged                                          *)
  estimate,   (* row -> the sum of its corrections; the orientation of *)
              (* the resection is row 0                                *)
  result,     (* info, and the estimate the rotation was computed from *)
  rounds      (* iterations begun                                      *)

avars ==
  <<phase, job, args, used, left, row, converged, estimate, result, rounds>>

Tags == {"number_of_iterations", "converge_threshold", "collinearity_condition_solver"}

Values(tag) ==
  CASE tag = "number_of_iterations" -> Limits
    [] tag = "converge_threshold" -> Thresholds
    [] tag = "collinearity_condition_solver" -> Solvers

Jobs ==
  [fn : {"space_resection"}, images : {1}, points : {1}]
    \union [fn : {"space_intersection_ols"}, images : 1..MaxImages, points : 1..MaxPoints]

None == -1   (* between two sweeps; no rotation in the result *)

NoResult == [info |-> "indeterminate", rot |-> None]
NoValues == [limit |-> 0, threshold |-> 0, solver |-> DefaultSolver]

(* No adjustment is called. *)
AdjustmentIdle ==
  /\ phase = "idle"
  /\ job = <<>>
  /\ args = NoArgs
  /\ used = NoValues
  /\ left = 0 /\ row = None /\ rounds = 0
  /\ converged = FALSE
  /\ estimate = <<>>
  /\ result = NoResult

AdjustmentInit ==
  /\ phase = "kw"
  /\ job \in Jobs
  /\ args = NoArgs
  /\ used = NoValues
  /\ left = 0 /\ row = None /\ rounds = 0
  /\ converged = FALSE
  /\ estimate = [r \in 0..(job.points - 1) |-> 0]
  /\ result = NoResult

-----------------------------------------------------------------------------
(* One more setter in the chain; setting a tag again fails an assertion. *)
Give(tag, value, named) ==
  /\ phase = "kw"
  /\ IF Has(args, tag)
     THEN phase' = "aborted" /\ UNCHANGED args
     ELSE args' = WithArg(args, tag, Argument(value, named)) /\ UNCHANGED phase
  /\ UNCHANGED <<job, used, left, row, converged, estimate, result, rounds>>

(* The call, in the statement that made the arguments or in a later one;   *)
(* the assertions, reading the arguments and the first approximation.      *)
Called(later) ==
  LET limit == ArgOr(args, "number_of_iterations", DefaultLimit)
  IN  /\ phase = "kw"
      /\ used' = [limit |-> limit,
                  threshold |-> ArgOr(args, "converge_threshold", DefaultThreshold),
                  solver |-> ArgOr(args, "collinearity_condition_solver", DefaultSolver)]
      /\ left' = limit
      /\ phase' = IF job.fn = "space_intersection_ols" /\ job.images < 2 THEN "aborted"
                  ELSE IF Dangles(args, "collinearity_condition_solver", later) THEN "undefined"
                  ELSE "running"
      /\ result' = IF job.fn = "space_resection" THEN [result EXCEPT !.info = "Unknown_Status"]
                   ELSE result
      /\ UNCHANGED <<job, args, row, converged, estimate, rounds>>

(* Wrong variant: the corrections are applied before they are looked at. *)
ResectionAppliesFirst(c) ==
  /\ phase = "running" /\ job.fn = "space_resection" /\ left > 0
  /\ left' = left - 1
  /\ rounds' = rounds + 1
  /\ estimate' = [estimate EXCEPT ![0] = @ + c]
  /\ IF c < used.threshold
     THEN /\ result' = [info |-> "Iterative_Solve_Success", rot |-> estimate[0]]
          /\ phase' = "returned"
     ELSE UNCHANGED <<result, phase>>
  /\ UNCHANGED <<job, args, used, row, converged>>

(* An iteration of space_resection: a small correction ends it and is not  *)
(* applied, another one is.                                                *)
ResectionIterates(c) ==
  /\ phase = "running" /\ job.fn = "space_resection" /\ left > 0
  /\ left' = left - 1
  /\ rounds' = rounds + 1
  /\ IF c < used.threshold
     THEN /\ result' = [info |-> "Iterative_Solve_Success", rot |-> estimate[0]]
          /\ phase' = "returned"
          /\ UNCHANGED estimate
     ELSE /\ estimate' = [estimate EXCEPT ![0] = @ + c]
          /\ UNCHANGED <<result, phase>>
  /\ UNCHANGED <<job, args, used, row, converged>>

(* A new sweep of space_intersection_ols over the points. *)
SweepBegins ==
  /\ phase = "running" /\ job.fn = "space_intersection_ols"
  /\ row = None /\ left > 0
  /\ left' = left - 1
  /\ rounds' = rounds + 1
  /\ row' = 0
  /\ converged' = TRUE
  /\ UNCHANGED <<phase, job, args, used, estimate, result>>

(* One point of a sweep.  Whatever its correction, it is applied; a small  *)
(* one writes the status and the accuracies into the result.  The rows of  *)
(* the points and of their image coordinates are indexed by the number of  *)
(* the image: with more images than points it is out of range.  After the  *)
(* last point the sweep, and if all were small the call, is over.          *)
PointCorrected(c) ==
  /\ phase = "running" /\ job.fn = "space_intersection_ols" /\ row # None
  /\ IF job.images > job.points
     THEN phase' = "undefined" /\ UNCHANGED <<row, converged, estimate, result>>
     ELSE /\ estimate' = [estimate EXCEPT ![row] = @ + c]
          /\ IF c < used.threshold
             THEN /\ result' = [result EXCEPT !.info = "Iterative_Solve_Success"]
                  /\ UNCHANGED converged
             ELSE converged' = FALSE /\ UNCHANGED result
          /\ row' = IF row + 1 = job.points THEN None ELSE row + 1
          /\ phase' = IF row + 1 = job.points /\ converged' THEN "returned" ELSE phase
  /\ UNCHANGED <<job, args, used, left, rounds>>

(* Wrong variant: the iterations are compared with zero. *)
GivesUpAtZero ==
  /\ phase = "running" /\ row = None /\ left = 0
  /\ phase' = "returned"
  /\ UNCHANGED <<job, args, used, left, row, converged, estimate, result, rounds>>

(* The iterations are used up, or there were none. *)
GivesUp ==
  /\ phase = "running" /\ row = None /\ left <= 0
  /\ phase' = "returned"
  /\ UNCHANGED <<job, args, used, left, row, converged, estimate, result, rounds>>

AdjustmentNext ==
  \/ \E tag \in Tags : \E value \in Values(tag), named \in BOOLEAN :
       Give(tag, value, named)
  \/ \E later \in BOOLEAN : Called(later)
  \/ \E c \in 0..MaxCorrection : ResectionIterates(c) \/ PointCorrected(c)
  \/ SweepBegins
  \/ GivesUp

AdjustmentSpec == AdjustmentInit /\ [][AdjustmentNext]_avars

-----------------------------------------------------------------------------
(* Properties *)

Finite(n) == IF n > 0 THEN n ELSE 0

(* A call that returns has begun as many iterations as it was allowed at   *)
(* most.  What it reports fits what it did: the resection reports success  *)
(* exactly when it hands out a rotation, which is then that of the         *)
(* orientation it returns; the intersection reports success when a sweep   *)
(* moved every point by less than the threshold; and a call that does not  *)
(* report success has used up its iterations (space_resection.cpp:20-79,   *)
(* space_intersection.cpp:58-116).                                         *)
ReportFits ==
  /\ rounds <= Finite(used.limit)
  /\ phase = "returned" =>
       LET success == result.info = "Iterative_Solve_Success" IN
       /\ ~success => rounds = Finite(used.limit)
       /\ job.fn = "space_resection" =>
            /\ success <=> result.rot # None
            /\ success => result.rot = estimate[0]
       /\ (job.fn = "space_intersection_ols" /\ converged) => success

=============================================================================
