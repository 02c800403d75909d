----------------------------- MODULE Projection -----------------------------
(***************************************************************************)
(* The Gauss-Krueger projection (geodesy/project/gauss_kruger) and the     *)
(* channels, operator>>, that take a coordinate from one system to another *)
(* (core/message.hpp).  Coordinates are values: a link of a chain makes a  *)
(* new one or fails.                                                       *)
(*                                                                         *)
(* The series of the projection and its inverse are taken for exact, and   *)
(* only longitudes are kept: y is the distance from the central meridian.  *)
(***************************************************************************)
EXTENDS MapSheet, Sequences

(* A project is an interval, 3 or 6 degrees, and a band. *)
Virtual == -1   (* the band of a project that chooses it by longitude *)

(* band_of(lon) *)
BandOf(interval, lon) ==
  IF interval = 6 THEN Quotient(lon, 6 * Degree) + 1
  ELSE Quotient(lon, 3 * Degree)
         + (IF Remainder(lon, 3 * Degree) > (3 * Degree) \div 2 THEN 1 ELSE 0)

(* center_meridian(band) *)
CenterMeridian(interval, band) ==
  IF interval = 6 THEN (6 * band - 3) * Degree ELSE 3 * band * Degree

Geodetic(lon, e) == [kind |-> "geodetic", lon |-> lon, ellipsoid |-> e]

(* Wrong variant: the project of the coordinate stays virtual. *)
ProjectedVirtual(c, p) ==
  LET band == IF p.band = Virtual THEN BandOf(p.interval, c.lon) ELSE p.band
  IN  [kind |-> "projected", y |-> c.lon - CenterMeridian(p.interval, band),
       band |-> band, project |-> p, ellipsoid |-> c.ellipsoid]

(* Wrong variant: y is measured in the zone of the point, whatever band    *)
(* the project has.                                                        *)
ProjectedOwnZone(c, p) ==
  LET own == BandOf(p.interval, c.lon)
      band == IF p.band = Virtual THEN own ELSE p.band
  IN  [kind |-> "projected", y |-> c.lon - CenterMeridian(p.interval, own),
       band |-> band, project |-> [p EXCEPT !.band = band],
       ellipsoid |-> c.ellipsoid]

(* eval(gc), with the constructor of the coordinate. *)
Projected(c, p) ==
  LET band == IF p.band = Virtual THEN BandOf(p.interval, c.lon) ELSE p.band
  IN  [kind |-> "projected", y |-> c.lon - CenterMeridian(p.interval, band),
       band |-> band, project |-> [p EXCEPT !.band = band],
       ellipsoid |-> c.ellipsoid]

(* reval(pc) *)
Unprojected(pc) ==
  Geodetic(CenterMeridian(pc.project.interval, pc.band) + pc.y, pc.ellipsoid)

-----------------------------------------------------------------------------
(* Channels.  An accepter is a project, an ellipsoid, geodetic_cast or     *)
(* geodetic_cast(ellipsoid).                                               *)

ToProject(p) == [to |-> "project", project |-> p]
ToEllipsoid(e) == [to |-> "ellipsoid", ellipsoid |-> e]
ToGeodetic == [to |-> "geodetic_cast"]
ToGeodeticOn(e) == [to |-> "geodetic_cast to", ellipsoid |-> e]

(* The kind of coordinate a link makes, and from which kinds the types     *)
(* have a channel.                                                         *)
KindAfter(a) == IF a.to = "project" THEN "projected" ELSE "geodetic"
HasChannel(kind, a) == kind = "projected" \/ a.to = "project"

(* acknowledge(sender, accepter); a weak channel has none, but             *)
(* geodetic_cast(e) goes through the channel to e.                         *)
Acknowledged(c, a) ==
  IF a.to = "project"
  THEN c.kind = "projected" => c.project.interval = a.project.interval
  ELSE a.to = "geodetic_cast" \/ c.ellipsoid = a.ellipsoid

Failed == [kind |-> "aborts"]

(* sender >> accepter *)
Sent(c, a) ==
  IF c = Failed \/ ~Acknowledged(c, a) THEN Failed
  ELSE LET gc == IF c.kind = "projected" THEN Unprojected(c) ELSE c
       IN  IF a.to = "project" THEN Projected(gc, a.project) ELSE gc

(* A chain c >> a1 >> a2 ... *)
SentAll(c, accepters) ==
  LET after[k \in 0..Len(accepters)] ==
        IF k = 0 THEN c ELSE Sent(after[k - 1], accepters[k])
  IN  after[Len(accepters)]

=============================================================================
