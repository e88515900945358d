------------------------------ MODULE Geometry ------------------------------
(***************************************************************************)
(* The geometry every diagram renderer shares (renderers/shared/           *)
(* geometry.mjs): hits of segments and boxes, the normal form of a route,  *)
(* the quality gates on routes and labels, and where automatic routes      *)
(* leave and enter a box.                                                  *)
(*                                                                         *)
(* Coordinates are integers, so the tolerances of 0.0001 of the code are   *)
(* equalities; lengths that need a root are compared by their squares, as  *)
(* fractions <<numerator, denominator>>.  A point is <<x, y>>, a box       *)
(* [x, y, w, h], a route a sequence of points, a relation a record with    *)
(* its route in "points".  The guards against malformed input and the      *)
(* texts of messages are left out: a problem is what it is about.          *)
(***************************************************************************)
EXTENDS Integers, Sequences, FiniteSets, SequencesExt, FiniteSetsExt

CONSTANT Nothing   \* no value

Abs(n)  == IF n < 0 THEN -n ELSE n
Sign(n) == IF n < 0 THEN -1 ELSE IF n > 0 THEN 1 ELSE 0

(***************************************************************************)
(* Boxes and segments.                                                     *)
(***************************************************************************)
RectsOverlap(a, b, gap) ==
  ~(\/ a.x + a.w + gap <= b.x \/ b.x + b.w + gap <= a.x
    \/ a.y + a.h + gap <= b.y \/ b.y + b.h + gap <= a.y)

CrossProduct(a, b, c) == (b[1] - a[1]) * (c[2] - a[2]) - (b[2] - a[2]) * (c[1] - a[1])
DotProduct(a, b, c, d) == (b[1] - a[1]) * (d[1] - c[1]) + (b[2] - a[2]) * (d[2] - c[2])

\* onSegment: b is inside the box that a and c span.
OnSegment(a, b, c) ==
  \A k \in 1 .. 2 : Min({a[k], c[k]}) <= b[k] /\ b[k] <= Max({a[k], c[k]})

\* segmentsIntersect, with orientation as the sign of the cross product.
SegmentsIntersect(a, b, c, d) ==
  \/ \E t \in {<<a, c, b>>, <<a, d, b>>, <<c, a, d>>, <<c, b, d>>} :
       CrossProduct(t[1], t[3], t[2]) = 0 /\ OnSegment(t[1], t[2], t[3])
  \/ /\ Sign(CrossProduct(a, b, c)) # Sign(CrossProduct(a, b, d))
     /\ Sign(CrossProduct(c, d, a)) # Sign(CrossProduct(c, d, b))

Inflated(r, gap) == [x |-> r.x - gap, y |-> r.y - gap, w |-> r.w + 2 * gap, h |-> r.h + 2 * gap]
PointInBox(p, r) == r.x <= p[1] /\ p[1] <= r.x + r.w /\ r.y <= p[2] /\ p[2] <= r.y + r.h

Corners(r) ==
  <<<<r.x, r.y>>, <<r.x + r.w, r.y>>, <<r.x + r.w, r.y + r.h>>, <<r.x, r.y + r.h>>>>

SegmentIntersectsRect(a, b, rect, gap) ==
  LET c == Corners(Inflated(rect, gap))
  IN \/ PointInBox(a, Inflated(rect, gap)) \/ PointInBox(b, Inflated(rect, gap))
     \/ \E k \in 1 .. 4 : SegmentsIntersect(a, b, c[k], c[(k % 4) + 1])

\* The four half planes of segmentRectIntersectionLength.
ClipBounds(a, b, r) ==
  LET dx == b[1] - a[1]  dy == b[2] - a[2]
  IN {<<-dx, a[1] - r.x>>, <<dx, r.x + r.w - a[1]>>, <<-dy, a[2] - r.y>>, <<dy, r.y + r.h - a[2]>>}

\* segmentRectIntersectionLength of a segment parallel to an axis.
IntersectionLength(a, b, r) ==
  LET bounds == ClipBounds(a, b, r)
      length == Abs(b[1] - a[1]) + Abs(b[2] - a[2])
      enter  == Max({0} \cup {-c[2] : c \in {d \in bounds : d[1] < 0}})
      leave  == Min({length} \cup {c[2] : c \in {d \in bounds : d[1] > 0}})
  IN IF \E c \in bounds : c[1] = 0 /\ c[2] < 0 THEN 0 ELSE Max({0, leave - enter})

(***************************************************************************)
(* Distances, squared.                                                     *)
(***************************************************************************)
Closer(p, q) == p[1] * q[2] < q[1] * p[2]
Nearest(distances) == CHOOSE d \in distances : \A e \in distances : ~Closer(e, d)

PointRectDistance(p, r) ==
  LET dx == Max({r.x - p[1], 0, p[1] - (r.x + r.w)})
      dy == Max({r.y - p[2], 0, p[2] - (r.y + r.h)})
  IN <<dx * dx + dy * dy, 1>>

PointSegmentDistance(p, a, b) ==
  LET squared == DotProduct(a, b, a, b)
      along   == DotProduct(a, p, a, b)
  IN IF squared = 0 \/ along <= 0 THEN <<DotProduct(a, p, a, p), 1>>
     ELSE IF along >= squared THEN <<DotProduct(b, p, b, p), 1>>
     ELSE IF a[1] = b[1] THEN <<(p[1] - a[1]) * (p[1] - a[1]), 1>>   \* the fraction in lowest terms
     ELSE IF a[2] = b[2] THEN <<(p[2] - a[2]) * (p[2] - a[2]), 1>>
     ELSE <<CrossProduct(a, b, p) * CrossProduct(a, b, p), squared>>

SegmentRectClearance(a, b, r) ==
  IF SegmentIntersectsRect(a, b, r, 0) THEN <<0, 1>>
  ELSE Nearest({PointRectDistance(a, r), PointRectDistance(b, r)}
                 \cup {PointSegmentDistance(Corners(r)[k], a, b) : k \in 1 .. 4})

(***************************************************************************)
(* Routes.                                                                 *)
(***************************************************************************)
CollinearForward(a, b, c) == CrossProduct(a, b, c) = 0 /\ DotProduct(a, b, b, c) >= 0

\* The part of the new route that stays when the next point is p.
DropStraight(route, p) ==
  LET stays == {n \in 0 .. Len(route) :
                  \/ n < 2
                  \/ ~CollinearForward(route[n - 1], route[n], p)}
      good  == {n \in stays : \A m \in n + 1 .. Len(route) : m \notin stays}
  IN SubSeq(route, 1, Min(good))

\* normalizeRoutePoints
NormalizeRoutePoints(points) ==
  LET deduped == FoldLeft(LAMBDA acc, p : IF acc # <<>> /\ Last(acc) = p THEN acc
                                          ELSE Append(acc, p), <<>>, points)
  IN FoldLeft(LAMBDA acc, p : Append(DropStraight(acc, p), p), <<>>, deduped)

SegmentsContinueForward(s, a, b) ==
  /\ s.end = a /\ s.start # s.end /\ a # b
  /\ CrossProduct(s.start, s.end, b) = 0 /\ DotProduct(s.start, s.end, a, b) > 0

\* forwardCollinearAnalysisSegments, or authoredAnalysisSegments.
AnalysisSegments(points, merge) ==
  FoldLeft(LAMBDA acc, k :
             LET a == points[k]  b == points[k + 1]
             IN IF merge /\ acc # <<>> /\ SegmentsContinueForward(Last(acc), a, b)
                THEN [acc EXCEPT ![Len(acc)].end = b]
                ELSE Append(acc, [start |-> a, end |-> b]),
           <<>>, [k \in 1 .. Len(points) - 1 |-> k])

\* properSegmentIntersection: whether there is one.
ProperIntersection(a, b, c, d) ==
  /\ Sign(CrossProduct(a, b, c)) * Sign(CrossProduct(a, b, d)) = -1
  /\ Sign(CrossProduct(c, d, a)) * Sign(CrossProduct(c, d, b)) = -1

\* collinearAxisOverlap: the interval of the axis both cover, or Nothing.
SharedInterval(a, b, c, d) ==
  LET low  == Max({Min({a, b}), Min({c, d})})
      high == Min({Max({a, b}), Max({c, d})})
  IN IF high <= low THEN Nothing ELSE <<low, high>>

CollinearAxisOverlap(a, b, c, d) ==
  IF a[2] = b[2] /\ c[2] = d[2] /\ a[2] = c[2] THEN SharedInterval(a[1], b[1], c[1], d[1])
  ELSE IF a[1] = b[1] /\ c[1] = d[1] /\ a[1] = c[1] THEN SharedInterval(a[2], b[2], c[2], d[2])
  ELSE Nothing

SegmentLength(points, k) ==
  Abs(points[k + 1][1] - points[k][1]) + Abs(points[k + 1][2] - points[k][2])

SegmentPosition(k, segments) ==
  IF k = 1 THEN "source-stub" ELSE IF k = segments THEN "target-stub" ELSE "interior"

(***************************************************************************)
(* Rhythm: the issues of a route and the metrics of its report.            *)
(***************************************************************************)
\* collectRouteRhythmIssues
IssuesOf(p, interior, micro) ==
  LET inside == {k \in 1 .. Len(p) - 1 : SegmentPosition(k, Len(p) - 1) = "interior"}
      tiny   == {k \in 1 .. Len(p) - 1 : SegmentLength(p, k) < micro}
  IN (tiny \X {"micro"})
     \cup ({k \in inside \ tiny : SegmentLength(p, k) < interior} \X {"short-interior"})

RouteRhythmIssues(points, interior, micro) == IssuesOf(NormalizeRoutePoints(points), interior, micro)

\* routeBudgetMetrics of one route.
MetricsOf(p, bends, interior, micro) ==
  LET count  == Len(p) - 1
      Short  == {k \in 1 .. count : SegmentLength(p, k) < interior}
      inside == {k \in 1 .. count : SegmentPosition(k, count) = "interior"}
      length == FoldSet(LAMBDA k, n : n + SegmentLength(p, k), 0, 1 .. count)
      direct == IF count < 1 THEN 0
                ELSE Abs(Last(p)[1] - p[1][1]) + Abs(Last(p)[2] - p[1][2])
  IN [bends |-> Max({0, Len(p) - 2}), overBends |-> Max({0, Len(p) - 2}) > bends,
      short |-> Cardinality(Short),
      shortEndpoint |-> Cardinality(Short \ inside),
      shortInterior |-> Cardinality(Short \cap inside),
      micro |-> Cardinality({k \in 1 .. count : SegmentLength(p, k) < micro}),
      length |-> length, direct |-> direct]

RouteBudgetMetrics(points, bends, interior, micro) ==
  MetricsOf(NormalizeRoutePoints(points), bends, interior, micro)

(***************************************************************************)
(* The direction in which a route leaves and enters a side.                *)
(***************************************************************************)
Outward(side) ==
  CASE side = "left" -> <<-1, 0>> [] side = "right" -> <<1, 0>>
    [] side = "top" -> <<0, -1>> [] side = "bottom" -> <<0, 1>>

\* From a the next point b lies straight ahead in the direction v.
Ahead(a, b, v) ==
  /\ (b[1] - a[1]) * v[2] = (b[2] - a[2]) * v[1]
  /\ (b[1] - a[1]) * v[1] + (b[2] - a[2]) * v[2] > 0

\* endpointSideIssue, for the source and for the target of a route.
SideIssue(p, endpoint, side) ==
  /\ Len(p) >= 2
  /\ ~Ahead(IF endpoint = "source" THEN p[1] ELSE Last(p),
            IF endpoint = "source" THEN p[2] ELSE p[Len(p) - 1], Outward(side))

EndpointSideIssue(points, endpoint, side) == SideIssue(NormalizeRoutePoints(points), endpoint, side)

RouteHonorsEndpointSides(points, fromSide, toSide) ==
  ~EndpointSideIssue(points, "source", fromSide) /\ ~EndpointSideIssue(points, "target", toSide)
==============================================================================
