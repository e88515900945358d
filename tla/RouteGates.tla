----------------------------- MODULE RouteGates -----------------------------
(***************************************************************************)
(* The gates that refuse a drawing for its routes and labels, and the two  *)
(* automatic choices about ports (renderers/shared/geometry.mjs).          *)
(*                                                                         *)
(* A relation is [key, from, to, fromSide, toSide, authored, pinned,       *)
(* points]: key is its identity, authored says it has a named route or a   *)
(* via, pinned that or a channel or a place for its label.  The values of  *)
(* environment and profile are Nothing, "standard", "showcase".            *)
(***************************************************************************)
EXTENDS Geometry

(***************************************************************************)
(* Gates.  Each returns a set of problems.                                 *)
(***************************************************************************)
\* qualityProfileForGate
QualityProfile(profile, authoritative, environment) ==
  IF authoritative \/ environment = Nothing THEN profile ELSE environment

Joins(r, ids) == r.from \in ids /\ r.to \in ids
Related(r, s) == {r.from, r.to} \cap {s.from, s.to} # {}

\* cleanEndpointSideProblems: sides that are written down, and inferred ones of
\* routes that are automatic.
CleanEndpointSideProblems(relations, ids, inferred) ==
  LET Side(i, e) ==
        LET r == relations[i]
            written == IF e = "source" THEN r.fromSide ELSE r.toSide
        IN IF written \notin {Nothing, "auto"} THEN written
           ELSE IF r.authored THEN Nothing ELSE inferred[i][e]
  IN {<<i, e>> \in (DOMAIN relations) \X {"source", "target"} :
        /\ Joins(relations[i], ids) /\ Len(relations[i].points) >= 2
        /\ Side(i, e) # Nothing
        /\ EndpointSideIssue(relations[i].points, e, Side(i, e))}

HitSegments(points, box, gap) ==
  {k \in 1 .. Len(points) - 1 : SegmentIntersectsRect(points[k], points[k + 1], box, gap)}

\* cleanFlowProblems: a relation runs into a box it does not join.
CleanFlowProblems(relations, obstacles, gap) ==
  {<<i, o>> \in (DOMAIN relations) \X obstacles :
     /\ Joins(relations[i], {c.id : c \in obstacles})
     /\ o.id \notin {relations[i].from, relations[i].to}
     /\ HitSegments(relations[i].points, o, gap) # {}}

Crosses(p, q, merge) ==
  LET left == AnalysisSegments(p, merge)  right == AnalysisSegments(q, merge)
  IN \E i \in DOMAIN left, j \in DOMAIN right :
       ProperIntersection(left[i].start, left[i].end, right[j].start, right[j].end)

\* cleanCrossingProblems
CleanCrossingProblems(relations, ids, merge, profile) ==
  {<<i, j>> \in (DOMAIN relations) \X (DOMAIN relations) :
     /\ profile = "showcase" /\ i < j
     /\ Joins(relations[i], ids) /\ Joins(relations[j], ids)
     /\ ~Related(relations[i], relations[j])
     /\ Crosses(relations[i].points, relations[j].points, merge)}

\* The longest corridor two routes share, in one pair of their segments.
Corridors(a, b) ==
  {CollinearAxisOverlap(a[i], a[i + 1], b[j], b[j + 1]) : i \in 1 .. Len(a) - 1, j \in 1 .. Len(b) - 1}
    \ {Nothing}

LongestCorridor(p, q) ==
  Max({0} \cup {c[2] - c[1] : c \in Corridors(NormalizeRoutePoints(p), NormalizeRoutePoints(q))})

\* collectAmbiguousCorridors, cleanAmbiguousCorridorProblems
CleanCorridorProblems(relations, ids, least, profile) ==
  {<<i, j>> \in (DOMAIN relations) \X (DOMAIN relations) :
     /\ profile = "showcase" /\ i < j
     /\ Joins(relations[i], ids) /\ Joins(relations[j], ids)
     /\ ~Related(relations[i], relations[j])
     /\ LongestCorridor(relations[i].points, relations[j].points) >= least}

\* frameBorderSegments: the straight parts of the sides of a frame.
FrameBorders(f) ==
  LET r == Max({0, Min({f.radius, f.w \div 2, f.h \div 2})})
      right == f.x + f.w  bottom == f.y + f.h
      sides == {<<"top", <<f.x + r, f.y>>, <<right - r, f.y>>>>,
                <<"right", <<right, f.y + r>>, <<right, bottom - r>>>>,
                <<"bottom", <<right - r, bottom>>, <<f.x + r, bottom>>>>,
                <<"left", <<f.x, bottom - r>>, <<f.x, f.y + r>>>>}
  IN {s \in sides : f.w > 0 /\ f.h > 0 /\ s[2] # s[3]}

\* Plausible mistake (used nowhere): overlaps are added up as they are.
MergeOverlapsSlip(overlaps) == overlaps

\* mergeBorderOverlaps: intervals in order, those that meet made one.
MergeOverlaps(overlaps) ==
  LET sorted == SetToSortSeq(overlaps, LAMBDA a, b : a[1] < b[1] \/ (a[1] = b[1] /\ a[2] < b[2]))
  IN ToSet(FoldLeft(LAMBDA acc, s :
                      IF acc # <<>> /\ s[1] <= Last(acc)[2]
                      THEN [acc EXCEPT ![Len(acc)] = <<@[1], Max({@[2], s[2]})>>]
                      ELSE Append(acc, s), <<>>, sorted))

\* How far a route follows one side of a frame.
FollowedLength(points, border) ==
  LET overlaps == {CollinearAxisOverlap(points[k], points[k + 1], border[2], border[3]) :
                     k \in 1 .. Len(points) - 1}
      merged == MergeOverlaps(overlaps \ {Nothing})
  IN FoldSet(LAMBDA s, n : n + s[2] - s[1], 0, merged)

\* collectBorderRuns, cleanBorderRunProblems
CleanBorderRunProblems(relations, ids, frames, profile) ==
  {<<i, f, b>> \in (DOMAIN relations) \X frames \X UNION {FrameBorders(g) : g \in frames} :
     /\ profile # Nothing /\ Joins(relations[i], ids) /\ b \in FrameBorders(f)
     /\ FollowedLength(relations[i].points, b) > 0}

\* cleanRouteRhythmProblems
CleanRhythmProblems(relations, ids, interior, micro, profile) ==
  UNION {{i} \X RouteRhythmIssues(relations[i].points, interior, micro) :
           i \in {j \in DOMAIN relations : profile = "showcase" /\ Joins(relations[j], ids)}}

\* The first of those with one identity: the code keeps the routes, and the
\* labels, it has not seen.
FirstOfIdentity(items, i) == \A j \in 1 .. i - 1 : items[j].key # items[i].key

RouteClearance(points, box) ==
  LET p == NormalizeRoutePoints(points)
  IN Nearest({SegmentRectClearance(p[k], p[k + 1], box) : k \in 1 .. Len(p) - 1})

\* collectLabelRouteClearance, cleanLabelRouteClearanceProblems: a label,
\* [key, box, index], is closer than the threshold to the route of another.
CleanLabelProblems(labels, relations, ids, threshold, profile) ==
  {<<l, i>> \in (DOMAIN labels) \X (DOMAIN relations) :
     /\ profile = "showcase" /\ Joins(relations[i], ids)
     /\ FirstOfIdentity(labels, l) /\ FirstOfIdentity(relations, i)
     /\ labels[l].index # i /\ labels[l].key # relations[i].key
     /\ Len(NormalizeRoutePoints(relations[i].points)) >= 2
     /\ Closer(RouteClearance(relations[i].points, labels[l].box), <<threshold * threshold, 1>>)}

(***************************************************************************)
(* Ports.  A box has its centre in cx, cy.                                 *)
(***************************************************************************)
Anchor(r, side) ==
  CASE side = "left" -> <<r.x, r.cy>> [] side = "right" -> <<r.x + r.w, r.cy>>
    [] side = "top" -> <<r.cx, r.y>> [] side = "bottom" -> <<r.cx, r.y + r.h>>

DefaultFromSide(from, to) ==
  IF to.cx < from.cx THEN "left" ELSE IF to.cx > from.cx THEN "right"
  ELSE IF to.cy > from.cy THEN "bottom" ELSE "top"

DefaultToSide(from, to) ==
  IF to.cx < from.cx THEN "right" ELSE IF to.cx > from.cx THEN "left"
  ELSE IF to.cy > from.cy THEN "top" ELSE "bottom"

ChosenSide(side, fallback) == IF side \in {Nothing, "auto"} THEN fallback ELSE side

\* The endpoints on one side of a box, as they are put into groups.
Endpoints(relations, boxes) ==
  LET Of(i) ==
        LET r == relations[i]  f == boxes[r.from]  t == boxes[r.to]
        IN {[rel |-> i, key |-> r.key, end |-> "from", box |-> r.from, other |-> t,
             side |-> ChosenSide(r.fromSide, DefaultFromSide(f, t))],
            [rel |-> i, key |-> r.key, end |-> "to", box |-> r.to, other |-> f,
             side |-> ChosenSide(r.toSide, DefaultToSide(f, t))]}
  IN UNION {Of(i) : i \in {j \in DOMAIN relations : ~relations[j].pinned}}

Upright(side) == side \in {"left", "right"}
Facing(e) == IF Upright(e.side) THEN e.other.cy ELSE e.other.cx

PortOrder(a, b) == Facing(a) < Facing(b) \/ (Facing(a) = Facing(b) /\ a.key < b.key)

\* automaticPortSpread: for each endpoint of a shared side its offset from the
\* middle of the side, times twice the number of gaps between the endpoints.
AutomaticPortSpread(relations, boxes, gutter, maxSpacing) ==
  LET all == Endpoints(relations, boxes)
      Group(e) == {f \in all : f.box = e.box /\ f.side = e.side}
      Usable(e) == Max({0, (IF Upright(e.side) THEN boxes[e.box].h ELSE boxes[e.box].w) - 2 * gutter})
      Rank(e) == Cardinality({f \in Group(e) : PortOrder(f, e)})
      Offset(e) == LET gaps == Cardinality(Group(e)) - 1
                   IN (2 * Rank(e) - gaps) * Min({maxSpacing * gaps, Usable(e)})
      moved == {e \in all : Cardinality(Group(e)) >= 2 /\ Usable(e) > 0}
  IN [e \in moved |-> [offset |-> Offset(e), scale |-> 2 * (Cardinality(Group(e)) - 1),
                       usable |-> Usable(e)]]

\* The channels automaticPortRhythmBridge may take, in its order.
BridgeCandidates(start, end, fromSide, toSide, stub, interior) ==
  LET a == [k \in 1 .. 2 |-> start[k] + Outward(fromSide)[k] * stub]
      b == [k \in 1 .. 2 |-> end[k] + Outward(toSide)[k] * stub]
      Channels(k) == <<Max({start[k], end[k]}) + interior, Min({start[k], end[k]}) - interior>>
      near(k) == Abs(start[k] - end[k]) < interior
  IN IF ~Upright(fromSide) /\ ~Upright(toSide) /\ near(1)
     THEN [n \in 1 .. 2 |-> <<start, a, <<Channels(1)[n], a[2]>>, <<Channels(1)[n], b[2]>>, b, end>>]
     ELSE IF Upright(fromSide) /\ Upright(toSide) /\ near(2)
     THEN [n \in 1 .. 2 |-> <<start, a, <<a[1], Channels(2)[n]>>, <<b[1], Channels(2)[n]>>, b, end>>]
     ELSE <<>>

\* automaticPortRhythmBridge: the empty route when there is none.
AutomaticPortRhythmBridge(start, end, fromSide, toSide, stub, interior, micro) ==
  LET Good(route) == LET p == NormalizeRoutePoints(route)
                     IN /\ RouteHonorsEndpointSides(p, fromSide, toSide)
                        /\ RouteRhythmIssues(p, interior, micro) = {}
      good == SelectSeq(BridgeCandidates(start, end, fromSide, toSide, stub, interior), Good)
  IN NormalizeRoutePoints(Head(good \o <<<<>>>>))

(***************************************************************************)
(* Laws: each against a definition made without the algorithm.  A lattice  *)
(* point of a segment is one with integer coordinates; routes are          *)
(* orthogonal where it says so.                                            *)
(***************************************************************************)
\* Some part of the segment is in the box, as a system of inequalities in the
\* position along the segment.
Meets(a, b, r) ==
  LET bounds == ClipBounds(a, b, r)
      low  == {<<0, 1>>} \cup {<<-c[2], -c[1]>> : c \in {d \in bounds : d[1] < 0}}
      high == {<<1, 1>>} \cup {<<c[2], c[1]>> : c \in {d \in bounds : d[1] > 0}}
  IN /\ \A c \in bounds : c[1] = 0 => c[2] >= 0
     /\ \A l \in low, h \in high : ~Closer(h, l)

Axial(a, b) == a[1] = b[1] \/ a[2] = b[2]

\* The distance of two boxes, the segment being one of no width.
BoxDistance(a, b, r) ==
  LET dx == Max({r.x - Max({a[1], b[1]}), 0, Min({a[1], b[1]}) - r.x - r.w})
      dy == Max({r.y - Max({a[2], b[2]}), 0, Min({a[2], b[2]}) - r.y - r.h})
  IN dx * dx + dy * dy

\* A segment hits a box, whichever end it is drawn from, exactly when they have a
\* point in common; the clearance is the distance, and no length is inside without
\* a hit.  Every gate and every router asks this question.
HitsAgree(a, b, r) ==
  /\ SegmentIntersectsRect(a, b, r, 0) <=> Meets(a, b, r)
  /\ SegmentIntersectsRect(b, a, r, 0) <=> SegmentIntersectsRect(a, b, r, 0)
  /\ (SegmentRectClearance(a, b, r)[1] = 0) <=> Meets(a, b, r)
  /\ Axial(a, b) =>
       /\ LET d == SegmentRectClearance(a, b, r) IN d[1] = BoxDistance(a, b, r) * d[2]
       /\ IntersectionLength(a, b, r) > 0 => Meets(a, b, r)
       /\ IntersectionLength(a, b, r) = IntersectionLength(b, a, r)

Lattice(a, b) ==
  {<<x, y>> \in (Min({a[1], b[1]}) .. Max({a[1], b[1]})) \X (Min({a[2], b[2]}) .. Max({a[2], b[2]})) :
     CrossProduct(a, b, <<x, y>>) = 0}
Trace(p) == UNION {Lattice(p[k], p[k + 1]) : k \in 1 .. Len(p) - 1}

\* The normal form draws what the route drew, from the same start to the same end,
\* is its own normal form, does not depend on the direction, and has the corners
\* the crossing gate sees: two parts of the code remove waypoints, each its way.
NormalFormAgrees(p) ==
  LET n == NormalizeRoutePoints(p)
      s == AnalysisSegments(p, TRUE)
  IN /\ NormalizeRoutePoints(n) = n
     /\ n[1] = p[1] /\ Last(n) = Last(p)
     /\ Len(n) >= 2 => Trace(n) = Trace(p)
     /\ NormalizeRoutePoints(Reverse(p)) = Reverse(n)
     /\ (\A k \in 1 .. Len(p) - 1 : p[k] # p[k + 1]) =>
          n = <<p[1]>> \o [k \in DOMAIN s |-> s[k].end]

\* Every lattice point on the way of an orthogonal route becomes a waypoint.
Refined(p) ==
  LET Toward(a, b) == [k \in 1 .. Abs(b[1] - a[1]) + Abs(b[2] - a[2]) |->
                         <<a[1] + Sign(b[1] - a[1]) * k, a[2] + Sign(b[2] - a[2]) * k>>]
  IN <<p[1]>> \o FlattenSeq([k \in 1 .. Len(p) - 1 |-> Toward(p[k], p[k + 1])])

\* Whether two routes cross, and how long they share a corridor, is the same
\* whichever comes first and whatever waypoints were written on straight runs.
CrossingAgrees(p, q) ==
  /\ Crosses(p, q, TRUE) <=> Crosses(q, p, TRUE)
  /\ Crosses(p, q, TRUE) <=> Crosses(Refined(p), Refined(q), TRUE)
  /\ Crosses(p, q, FALSE) => Crosses(p, q, TRUE)
  /\ LongestCorridor(p, q) = LongestCorridor(q, p)
  /\ LongestCorridor(p, q) = LongestCorridor(Refined(p), Reverse(Refined(q)))

\* What a route follows of a border is the unit pieces of it the route covers:
\* a piece covered twice counts once, a gap does not count.
BorderAgrees(p, frame) ==
  \A b \in FrameBorders(frame) :
    LET Pieces(a, c) == {{u, v} : <<u, v>> \in {<<x, y>> \in Lattice(a, c) \X Lattice(a, c) :
                                                  Abs(x[1] - y[1]) + Abs(x[2] - y[2]) = 1}}
        covered == UNION {Pieces(p[k], p[k + 1]) : k \in 1 .. Len(p) - 1}
    IN FollowedLength(p, b) = Cardinality(Pieces(b[2], b[3]) \cap covered)

\* The gate and the report count the same cramped segments.
RhythmAgrees(p, interior, micro) ==
  LET issues  == RouteRhythmIssues(p, interior, micro)
      metrics == RouteBudgetMetrics(p, 2, interior, micro)
      n       == NormalizeRoutePoints(p)
      Inside(i) == SegmentPosition(i[1], Len(n) - 1) = "interior"
  IN /\ metrics.micro = Cardinality({i \in issues : i[2] = "micro"})
     /\ metrics.shortInterior = Cardinality({i \in issues : Inside(i)})
     /\ \A i \in issues : i[2] = "micro" \/ Inside(i)
     /\ metrics.short = metrics.shortInterior + metrics.shortEndpoint
     /\ metrics.direct <= metrics.length
     /\ RouteRhythmIssues(Reverse(p), interior, micro)
          = {<<Len(n) - i[1], i[2]>> : i \in issues}

\* Endpoints that share a side get ports of their own, inside the usable part,
\* in the order of what they face, and the same ones in whatever order the
\* relations are listed.
PortsAgree(relations, boxes, gutter, maxSpacing) ==
  LET ports == AutomaticPortSpread(relations, boxes, gutter, maxSpacing)
      back  == AutomaticPortSpread(Reverse(relations), boxes, gutter, maxSpacing)
      Same(a, b) == a.box = b.box /\ a.side = b.side
      n == Len(relations)
  IN /\ \A a, b \in DOMAIN ports : a # b /\ Same(a, b) =>
          /\ ports[a].offset # ports[b].offset
          /\ Facing(a) < Facing(b) => ports[a].offset < ports[b].offset
     /\ \A a \in DOMAIN ports : 2 * Abs(ports[a].offset) <= ports[a].usable * ports[a].scale
     /\ \A a \in DOMAIN ports : FoldSet(LAMBDA b, sum : sum + ports[b].offset, 0,
                                        {b \in DOMAIN ports : Same(a, b)}) = 0
     /\ DOMAIN back = {[a EXCEPT !.rel = n + 1 - @] : a \in DOMAIN ports}
     /\ \A a \in DOMAIN ports : back[[a EXCEPT !.rel = n + 1 - @]] = ports[a]

\* A bridge is found in both directions or in neither, and it is the same one.
BridgeAgrees(start, end, fromSide, toSide, stub, interior, micro) ==
  \E there \in {AutomaticPortRhythmBridge(start, end, fromSide, toSide, stub, interior, micro)} :
    /\ AutomaticPortRhythmBridge(end, start, toSide, fromSide, stub, interior, micro) = Reverse(there)
    /\ there # <<>> =>
         /\ there[1] = start /\ Last(there) = end
         /\ RouteBudgetMetrics(there, 2, interior, micro).shortInterior = 0

\* A drawing refused under the standard profile is refused under showcase, whatever
\* the environment says against a profile that is authoritative.  A box
\* far from a route is never the reason, a label is one exactly when it is close,
\* and a side exactly when the first or last step is not straight out of it.
GatesAgree(relations, ids, box, label, frame, gap) ==
  LET labels == <<[key |-> relations[1].key, index |-> 1, box |-> label]>>
      Far(p, b, d) == \A k \in 1 .. Len(p) - 1 : BoxDistance(p[k], p[k + 1], b) >= d * d
      inferred == [source |-> "right", target |-> "left"]
      Side(r, e) == ChosenSide(IF e = "source" THEN r.fromSide ELSE r.toSide,
                               IF r.authored THEN Nothing ELSE inferred[e])
      FirstStep(p) == <<Refined(p)[2][1] - p[1][1], Refined(p)[2][2] - p[1][2]>>
      \* the profile is authoritative, the environment says the opposite
      Problems(wanted) == LET profile == QualityProfile(wanted, TRUE,
                                IF wanted = "standard" THEN "showcase" ELSE "standard") IN
        <<CleanFlowProblems(relations, {box} \cup {[box EXCEPT !.id = i, !.x = 1000] : i \in ids}, gap),
          CleanBorderRunProblems(relations, ids, {frame}, profile),
          CleanCrossingProblems(relations, ids, TRUE, profile),
          CleanCorridorProblems(relations, ids, 1, profile),
          CleanRhythmProblems(relations, ids, 2 * gap, gap, profile),
          CleanLabelProblems(labels, relations, ids, gap, profile),
          CleanEndpointSideProblems(relations, ids, [i \in DOMAIN relations |-> inferred])>>
      loose == Problems("standard")  strict == Problems("showcase")
  IN /\ \A k \in DOMAIN loose : loose[k] \subseteq strict[k]
     /\ \A h \in strict[1] : ~Far(relations[h[1]].points, box, 2 * gap)
     /\ \A i \in 2 .. Len(relations) :
          (<<1, i>> \in strict[6]) <=> (Joins(relations[i], ids)
                                          /\ ~Far(relations[i].points, label, gap))
     /\ \A i \in DOMAIN relations, e \in {"source", "target"} :
          (<<i, e>> \in strict[7]) <=>
             /\ Joins(relations[i], ids) /\ Side(relations[i], e) # Nothing
             /\ FirstStep(IF e = "source" THEN relations[i].points
                          ELSE Reverse(relations[i].points)) # Outward(Side(relations[i], e))
==============================================================================
