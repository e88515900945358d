--------------------------- MODULE WorkflowRoutes ---------------------------
(***************************************************************************)
(* How the workflow compiler routes the edges of a readable diagram, one   *)
(* after the other, each around those placed before it (renderers/         *)
(* workflow/workflow-compiler.mjs).                                        *)
(*                                                                         *)
(* A scene is [d, l, at, frames, texts, legend, canvas]: workflow, layout, *)
(* measured nodes, frames, texts, boxes of the legend and the size of the  *)
(* canvas before routing. placed is the sequence of edges routed so far,   *)
(* [points, label, fromSide, toSide]. Pixels are whole: where the code     *)
(* halves an odd number or searches to a thousandth, the model takes the   *)
(* whole pixel below, or searches to one. The places an author may pin for *)
(* a label, and the bias of a lane gap, keep their defaults.               *)
(***************************************************************************)
EXTENDS WorkflowChecks

SideOrder == <<"right", "bottom", "left", "top">>
NoRequest == [gaps |-> <<>>, lane |-> 0]

\* Plausible mistake (used nowhere): phases stay in the order of the author.
CanonicalWorkflowSlip(d) ==
  LET By(items, Key(_)) == SortSeq(items, LAMBDA x, y : Key(x) < Key(y))
  IN [d EXCEPT !.nodes = By(@, LAMBDA n : n.id), !.edges = By(@, LAMBDA e : e.id),
               !.groups = By(@, LAMBDA g : g.id)]

\* canonicalReadableWorkflow: what the author's order of lists must not change.  The
\* last ties of edges, those of one id, ends and label, are not broken.
CanonicalWorkflow(d) ==
  LET Lex(a, b) == \E k \in DOMAIN a : a[k] < b[k] /\ \A j \in 1 .. k - 1 : a[j] = b[j]
      lane(id) == LET at == {i \in DOMAIN d.lanes : d.lanes[i].id = id}
                  IN IF at = {} THEN Len(d.lanes) + 1 ELSE Max(at)
      By(items, Key(_)) == SortSeq(items, LAMBDA x, y : Lex(Key(x), Key(y)))
  IN [d EXCEPT !.nodes = By(@, LAMBDA n : <<lane(n.lane), n.col, n.id>>),
               !.edges = By(@, LAMBDA e : <<e.id, e.from, e.to, e.label>>),
               !.phases = By(@, LAMBDA p : <<p.from, p.to, p.id>>),
               !.groups = By(@, LAMBDA g : <<lane(g.lane), g.from, g.to, g.id>>)]

Scene(d, l) ==
  [d |-> d, l |-> l, at |-> Measured(d, l), frames |-> CompositionFrames(d, l),
   texts |-> SceneLabelObstacles(d, l), legend |-> LegendBoxes(d, l),
   canvas |-> <<CanvasWidth(d, l), LegendY(d, l) + 80>>]

Boxes(s) == {s.at[id] : id \in DOMAIN s.at}

(***************************************************************************)
(* Labels.                                                                 *)
(***************************************************************************)
Segments(points) == 1 .. Len(points) - 1
Level(points, k) == points[k][2] = points[k + 1][2]

\* workflowEdgeLabelPoint: on the longest level segment, else the longest.
LabelPoint(points) ==
  LET Better(j, k) ==
        \/ Level(points, j) /\ ~Level(points, k)
        \/ /\ Level(points, j) = Level(points, k)
           /\ \/ SegmentLength(points, j) > SegmentLength(points, k)
              \/ SegmentLength(points, j) = SegmentLength(points, k) /\ j < k
      k == CHOOSE j \in Segments(points) : \A i \in Segments(points) \ {j} : Better(j, i)
      x == (points[k][1] + points[k + 1][1]) \div 2
  IN IF Len(points) = 2 THEN <<x, points[1][2] - 10>>
     ELSE <<x, ((points[k][2] + points[k + 1][2]) \div 2)
                 - (IF points[k][1] = points[k + 1][1] THEN 0 ELSE 10)>>

BoxAround(p, width) == [x |-> p[1] - width \div 2, y |-> p[2] - 10, w |-> width, h |-> 14]

LabelBox(e, points) ==
  IF e.label = 0 THEN Nothing ELSE BoxAround(LabelPoint(points), LabelWidth(e.label))

\* The segments of a route that are closer to a box than so many pixels.
CloserThan(points, box, n) ==
  {k \in Segments(points) :
     Closer(SegmentRectClearance(points[k], points[k + 1], box), <<n * n, 1>>)}

(***************************************************************************)
(* Whether a route may be taken.                                           *)
(***************************************************************************)
OrthogonalRoute(points) ==
  \A k \in Segments(points) :
    (points[k][1] = points[k + 1][1]) # (points[k][2] = points[k + 1][2])

LeastLength(points, k) == IF Len(points) = 2 THEN 28 ELSE IF k \in {1, Len(points) - 1} THEN 8 ELSE 16
MeetsHardRhythm(points) == \A k \in Segments(points) : SegmentLength(points, k) >= LeastLength(points, k)

Hit(points, k, box, gap) == SegmentIntersectsRect(points[k], points[k + 1], box, gap)

ClearsEndpointNodes(points, from, to) ==
  \A k \in Segments(points) : /\ k > 1 => ~Hit(points, k, from, 0)
                              /\ k < Len(points) - 1 => ~Hit(points, k, to, 0)

ClearsUnrelatedNodes(s, e, points) ==
  \A b \in Boxes(s) : b.id \in {e.from, e.to} \/ HitSegments(points, b, 2) = {}

Clears(points, boxes) == \A b \in boxes : HitSegments(points, b, 0) = {}

LabelClears(label, boxes, gap) == label = Nothing \/ \A b \in boxes : ~RectsOverlap(label, b, gap)

ClearsPlacedLabels(placed, points, label) ==
  \A i \in DOMAIN placed :
    /\ label # Nothing => CloserThan(placed[i].points, label, 4) = {}
    /\ placed[i].label # Nothing => /\ LabelClears(label, {placed[i].label}, -2)
                                    /\ CloserThan(points, placed[i].label, 4) = {}

FollowsBorder(points, frames) ==
  \E f \in frames : \E b \in FrameBorders(f) : FollowedLength(points, b) > 0

FitsCanvasOrigin(points, label) ==
  /\ \A k \in DOMAIN points : points[k][1] >= 0 /\ points[k][2] >= 0
  /\ label = Nothing \/ (label.x >= 0 /\ label.y >= 0)

\* What readableCandidateIsFeasible asks of the route, and then for its label.
RouteMayStand(s, e, points, fromSide, toSide) ==
  /\ Len(points) >= 2 /\ OrthogonalRoute(points)
  /\ RouteHonorsEndpointSides(points, fromSide, toSide) /\ MeetsHardRhythm(points)
  /\ ClearsEndpointNodes(points, s.at[e.from], s.at[e.to]) /\ ClearsUnrelatedNodes(s, e, points)
  /\ Clears(points, s.legend \cup s.texts) /\ ~FollowsBorder(points, s.frames)

LabelMayStand(s, placed, points, label) ==
  /\ LabelClears(label, Boxes(s), -2) /\ LabelClears(label, s.legend \cup s.texts, 0)
  /\ ClearsPlacedLabels(placed, points, label)
  /\ FitsCanvasOrigin(points, label)

\* Plausible mistake (used nowhere): a new route looks at labels only with its own label.
FeasibleSlip(s, placed, e, points, fromSide, toSide) ==
  /\ RouteMayStand(s, e, points, fromSide, toSide)
  /\ IF e.label > 0 THEN LabelMayStand(s, placed, points, LabelBox(e, points))
     ELSE FitsCanvasOrigin(points, Nothing)

\* readableCandidateIsFeasible
Feasible(s, placed, e, points, fromSide, toSide) ==
  RouteMayStand(s, e, points, fromSide, toSide) /\ LabelMayStand(s, placed, points, LabelBox(e, points))

(***************************************************************************)
(* What a route costs, the dearest dimension first.                        *)
(***************************************************************************)
AxisOverlapLength(a, b, c, d) ==
  LET axis == IF a[2] = b[2] /\ c[2] = d[2] /\ a[2] = c[2] THEN 1 ELSE 2
  IN IF axis = 2 /\ ~(a[1] = b[1] /\ c[1] = d[1] /\ a[1] = c[1]) THEN 0
     ELSE Max({0, Min({Max({a[axis], b[axis]}), Max({c[axis], d[axis]})})
                    - Max({Min({a[axis], b[axis]}), Min({c[axis], d[axis]})})})

ProperAxisCrossing(a, b, c, d) ==
  LET level == IF a[2] = b[2] THEN <<a, b>> ELSE <<c, d>>
      plumb == IF a[2] = b[2] THEN <<c, d>> ELSE <<a, b>>
      Within(n, m, k) == Min({m, k}) < n /\ n < Max({m, k})
  IN /\ (a[2] = b[2]) # (c[2] = d[2])
     /\ Within(plumb[1][1], level[1][1], level[2][1])
     /\ Within(level[1][2], plumb[1][2], plumb[2][2])

Sum(f(_), set) == FoldSet(LAMBDA x, n : n + f(x), 0, set)

\* The pairs of a segment of one route and a segment of another that shares no node.
Encounters(s, placed, e, points) ==
  UNION {{<<k, i, j>> : k \in Segments(points), j \in Segments(placed[i].points)} :
           i \in {m \in DOMAIN placed :
                    {e.from, e.to} \cap {s.d.edges[m].from, s.d.edges[m].to} = {}}}

\* 8 less the clearance, in hundredths of a pixel, or nothing.
Deficit(squared) ==
  IF squared >= 64 THEN 0 ELSE 800 - Max({n \in 0 .. 800 : n * n <= 10000 * squared})
WholePart(fraction) == fraction[1] \div fraction[2]
ClearanceDeficit(a, b, box) == Deficit(WholePart(SegmentRectClearance(a, b, box)))

LabelRouteClearanceDeficit(placed, points, label) ==
  LET Of(route, box) == IF box = Nothing THEN 0
                        ELSE Sum(LAMBDA k : ClearanceDeficit(route[k], route[k + 1], box), Segments(route))
  IN Sum(LAMBDA i : Of(placed[i].points, label) + Of(points, placed[i].label), DOMAIN placed)

ForwardReverse(s, e, points) ==
  IF e.role \in {"return", "error"} \/ s.at[e.to].col <= s.at[e.from].col THEN 0
  ELSE Sum(LAMBDA k : Max({0, points[k][1] - points[k + 1][1]}), Segments(points))

Distance(p, q) == Abs(p[1] - q[1]) + Abs(p[2] - q[2])

\* readableCandidateCost; the distance from the columns of the old contract,
\* the same for all routes of an edge, is left out.
Cost(s, placed, e, points, ordinal, fromSide, toSide) ==
  LET met    == Encounters(s, placed, e, points)
      Cross(m) == ProperAxisCrossing(points[m[1]], points[m[1] + 1],
                                     placed[m[2]].points[m[3]], placed[m[2]].points[m[3] + 1])
      Shared(m) == AxisOverlapLength(points[m[1]], points[m[1] + 1],
                                     placed[m[2]].points[m[3]], placed[m[2]].points[m[3] + 1])
      length == Sum(LAMBDA k : SegmentLength(points, k), Segments(points))
      direct == Distance(points[1], Last(points))
      xs == {points[k][1] : k \in DOMAIN points}
      ys == {points[k][2] : k \in DOMAIN points}
  IN <<ForwardReverse(s, e, points),
       Cardinality({m \in met : Cross(m)}),
       Sum(Shared, met),
       LabelRouteClearanceDeficit(placed, points, LabelBox(e, points)),
       Sum(LAMBDA k : Max({0, 28 - SegmentLength(points, k)}), 2 .. Len(points) - 2),
       Len(points) - 2,
       IF direct = 0 THEN 1000 ELSE (2000 * length + direct) \div (2 * direct),
       Max({0, -Min(xs)}) + Max({0, Max(xs) - s.canvas[1]})
         + Max({0, -Min(ys)}) + Max({0, Max(ys) - s.canvas[2]}),
       Distance(points[1], Anchor(s.at[e.from], fromSide))
         + Distance(Last(points), Anchor(s.at[e.to], toSide)),
       ordinal>>

Cheaper(a, b) == \E k \in DOMAIN a : a[k] < b[k] /\ \A j \in 1 .. k - 1 : a[j] = b[j]
Cheapest(plans) == CHOOSE p \in plans : \A q \in plans : ~Cheaper(q.cost, p.cost)

(***************************************************************************)
(* The automatic candidates between two ports.                             *)
(***************************************************************************)
OutwardStub(p, side) == <<p[1] + 16 * Outward(side)[1], p[2] + 16 * Outward(side)[2]>>

CorridorY(start, end, fromSide, toSide, y) ==
  LET a == OutwardStub(start, fromSide)  b == OutwardStub(end, toSide)
  IN <<start, a, <<a[1], y>>, <<b[1], y>>, b, end>>

CorridorX(start, end, fromSide, toSide, x) ==
  LET a == OutwardStub(start, fromSide)  b == OutwardStub(end, toSide)
  IN <<start, a, <<x, a[2]>>, <<x, b[2]>>, b, end>>

Bottom(s, id) == LaneTop(s.d, s.l, id) + LaneHeight(s.d, s.l, id)
GapYBetween(s, a, b) == (Bottom(s, a) + LaneTop(s.d, s.l, b)) \div 2
OutsideRight(s) == 40 + s.l.laneW + 12

\* The nine families, in the order of the code.
RawCandidates(s, e, start, end, fromSide, toSide) ==
  LET f == s.at[e.from].lane  t == s.at[e.to].lane
      X(x) == CorridorX(start, end, fromSide, toSide, x)
      Y(y) == CorridorY(start, end, fromSide, toSide, y)
  IN <<<<start, end>>,
       <<start, <<end[1], start[2]>>, end>>,
       <<start, <<start[1], end[2]>>, end>>,
       Y(IF f = t THEN LaneTop(s.d, s.l, f) - 16 ELSE GapYBetween(s, f, t)),
       X((start[1] + end[1]) \div 2),
       X(20),
       X(OutsideRight(s)),
       Y(Max({8, Min({LaneTop(s.d, s.l, f), LaneTop(s.d, s.l, t)}) - 16})),
       Y(Max({Bottom(s, f), Bottom(s, t)}) + 16)>>

\* readableAutomaticCandidateSet: natural is the pair of sides the cost counts from.
CandidateSet(s, placed, e, start, end, sides, offset, natural) ==
  LET raw == RawCandidates(s, e, start, end, sides[1], sides[2])
      routes == {<<k, NormalizeRoutePoints(raw[k])>> : k \in DOMAIN raw}
  IN {[points |-> r[2], sides |-> sides,
       cost |-> Cost(s, placed, e, r[2], offset + r[1] - 1, natural[1], natural[2])] :
        r \in {q \in routes : Feasible(s, placed, e, q[2], sides[1], sides[2])}}

CorridorAt(start, end, sides, x) == NormalizeRoutePoints(CorridorX(start, end, sides[1], sides[2], x))

\* The corridor at the first of the probes that will do, moved in as far as halving
\* the way to the one before finds it feasible; none when no probe will do.
Innermost(s, placed, e, start, end, sides, right, probes) ==
  LET Fitting(xs) == {x \in xs : Feasible(s, placed, e, CorridorAt(start, end, sides, x), sides[1], sides[2])}
      inner[low \in Int, high \in Int] ==
        LET mid == (low + high + 1) \div 2
        IN IF high - low <= 1 THEN high
           ELSE IF Fitting({mid}) # {} THEN inner[low, mid] ELSE inner[mid, high]
      From(x) == inner[Max({right} \cup {p \in probes : p < x}), x]
      first == {x \in probes : Fitting({p \in probes : p <= x}) = {x}}
  IN {CorridorAt(start, end, sides, From(x)) : x \in first}

\* Where the corridor to the right of all lanes is tried when no candidate is feasible:
\* outside what is in the way of its label, and further outwards six times.
Probes(s, placed, label, right) ==
  LET texts == {placed[i].label : i \in {j \in DOMAIN placed : placed[j].label # Nothing}}
      struck == {b.x + b.w - 2 - label.x : b \in {c \in Boxes(s) \cup texts : RectsOverlap(label, c, -2)}}
      near(r) == {Max({r.points[k][1], r.points[k + 1][1]}) + 4 - label.x :
                    k \in CloserThan(r.points, label, 4)}
      deficits == IF label = Nothing THEN {}
                  ELSE struck \cup UNION {near(placed[i]) : i \in DOMAIN placed}
      first == Max({right} \cup {right + 2 * n : n \in {m \in deficits : m > 0}})
      rightmost == Max({right} \cup {b.x + b.w : b \in Boxes(s) \cup texts}
                         \cup UNION {{p[1] : p \in ToSet(placed[i].points)} : i \in DOMAIN placed})
      growth == Max({32, rightmost + 16 - first, IF label = Nothing THEN 0 ELSE label.w})
  IN {x \in {first + growth * (2 ^ k - 1) : k \in 0 .. 6} : x > right}

ExpandedRight(s, placed, e, start, end, sides) ==
  LET right == OutsideRight(s)
  IN Innermost(s, placed, e, start, end, sides, right,
               Probes(s, placed, LabelBox(e, CorridorAt(start, end, sides, right)), right))

\* The end of readableAutomaticVia: what a better layout would have to give.
Request(s, e, start, end, sides) ==
  LET f == s.at[e.from]  t == s.at[e.to]
      needed == (f.w + t.w) \div 2 + 32
      facing == \/ sides = <<"right", "left">> /\ end[1] > start[1]
                \/ sides = <<"left", "right">> /\ end[1] < start[1]
      low == Min({f.col, t.col})  high == Max({f.col, t.col})
  IN IF facing /\ f.col # t.col /\ s.l.xs[high] - s.l.xs[low] < needed
     THEN [kind |-> "rank", key |-> <<low, high>>, least |-> needed]
     ELSE IF f.lane # t.lane /\ s.l.gap < 32 THEN [kind |-> "lane", key |-> <<>>, least |-> 32]
     ELSE Nothing

(***************************************************************************)
(* Sides.                                                                  *)
(***************************************************************************)
Authored(side) == side \notin {Nothing, "auto"}
Pinned(e)    == e.via # Nothing \/ e.channelX # Nothing \/ e.channelY # Nothing
Automatic(e) == ~Pinned(e) /\ e.route = "auto"

NaturalSides(s, e) ==
  <<ChosenSide(e.fromSide, DefaultFromSide(s.at[e.from], s.at[e.to])),
    ChosenSide(e.toSide, DefaultToSide(s.at[e.from], s.at[e.to]))>>

\* The preferred pairs, then all that the author allows, each once.
SidePairs(e, preferred) ==
  LET all == [k \in 1 .. 16 |-> <<SideOrder[((k - 1) \div 4) + 1], SideOrder[((k - 1) % 4) + 1]>>]
      allowed(p) == (~Authored(e.fromSide) \/ p[1] = e.fromSide) /\ (~Authored(e.toSide) \/ p[2] = e.toSide)
  IN SelectSeq(FoldLeft(LAMBDA acc, p : IF p \in ToSet(acc) THEN acc ELSE Append(acc, p),
                        <<>>, preferred \o all), allowed)

\* oneBendCrossLaneVia: whether the route of one bend is readable.
OneBendCrossLane(s, e, sides) ==
  LET a == Anchor(s.at[e.from], sides[1])  b == Anchor(s.at[e.to], sides[2])
      p == NormalizeRoutePoints(<<a, IF Upright(sides[1]) THEN <<b[1], a[2]>> ELSE <<a[1], b[2]>>, b>>)
  IN /\ Upright(sides[1]) # Upright(sides[2])
     /\ Len(p) = 3 /\ RouteHonorsEndpointSides(p, sides[1], sides[2])
     /\ \A k \in Segments(p) : SegmentLength(p, k) >= 8
     /\ ClearsUnrelatedNodes(s, e, p)

\* legacyAutomaticOneBendSides
OneBendSides(s, e) ==
  LET f == s.at[e.from]  t == s.at[e.to]
      up == t.cy < f.cy  left == t.cx < f.cx
      options == <<<<IF up THEN "top" ELSE "bottom", IF left THEN "right" ELSE "left">>,
                   <<IF left THEN "left" ELSE "right", IF up THEN "bottom" ELSE "top">>>>
  IN IF /\ Automatic(e) /\ ~Authored(e.fromSide) /\ ~Authored(e.toSide)
        /\ f.lane # t.lane /\ f.cx # t.cx /\ f.cy # t.cy
     THEN SelectSeq(options, LAMBDA p : OneBendCrossLane(s, e, p)) ELSE <<>>

PlansFor(s, placed, e, pairs, k, start, end) ==
  CandidateSet(s, placed, e, start, end, pairs[k], 9 * (k - 1), NaturalSides(s, e))

\* readableAutomaticSides: the first pair if it has a route, else that of the cheapest
\* route of all pairs.
SolvedSides(s, e, pairs, fallback) ==
  LET Plans(ks) == UNION {PlansFor(s, <<>>, e, pairs, k, Anchor(s.at[e.from], pairs[k][1]),
                                   Anchor(s.at[e.to], pairs[k][2])) : k \in ks}
      Best(plans) == IF plans = {} THEN fallback ELSE Cheapest(plans).sides
  IN IF Plans({1}) # {} THEN pairs[1] ELSE Best(Plans(DOMAIN pairs))

\* edgeSides before anything is placed.
EdgeSides(s, e) ==
  LET bend == OneBendSides(s, e)
      preferred == (IF bend = <<>> THEN <<>> ELSE <<bend[1]>>) \o <<NaturalSides(s, e)>>
      fallback  == IF e \in ChannelLabelEdges(s.d) THEN <<"top", "top">> ELSE NaturalSides(s, e)
  IN IF ~Automatic(e) \/ (Authored(e.fromSide) /\ Authored(e.toSide)) THEN fallback
     ELSE SolvedSides(s, e, SidePairs(e, preferred), fallback)

\* The anchors of a side, moved by what its endpoints are spread.
SpreadPorts(s, spread) ==
  LET Moved(m) == LET p == Anchor(s.at[m.box], m.side)
                      n == spread[m].offset \div spread[m].scale
                  IN IF Upright(m.side) THEN <<p[1], p[2] + n>> ELSE <<p[1] + n, p[2]>>
  IN [k \in {<<m.rel, m.end>> : m \in DOMAIN spread} |->
        Moved(CHOOSE m \in DOMAIN spread : <<m.rel, m.end>> = k)]

\* automaticPorts: where each end of each edge starts, by <<edge, end>>.
AutomaticPorts(s, sides) ==
  LET relations == [i \in DOMAIN s.d.edges |->
        LET e == s.d.edges[i]
        IN [key |-> i, from |-> e.from, to |-> e.to, pinned |-> ~Automatic(e),
            fromSide |-> ChosenSide(e.fromSide, sides[i][1]),
            toSide |-> ChosenSide(e.toSide, sides[i][2])]]
  IN SpreadPorts(s, AutomaticPortSpread(relations, s.at, 16, 14))
==============================================================================
