-------------------------- MODULE WorkflowCompiler --------------------------
(***************************************************************************)
(* The compiler of a readable workflow diagram as a whole (renderers/      *)
(* workflow/workflow-compiler.mjs): an attempt lays the diagram out,       *)
(* routes its edges one by one, and checks the result; an edge that finds  *)
(* no route may ask for more room, and the next attempt begins.            *)
(***************************************************************************)
EXTENDS WorkflowRoutes

(***************************************************************************)
(* Routes the author controls: a preset, waypoints, or a channel.          *)
(***************************************************************************)
RouteVia(s, e, start, end) ==
  LET f == s.at[e.from]  t == s.at[e.to]
      Or(pin, default) == IF pin = Nothing THEN default ELSE pin
      AcrossY(y) == <<<<start[1], y>>, <<end[1], y>>>>
      AcrossX(x) == <<<<x, start[2]>>, <<x, end[2]>>>>
  IN IF e.via # Nothing THEN e.via
     ELSE CASE e.route = "straight" -> <<>>
            [] e.route = "drop" -> AcrossY(Or(e.channelY, GapYBetween(s, f.lane, t.lane)))
            [] e.route = "outside-right" -> AcrossX(Or(e.channelX, OutsideRight(s)))
            [] e.route = "return-left" -> AcrossX(Or(e.channelX, Min({f.x, t.x}) - 28))
            [] e.route = "bottom-channel" ->
                 AcrossY(Or(e.channelY, Max({f.y + f.h, t.y + t.h}) + 32))
            [] e.route = "up-channel" -> AcrossY(Or(e.channelY, Min({f.y, t.y}) - 28))
            [] e.route = "auto" ->
                 IF e.channelX = Nothing THEN AcrossY(e.channelY)
                 ELSE IF e.channelY = Nothing THEN AcrossX(e.channelX)
                 ELSE <<<<e.channelX, start[2]>>, <<e.channelX, e.channelY>>, <<end[1], e.channelY>>>>

Vertical(points, k) == points[k][1] = points[k + 1][1]

\* A segment of some length on the channel: axis 1 is channelX, axis 2 channelY.
ContainsChannelPin(points, axis, value) ==
  \E k \in Segments(points) : /\ points[k][axis] = value /\ points[k + 1][axis] = value
                              /\ points[k] # points[k + 1]

\* corridorTopologyMatches of a route in normal form.
CorridorTopologyMatches(p, axis, at) ==
  LET a == p[1]  b == Last(p)
      direct == IF axis = 1 THEN <<a, <<at, a[2]>>, <<at, b[2]>>, b>>
                ELSE <<a, <<a[1], at>>, <<b[1], at>>, b>>
      Turns(r) == [k \in Segments(r) |-> <<Vertical(r, k), Level(r, k)>>]
  IN Turns(p) = Turns(NormalizeRoutePoints(direct)) /\ ContainsChannelPin(p, axis, at)

IsOfFamily(route, p, f, t) ==
  LET upper == IF f.cy <= t.cy THEN f ELSE t
      lower == IF f.cy <= t.cy THEN t ELSE f
      axis == IF route \in {"outside-right", "return-left"} THEN 1 ELSE 2
      Beyond(at) ==
        CASE route = "drop" -> upper.y + upper.h <= at /\ at <= lower.y
          [] route = "outside-right" -> at > Max({f.x + f.w, t.x + t.w})
          [] route = "return-left" -> at < Min({f.x, t.x})
          [] route = "bottom-channel" -> at > Max({f.y + f.h, t.y + t.h})
          [] route = "up-channel" -> at < Min({f.y, t.y})
      corridor == \E k \in Segments(p) :
        /\ IF axis = 1 THEN Vertical(p, k) ELSE Level(p, k) /\ ~Vertical(p, k)
        /\ Beyond(p[k][axis]) /\ CorridorTopologyMatches(p, axis, p[k][axis])
  IN CASE route = "auto" -> TRUE
       [] route = "straight" -> Len(p) = 2
       [] route = "drop" -> f.lane # t.lane /\ ((Len(p) = 2 /\ Vertical(p, 1)) \/ corridor)
       [] OTHER -> corridor

MatchesPresetFamily(route, points, f, t) == IsOfFamily(route, NormalizeRoutePoints(points), f, t)

ChannelPins(e) == {<<1, e.channelX>>, <<2, e.channelY>>} \ {<<1, Nothing>>, <<2, Nothing>>}

Chosen(plans) ==
  LET plan == Cheapest(plans) IN [kind |-> "route", points |-> plan.points, sides |-> plan.sides]

\* readableControlledRoute: the cheapest feasible pair of sides; else, for absolute
\* pins, the first that honours its sides, else the first of all.
ControlledRoute(s, placed, e) ==
  LET pairs == SidePairs(e, <<NaturalSides(s, e)>>)
      Points(k) ==
        LET a == Anchor(s.at[e.from], pairs[k][1])  b == Anchor(s.at[e.to], pairs[k][2])
            p == <<a>> \o RouteVia(s, e, a, b) \o <<b>>
        IN IF Pinned(e) THEN p ELSE NormalizeRoutePoints(p)
      good == {k \in DOMAIN pairs :
                 /\ Feasible(s, placed, e, Points(k), pairs[k][1], pairs[k][2])
                 /\ MatchesPresetFamily(e.route, Points(k), s.at[e.from], s.at[e.to])
                 /\ \A c \in ChannelPins(e) : ContainsChannelPin(Points(k), c[1], c[2])}
      plans == {[points |-> Points(k), sides |-> pairs[k],
                 cost |-> Cost(s, placed, e, Points(k), k, NaturalSides(s, e)[1], NaturalSides(s, e)[2])] :
                  k \in good}
      honest == {k \in DOMAIN pairs : RouteHonorsEndpointSides(Points(k), pairs[k][1], pairs[k][2])}
      shown == IF honest = {} THEN 1 ELSE Min(honest)
  IN IF plans # {} THEN Chosen(plans)
     ELSE IF Pinned(e) THEN [kind |-> "pins", points |-> Points(shown), sides |-> pairs[shown]]
     ELSE [kind |-> "preset"]

\* firstRouteNodeCollision: whether there is one.
FirstCollision(s, e, points) ==
  \E b \in Boxes(s) : \E k \in Segments(points) :
    /\ ~(b.id = e.from /\ k = 1) /\ ~(b.id = e.to /\ k = Len(points) - 1)
    /\ Hit(points, k, b, IF b.id \in {e.from, e.to} THEN 0 ELSE 2)

\* The pins a preset takes.
PresetPins(route) ==
  CASE route = "auto" -> {1, 2} [] route = "straight" -> {}
    [] route \in {"drop", "bottom-channel", "up-channel"} -> {2}
    [] route \in {"outside-right", "return-left"} -> {1}

\* validateReadableRouteControls, validateReadablePinnedGeometry: the first conflict
\* of a pinned route, or Nothing.
PinConflict(s, e, points, sides) ==
  LET via == IF e.via = Nothing THEN <<>> ELSE e.via
      negative == \/ \E k \in DOMAIN via : via[k][1] < 0 \/ via[k][2] < 0
                  \/ \E c \in ChannelPins(e) : c[2] < 0
      faults == <<<<"preset pins", \E c \in ChannelPins(e) : c[1] \notin PresetPins(e.route)>>,
        <<"origin", negative>>,
        <<"segment", \E k \in Segments(points) :
            \/ Level(points, k) = Vertical(points, k)
            \/ SegmentLength(points, k) < LeastLength(points, k)>>,
        <<"channel", e.via # Nothing /\ \E c \in ChannelPins(e) : ~ContainsChannelPin(points, c[1], c[2])>>,
        <<"preset", ~MatchesPresetFamily(e.route, points, s.at[e.from], s.at[e.to])>>,
        <<"side", ~RouteHonorsEndpointSides(points, sides[1], sides[2])>>,
        <<"node", FirstCollision(s, e, points)>>,
        <<"legend", ~Clears(points, s.legend)>>,
        <<"text", ~Clears(points, s.texts)>>,
        <<"frame", FollowsBorder(points, s.frames)>>>>
  IN Head(SelectSeq(faults, LAMBDA f : f[2]) \o <<<<Nothing>>>>)[1]

(***************************************************************************)
(* Automatic routes.                                                       *)
(***************************************************************************)
\* The cheapest plan, else the first request, rooms between ranks first.
Settled(e, plans, requests) ==
  LET For(kind) == {k \in DOMAIN requests : requests[k] # Nothing /\ requests[k].kind = kind}
      first == Min(IF For("rank") # {} THEN For("rank") ELSE For("lane"))
  IN IF plans # {} THEN Chosen(plans)
     ELSE IF For("rank") \cup For("lane") # {} THEN [kind |-> "request", of |-> requests[first]]
     ELSE [kind |-> IF Authored(e.fromSide) \/ Authored(e.toSide) THEN "sides" ELSE "none"]

\* readableAutomaticVia for the pairs of sides that have no candidate.
WithoutCandidate(s, placed, e, pairs, starts, ends, ready) ==
  LET stuck == {k \in DOMAIN pairs : \A p \in ready : p.sides # pairs[k]}
      natural == NaturalSides(s, e)
      wide == UNION {{[points |-> p, sides |-> pairs[k],
                       cost |-> Cost(s, placed, e, p, 9 * (k - 1) + 6, natural[1], natural[2])] :
                        p \in ExpandedRight(s, placed, e, starts[k], ends[k], pairs[k])} : k \in stuck}
  IN Settled(e, ready \cup wide, [k \in stuck |-> Request(s, e, starts[k], ends[k], pairs[k])])

\* readableAutomaticRoute: the first pair of sides starts from its ports.
AutomaticRoute(s, placed, e, i, primary, ports) ==
  LET pairs == SidePairs(e, <<primary>>)
      Port(k, which, anchor) == IF k = 1 /\ <<i, which>> \in DOMAIN ports THEN ports[<<i, which>>] ELSE anchor
      starts == [k \in DOMAIN pairs |-> Port(k, "from", Anchor(s.at[e.from], pairs[k][1]))]
      ends   == [k \in DOMAIN pairs |-> Port(k, "to", Anchor(s.at[e.to], pairs[k][2]))]
      ready  == UNION {PlansFor(s, placed, e, pairs, k, starts[k], ends[k]) : k \in DOMAIN pairs}
  IN WithoutCandidate(s, placed, e, pairs, starts, ends, ready)

\* pathFor
PathFor(s, placed, i, sides, ports) ==
  LET e == s.d.edges[i]
  IN IF Automatic(e) THEN AutomaticRoute(s, placed, e, i, sides[i], ports)
     ELSE ControlledRoute(s, placed, e)

(***************************************************************************)
(* The canvas.                                                             *)
(***************************************************************************)
\* measuredContentBounds
ContentBounds(s, placed) ==
  LET labels == {placed[i].label : i \in {j \in DOMAIN placed : placed[j].label # Nothing}}
      boxes == Boxes(s) \cup labels \cup s.legend
               \cup (s.texts \ {t \in s.texts : t.x = 54})
               \cup {GroupFrame(s.d, s.l, g) : g \in {h \in ToSet(s.d.groups) : ValidSpan(h)}}
      points == UNION {ToSet(placed[i].points) : i \in DOMAIN placed}
                \cup {<<b.x, b.y>> : b \in boxes} \cup {<<b.x + b.w, b.y + b.h>> : b \in boxes}
      Least(ns, n) == Min({n} \cup ns)  Most(ns, n) == Max({n} \cup ns)
  IN [left |-> Least({p[1] : p \in points}, 40), top |-> Least({p[2] : p \in points}, 27),
      right |-> Most({p[1] : p \in points}, 40 + s.l.laneW),
      bottom |-> Most({p[2] : p \in points}, LegendY(s.d, s.l) + 18)]

RequiredViewBox(s, bounds) ==
  <<Max({s.canvas[1], bounds.right + 16}), Max({s.canvas[2], bounds.bottom + 18})>>

\* finalizeReadableViewBox: the canvas, or why there is none.
FinalizeViewBox(s, bounds) ==
  LET needed == RequiredViewBox(s, bounds)
  IN IF bounds.left < 0 \/ bounds.top < 0 THEN [kind |-> "origin"]
     ELSE IF s.d.viewBox = Nothing THEN [kind |-> "ok", viewBox |-> needed]
     ELSE IF s.d.viewBox[1] < needed[1] \/ s.d.viewBox[2] < needed[2] THEN [kind |-> "viewbox"]
     ELSE [kind |-> "ok", viewBox |-> s.d.viewBox]

(***************************************************************************)
(* Compilation, [d, stage, attempt, request, scene, sides, ports, placed,  *)
(* outcome]: stage is "layout", "routing" or "done", attempts count from 0,*)
(* sides and ports are those the edges would like best.                    *)
(***************************************************************************)
CONSTANT MaxRounds   \* MAX_READABLE_LAYOUT_FEEDBACK_ROUNDS

Ended(c, outcome) == [c EXCEPT !.stage = "done", !.outcome = outcome]

WithSides(c, sides) ==
  [c EXCEPT !.stage = "routing", !.sides = sides, !.ports = AutomaticPorts(c.scene, sides)]

InScene(c) ==
  IF InputRefusal(c.d, c.scene.l) # Nothing THEN Ended(c, [kind |-> "input"])
  ELSE WithSides(c, [k \in DOMAIN c.d.edges |-> EdgeSides(c.scene, c.d.edges[k])])

\* compileWorkflowInternal up to the first route.
LayOut(c) == InScene([c EXCEPT !.scene = Scene(c.d, Layout(c.d, c.request))])

Begun(d) == [d |-> d, stage |-> "layout", attempt |-> 0, request |-> NoRequest, scene |-> Nothing,
             sides |-> <<>>, ports |-> <<>>, placed |-> <<>>, outcome |-> Nothing]

\* compileWorkflowWithFeedback: a request that asks for more than was granted is
\* granted, as long as rounds are left.
Grant(c, of) ==
  LET had == IF of.kind = "lane" THEN c.request.lane
             ELSE IF of.key \in DOMAIN c.request.gaps THEN c.request.gaps[of.key] ELSE 0
      more == IF of.kind = "lane" THEN [c.request EXCEPT !.lane = of.least]
              ELSE [c.request EXCEPT !.gaps = (of.key :> of.least) @@ @]
  IN IF of.least <= had THEN Ended(c, [kind |-> "deaf"])
     ELSE IF c.attempt = MaxRounds THEN Ended(c, [kind |-> "budget"])
     ELSE [c EXCEPT !.stage = "layout", !.request = more, !.attempt = @ + 1, !.placed = <<>>]

\* A pinned route is checked as soon as it is found.
Place(c, e, r) ==
  LET s == c.scene
  IN CASE r.kind = "request" -> Grant(c, r.of)
       [] r.kind \in {"route", "pins"} ->
            IF Pinned(e) /\ PinConflict(s, e, r.points, r.sides) # Nothing THEN Ended(c, [kind |-> "pins"])
            ELSE [c EXCEPT !.placed = Append(@, [points |-> r.points, label |-> LabelBox(e, r.points),
                                                 fromSide |-> r.sides[1], toSide |-> r.sides[2]])]
       [] OTHER -> Ended(c, [kind |-> r.kind])

\* The next edge is routed.
RouteNext(c) ==
  LET i == Len(c.placed) + 1
  IN Place(c, c.d.edges[i], PathFor(c.scene, c.placed, i, c.sides, c.ports))

\* validateWorkflow, finalizeReadableViewBox
Conclude(c, profile) ==
  IF Problems(c.d, c.scene.l, c.placed, profile) # {} THEN Ended(c, [kind |-> "problems"])
  ELSE Ended(c, FinalizeViewBox(c.scene, ContentBounds(c.scene, c.placed)))

CompileStep(c, profile) ==
  IF c.stage = "layout" THEN LayOut(c)
  ELSE IF Len(c.placed) < Len(c.d.edges) THEN RouteNext(c) ELSE Conclude(c, profile)

(***************************************************************************)
(* What the compiler promises.                                             *)
(***************************************************************************)
\* The order in which an author lists nodes, edges, phases and groups is of no account.
OrderForgotten(d) ==
  LET back == [d EXCEPT !.nodes = Reverse(@), !.edges = Reverse(@), !.phases = Reverse(@),
                        !.groups = Reverse(@)]
  IN CanonicalWorkflow(back) = CanonicalWorkflow(d)

\* Searching a route the author pinned, and refusing one, are two parts of the
\* code: for an edge without a label they agree on which routes may stay.
PinsAgree(d, i) ==
  LET e == d.edges[i]
      suits == \A c \in ChannelPins(e) : c[1] \in PresetPins(e.route)
  IN Pinned(e) /\ e.label = 0 /\ suits =>
       \A s \in {Scene(d, Layout(d, NoRequest))} : \A r \in {ControlledRoute(s, <<>>, e)} :
         (r.kind = "route") <=> (PinConflict(s, e, r.points, r.sides) = Nothing)

\* Edges the compiler routes by itself are never the reason a diagram is refused,
\* whatever the profile, but for the crossings and corridors it could not avoid.
RoutesAreClean(c) ==
  LET d == c.d
  IN c.stage = "routing" /\ Len(c.placed) = Len(d.edges) /\ (\A e \in EdgesOf(d) : ~Pinned(e)) =>
       \A p \in RouteProblems(d, c.scene.l, c.placed, "showcase") : p[1] \in {"crossing", "corridor"}

\* A request is always for more than there is, is granted in full, and the next
\* layout keeps it together with all granted before; the rounds never run over.
GrantsAreKept(c) ==
  LET l == c.scene.l
  IN /\ c.attempt <= MaxRounds
     /\ c.outcome = Nothing \/ c.outcome.kind # "deaf"
     /\ c.stage # "layout" =>
          /\ l.gap >= c.request.lane
          /\ \A k \in DOMAIN c.request.gaps : l.xs[k[2]] - l.xs[k[1]] >= c.request.gaps[k]
     /\ Cardinality(DOMAIN c.request.gaps) + (IF c.request.lane > 0 THEN 1 ELSE 0) <= c.attempt

\* Whatever a compiled diagram shows lies inside its canvas.
CanvasHoldsAll(c) ==
  LET s == c.scene
      label(i) == c.placed[i].label
      Inside(p) == 0 <= p[1] /\ p[1] <= c.outcome.viewBox[1] /\ 0 <= p[2] /\ p[2] <= c.outcome.viewBox[2]
      shown == Boxes(s) \cup s.frames \cup s.texts \cup s.legend
               \cup {label(i) : i \in {j \in DOMAIN c.placed : label(j) # Nothing}}
  IN c.outcome # Nothing /\ c.outcome.kind = "ok" =>
       /\ \A b \in shown : Inside(<<b.x, b.y>>) /\ Inside(<<b.x + b.w, b.y + b.h>>)
       /\ \A i \in DOMAIN c.placed : \A p \in ToSet(c.placed[i].points) : Inside(p)
==============================================================================
