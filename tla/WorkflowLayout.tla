--------------------------- MODULE WorkflowLayout ---------------------------
(***************************************************************************)
(* The readable layout of a workflow diagram (renderers/workflow/          *)
(* workflow-compiler.mjs): where the columns, lanes, nodes, phases and     *)
(* groups go, what is refused before and after, and the contract a         *)
(* workflow may state about its own graph.                                 *)
(*                                                                         *)
(* A workflow is a record: lanes, sequence of [id, label, exception];      *)
(* nodes, sequence of [id, lane, col, w, h, yo]; edges, sequence of [id,   *)
(* from, to, label, fromSide, toSide, route, via, channelX, channelY,      *)
(* role]; phases and groups, sequences of [id, label, from, to] and [id,   *)
(* lane, label, from, to]; path, the main path; legend, the widths of the  *)
(* entries of the legend; viewBox. A text is measured in units of 28       *)
(* pixels at the size of a phase or group, which are 31 at that of a lane  *)
(* and 24 at that of an edge; sizes and offsets are even, so that the      *)
(* halves are whole.                                                       *)
(* A layout request, [gaps, lane], holds the least distances of ranks and  *)
(* of lanes that routing has asked for.                                    *)
(***************************************************************************)
EXTENDS RouteGates

Ranks == 0 .. 5
Pitch == 120
NodesOf(d) == ToSet(d.nodes)
EdgesOf(d) == ToSet(d.edges)
Known(d, id) == \E n \in NodesOf(d) : n.id = id
NodeOf(d, id) == CHOOSE n \in NodesOf(d) : n.id = id
ValidSpan(s) == s.from \in Ranks /\ s.to \in Ranks /\ s.from <= s.to
LabelWidth(label) == Max({30, 24 * label + 10})

(***************************************************************************)
(* Columns: the least distances they have to keep, and where that puts     *)
(* them.  A constraint is <<rank, later rank, least distance>>.            *)
(***************************************************************************)
VerticalIntervalsOverlap(a, b, clearance) == 2 * Abs(a.yo - b.yo) < a.h + b.h + 2 * clearance

NodeConstraints(d) ==
  {<<a.col, b.col, (a.w + b.w) \div 2 + 8>> :
     <<a, b>> \in {p \in NodesOf(d) \X NodesOf(d) :
                     /\ p[1].lane = p[2].lane /\ p[1].col < p[2].col
                     /\ VerticalIntervalsOverlap(p[1], p[2], 8)}}

\* Edges that may be drawn straight along a lane.
DirectEdges(d) ==
  {e \in EdgesOf(d) :
     /\ Known(d, e.from) /\ Known(d, e.to)
     /\ LET f == NodeOf(d, e.from)  t == NodeOf(d, e.to)
        IN f.lane = t.lane /\ f.col # t.col /\ f.yo = t.yo
     /\ e.via = Nothing /\ e.channelX = Nothing /\ e.channelY = Nothing
     /\ e.route \in {"auto", "straight"}}

DirectClearance(e) == IF e.label = 0 THEN 28 ELSE Max({28, LabelWidth(e.label) + 8})

\* Edges whose label is so wide that it gets a channel above the lane.
ChannelLabelEdges(d) ==
  {e \in DirectEdges(d) : /\ e.label > 0 /\ e.route = "auto"
                          /\ e.fromSide = Nothing /\ e.toSide = Nothing
                          /\ DirectClearance(e) - 28 > 4 * 28}

Between(d, e, clearance) ==
  LET f == NodeOf(d, e.from)  t == NodeOf(d, e.to)
  IN <<Min({f.col, t.col}), Max({f.col, t.col}), (f.w + t.w) \div 2 + clearance>>

\* A label of a phase or group that is wider than the columns it spans.
SpanConstraints(spans, padding, natural) ==
  {<<s.from, IF s.from = s.to THEN s.to + 1 ELSE s.to,
     (IF s.from = s.to THEN Pitch ELSE 0) + Max({0, 28 * s.label + padding - natural})>> :
     s \in {r \in spans : ValidSpan(r) /\ ~(r.from = 5 /\ r.to = 5)}}

Constraints(d, request) ==
  {<<c, c + 1, Pitch>> : c \in 0 .. 4}
  \cup {<<k[1], k[2], request.gaps[k]>> : k \in DOMAIN request.gaps}
  \cup NodeConstraints(d)
  \cup {Between(d, e, 28) : e \in DirectEdges(d)}
  \cup SpanConstraints(ToSet(d.phases), 8, 92) \cup SpanConstraints(ToSet(d.groups), 20, 100)

\* The second pass adds the labels of direct edges.
LabelConstraints(d) ==
  {Between(d, e, DirectClearance(e)) :
     e \in {f \in DirectEdges(d) \ ChannelLabelEdges(d) : DirectClearance(f) > 28}}

Columns(constraints) ==
  LET x[c \in Ranks] == Max({94 + Pitch * c}
                              \cup {x[k[1]] + k[3] : k \in {j \in constraints : j[1] < c /\ j[2] = c}})
  IN x

GroupBounds(d, g, xs) ==
  LET start == xs[g.from] - 50
      end   == xs[g.to] + 50
      width == Max({end - start, 28 * g.label + 20})
      left  == IF g.from = g.to THEN start ELSE (start + end - width) \div 2
      inside == {n \in NodesOf(d) : n.lane = g.lane /\ n.col \in g.from .. g.to}
      x     == Min({left} \cup {xs[n.col] - n.w \div 2 - 4 : n \in inside})
      right == Max({left + width} \cup {xs[n.col] + n.w \div 2 + 4 : n \in inside})
  IN IF ValidSpan(g) THEN [x |-> x, w |-> right - x] ELSE [x |-> 0, w |-> 0]

PhaseSpan(p, xs) ==
  LET natural == xs[p.to] - xs[p.from] + 92
      width   == Max({natural, 28 * p.label + 8})
  IN [x |-> IF p.from = p.to THEN xs[p.from] - 46 ELSE (xs[p.from] + xs[p.to] - width) \div 2,
      w |-> width]

LeftShift(d, xs) ==
  Max({0} \cup {48 + Max({46, n.w \div 2}) - xs[0] : n \in {m \in NodesOf(d) : m.col = 0}})

\* An edge that leaves or enters a node at the top passes the header of its lane.
HeaderShift(d, xs) ==
  LET Ends(e) == {id \in {e.from, e.to} : \/ id = e.from /\ e.fromSide = "top"
                                          \/ id = e.to /\ e.toSide = "top"}
      free == {e \in EdgesOf(d) : e.via = Nothing /\ e.channelX = Nothing}
  IN Max({0} \cup UNION {{56 + 31 * l.label - xs[NodeOf(d, id).col] :
                            l \in {k \in ToSet(d.lanes) : k.id = NodeOf(d, id).lane}} :
                           id \in {i \in UNION {Ends(e) : e \in free} : Known(d, i)}})

ContentShift(d, xs) ==
  Max({0}
      \cup {16 - ((xs[NodeOf(d, e.from).col] + xs[NodeOf(d, e.to).col] - LabelWidth(e.label)) \div 2) :
              e \in ChannelLabelEdges(d)}
      \cup {16 - PhaseSpan(p, xs).x : p \in ToSet(d.phases)}
      \cup {44 - GroupBounds(d, g, xs).x : g \in ToSet(d.groups)})

ForLeft(d, xs)    == [c \in Ranks |-> xs[c] + LeftShift(d, xs)]
ForHeader(d, xs)  == [c \in Ranks |-> xs[c] + HeaderShift(d, xs)]
ForContent(d, xs) == [c \in Ranks |-> xs[c] + ContentShift(d, xs)]

ColXs(d, request) ==
  ForContent(d, ForHeader(d, ForLeft(d, Columns(Constraints(d, request) \cup LabelConstraints(d)))))

(***************************************************************************)
(* Lanes.                                                                  *)
(***************************************************************************)
LaneWidth(d, xs) ==
  Max({640, xs[5] + 18} \cup {xs[n.col] + n.w \div 2 - 32 : n \in NodesOf(d)}
      \cup {GroupBounds(d, g, xs).x + GroupBounds(d, g, xs).w - 32 : g \in ToSet(d.groups)}
      \cup {31 * l.label + 30 : l \in ToSet(d.lanes)})

ContentHeight(d) == Max({74} \cup {n.h + 2 * Abs(n.yo) + 8 : n \in NodesOf(d)})

\* What the groups of a lane need above and below its nodes.
Reserves(d, xs, lane) ==
  LET held(g) == {n \in NodesOf(d) : n.lane = lane.id /\ n.lane = g.lane /\ n.col \in g.from .. g.to}
      Top(n)  == (ContentHeight(d) - n.h) \div 2 + n.yo
      UnderLabel(n, g) == LET x == GroupBounds(d, g, xs).x + 10
                          IN 2 * xs[n.col] + n.w > 2 * x /\ 2 * xs[n.col] - n.w < 2 * (x + 28 * g.label)
      Least(n, g) == IF UnderLabel(n, g) THEN 11 ELSE 9
  IN [header |-> Max({0} \cup UNION {{Least(n, g) - Top(n) : n \in held(g)} : g \in ToSet(d.groups)}),
      footer |-> Max({0} \cup UNION {{1 - (ContentHeight(d) - 4 - Top(n) - n.h) : n \in held(g)} :
                                       g \in ToSet(d.groups)})]

\* createReadableLayout
LayoutOn(d, request, xs, reserves) ==
  LET heights == [i \in DOMAIN d.lanes |->
                     30 + ContentHeight(d) + reserves[i].header + reserves[i].footer]
      gap == Max({20, request.lane})
  IN [xs |-> xs, laneW |-> LaneWidth(d, xs), gap |-> gap, reserves |-> reserves, heights |-> heights,
      tops |-> [i \in DOMAIN d.lanes |->
                  52 + FoldSet(LAMBDA j, n : n + heights[j] + gap, 0, 1 .. i - 1)],
      content |-> ContentHeight(d), width |-> LaneWidth(d, xs) + 56]

WithReserves(d, request, xs) ==
  LayoutOn(d, request, xs, [i \in DOMAIN d.lanes |-> Reserves(d, xs, d.lanes[i])])

Layout(d, request) == WithReserves(d, request, ColXs(d, request))

LaneIndex(d, id) == Max({i \in DOMAIN d.lanes : d.lanes[i].id = id})
LaneTop(d, l, id)    == l.tops[LaneIndex(d, id)]
LaneHeight(d, l, id) == l.heights[LaneIndex(d, id)]
LastLaneBottom(l)    == Last(l.tops) + Last(l.heights)
ContentTop(d, l, id) == LaneTop(d, l, id) + 30 + l.reserves[LaneIndex(d, id)].header

MeasureNode(d, l, n) ==
  LET y == ContentTop(d, l, n.lane) + (l.content - n.h) \div 2 + n.yo
  IN [id |-> n.id, lane |-> n.lane, col |-> n.col, x |-> l.xs[n.col] - n.w \div 2, y |-> y,
      w |-> n.w, h |-> n.h, cx |-> l.xs[n.col], cy |-> y + n.h \div 2]

\* The measured nodes by id: a later one replaces an earlier one.
Measured(d, l) ==
  [id \in {n.id : n \in {m \in NodesOf(d) : \E k \in ToSet(d.lanes) : k.id = m.lane}} |->
     MeasureNode(d, l, d.nodes[Max({i \in DOMAIN d.nodes : d.nodes[i].id = id})])]

(***************************************************************************)
(* Frames and texts of the scene.                                          *)
(***************************************************************************)
GroupFrame(d, l, g) ==
  [x |-> GroupBounds(d, g, l.xs).x, y |-> LaneTop(d, l, g.lane) + 38,
   w |-> GroupBounds(d, g, l.xs).w, h |-> LaneHeight(d, l, g.lane) - 42, radius |-> 9]

CompositionFrames(d, l) ==
  LET Lane(i, inset, radius) ==
        [x |-> 40 + inset, y |-> l.tops[i] + inset, w |-> l.laneW - 2 * inset,
         h |-> l.heights[i] - 2 * inset, radius |-> radius]
  IN {Lane(i, 0, 10) : i \in DOMAIN d.lanes}
     \cup {Lane(i, 6, 8) : i \in {j \in DOMAIN d.lanes : d.lanes[j].exception}}
     \cup {GroupFrame(d, l, g) : g \in ToSet(d.groups)}

GroupLabelBox(d, l, g) ==
  [x |-> GroupBounds(d, g, l.xs).x + 10, y |-> LaneTop(d, l, g.lane) + 26,
   w |-> 28 * g.label, h |-> 14]

SceneLabelObstacles(d, l) ==
  {[x |-> 54, y |-> l.tops[i] + 12, w |-> 31 * d.lanes[i].label, h |-> 14] : i \in DOMAIN d.lanes}
  \cup {[x |-> PhaseSpan(p, l.xs).x, y |-> 27, w |-> PhaseSpan(p, l.xs).w, h |-> 16] :
          p \in {q \in ToSet(d.phases) : ValidSpan(q)}}
  \cup {GroupLabelBox(d, l, g) : g \in {h \in ToSet(d.groups) : ValidSpan(h)}}

(***************************************************************************)
(* The legend, in rows below the lanes, and the canvas that holds both.    *)
(***************************************************************************)
CanvasWidth(d, l) == Max({l.width} \cup {w + 40 : w \in ToSet(d.legend)})

\* legendFootprint: entries go into a row as long as they fit.
LegendRows(d, l) ==
  LET Wide(row) == FoldSeq(LAMBDA w, n : n + w, 0, row) + 7 * (Len(row) - 1)
  IN FoldLeft(LAMBDA rows, w :
                IF Last(rows) # <<>> /\ Wide(Append(Last(rows), w)) > CanvasWidth(d, l) - 40
                THEN Append(rows, <<w>>) ELSE [rows EXCEPT ![Len(rows)] = Append(@, w)],
              <<<<>>>>, d.legend)

LegendY(d, l) == LastLaneBottom(l) + 44 + 22 * (Len(LegendRows(d, l)) - 1)

\* measureLegend: the boxes of the title and of the entries.
LegendBoxes(d, l) ==
  LET rows == LegendRows(d, l)
      Left(r, k) == 20 + FoldSeq(LAMBDA w, n : n + w + 7, 0, SubSeq(rows[r], 1, k - 1))
      at == UNION {{r} \X DOMAIN rows[r] : r \in DOMAIN rows}
  IN IF d.legend = <<>> THEN {}
     ELSE {[x |-> 20, y |-> LastLaneBottom(l) + 14, w |-> 48, h |-> 14]}
          \cup {[x |-> Left(p[1], p[2]), y |-> LegendY(d, l) - 22 * (Len(rows) - p[1]) - 10,
                 w |-> rows[p[1]][p[2]], h |-> 14] : p \in at}

(***************************************************************************)
(* What the layout promises.  A node of column 1 or later that is wider    *)
(* than twice its distance from the left edge may still leave its lane,    *)
(* and a node outside the columns of a group may lie under the group's     *)
(* label: neither is promised.                                             *)
(***************************************************************************)
\* The columns are the least that keep every distance asked for.
ColumnsExact(d, request, l) ==
  LET asked == Constraints(d, request) \cup LabelConstraints(d)
  IN \A c \in Ranks :
       /\ \A k \in asked : k[1] < k[2] => l.xs[k[2]] - l.xs[k[1]] >= k[3]
       /\ \/ l.xs[c] - l.xs[0] = Pitch * c
          \/ \E k \in asked : k[1] < k[2] /\ k[2] = c /\ l.xs[c] - l.xs[k[1]] = k[3]

\* Nodes keep apart and within their lane; groups hold their nodes, below their
\* label; phases and groups keep off the left edge.
SceneSound(d, l) ==
  LET boxes == {Measured(d, l)[id] : id \in DOMAIN Measured(d, l)}
      Held(g) == {b \in boxes : b.lane = g.lane /\ b.col \in g.from .. g.to}
      groups == {g \in ToSet(d.groups) : ValidSpan(g)}
  IN /\ \A a, b \in boxes : a.lane = b.lane /\ a.col # b.col => ~RectsOverlap(a, b, 8)
     /\ \A b \in boxes :
          /\ b.y >= ContentTop(d, l, b.lane)
          /\ b.y + b.h <= LaneTop(d, l, b.lane) + LaneHeight(d, l, b.lane)
          /\ b.col = 0 => b.x >= 40
          /\ b.x + b.w <= 40 + l.laneW
     /\ \A g \in groups :
          /\ GroupBounds(d, g, l.xs).x >= 44
          /\ \A b \in Held(g) : /\ GroupFrame(d, l, g).x <= b.x
                                /\ b.x + b.w <= GroupFrame(d, l, g).x + GroupFrame(d, l, g).w
                                /\ GroupFrame(d, l, g).y <= b.y
                                /\ b.y + b.h <= GroupFrame(d, l, g).y + GroupFrame(d, l, g).h
                                /\ ~RectsOverlap(b, GroupLabelBox(d, l, g), 0)
     /\ \A p \in {q \in ToSet(d.phases) : ValidSpan(q)} : PhaseSpan(p, l.xs).x >= 16

\* All entries of the legend are shown, apart from each other, below the lanes and
\* within the canvas.
LegendSound(d, l) ==
  LET boxes == LegendBoxes(d, l)
  IN d.legend # <<>> =>
       /\ Cardinality(boxes) = Len(d.legend) + 1
       /\ \A a, b \in boxes : a # b => ~RectsOverlap(a, b, 0)
       /\ \A b \in boxes : b.y > LastLaneBottom(l) /\ b.x + b.w <= CanvasWidth(d, l) - 20

LayoutAgrees(d, request) ==
  \E l \in {Layout(d, request)} :
    ColumnsExact(d, request, l) /\ SceneSound(d, l) /\ LegendSound(d, l)
==============================================================================
