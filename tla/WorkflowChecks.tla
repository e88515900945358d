--------------------------- MODULE WorkflowChecks ---------------------------
(***************************************************************************)
(* What the workflow compiler refuses (renderers/workflow/                 *)
(* workflow-compiler.mjs): a graph that breaks the contract its author     *)
(* wrote, input no layout can be made from, and a drawing that would not   *)
(* be readable.  Texts too wide for their node are left out.               *)
(***************************************************************************)
EXTENDS WorkflowLayout, Relation

(***************************************************************************)
(* The contract: [roots, terminals], each a set or Nothing, and [edges,    *)
(* paths], sets of <<from, to>>.                                           *)
(***************************************************************************)
NodeIds(d) == {n.id : n \in NodesOf(d)}
Arcs(d) == {<<e.from, e.to>> : e \in {f \in EdgesOf(d) : Known(d, f.from) /\ Known(d, f.to)}}

\* The nodes a walk in breadth comes to from a node, the node itself among them.
Reached(d, from) ==
  LET visited[n \in 0 .. Cardinality(NodeIds(d))] ==
        IF n = 0 THEN {from}
        ELSE visited[n - 1] \cup {a[2] : a \in {b \in Arcs(d) : b[1] \in visited[n - 1]}}
  IN visited[Cardinality(NodeIds(d))]

\* semanticContractDiagnostics: names it does not know come first and alone.
SemanticDiagnostics(d, checks) ==
  LET given(set) == IF set = Nothing THEN {} ELSE set
      named == given(checks.roots) \cup given(checks.terminals)
               \cup UNION {{p[1], p[2]} : p \in checks.edges \cup checks.paths}
      unknown == {<<"reference", id>> : id \in named \ NodeIds(d)}
      Loose(k, allowed) == {id \in NodeIds(d) : allowed # Nothing /\ id \notin given(allowed)
                                            /\ \A a \in Arcs(d) : a[k] # id}
  IN IF unknown # {} THEN unknown
     ELSE {<<"root", id>> : id \in Loose(2, checks.roots)}
          \cup {<<"terminal", id>> : id \in Loose(1, checks.terminals)}
          \cup {<<"edge", p>> : p \in checks.edges \ {<<e.from, e.to>> : e \in EdgesOf(d)}}
          \cup {<<"path", p>> : p \in {q \in checks.paths : q[2] \notin Reached(d, q[1])}}

(***************************************************************************)
(* Before routing: the first thing that is wrong, in the order of the      *)
(* code, or Nothing.                                                       *)
(***************************************************************************)
Repeated(items) == {i \in DOMAIN items : \E j \in 1 .. i - 1 : items[j].id = items[i].id}

FirstOf(kind, set) == IF set = {} THEN <<>> ELSE <<<<kind, Min(set)>>>>

\* validateReadableInputsBeforeRouting
InputRefusal(d, l) ==
  LET at == Measured(d, l)
      lane(n) == {k \in ToSet(d.lanes) : k.id = n.lane}
      lost == {i \in DOMAIN d.edges : ~Known(d, d.edges[i].from) \/ ~Known(d, d.edges[i].to)}
      astray == {i \in DOMAIN d.nodes : lane(d.nodes[i]) = {}}
      beside == {i \in DOMAIN d.nodes : d.nodes[i].col \notin Ranks}
      close == {i \in DOMAIN d.nodes : \E j \in 1 .. i - 1 :
                  /\ d.nodes[i].lane = d.nodes[j].lane
                  /\ RectsOverlap(at[d.nodes[i].id], at[d.nodes[j].id], 8)}
      found == FirstOf("lane-id", Repeated(d.lanes)) \o FirstOf("node-id", Repeated(d.nodes))
               \o FirstOf("endpoint", lost)
               \o (IF astray = {} \/ (beside # {} /\ Min(beside) < Min(astray)) THEN <<>>
                   ELSE FirstOf("node-lane", astray))
               \o FirstOf("node-column", beside)
  IN IF found # <<>> THEN Head(found)
     ELSE IF close # {} THEN <<"node-overlap", Min(close)>> ELSE Nothing

(***************************************************************************)
(* After routing: every problem.  A routed edge is [points, label,         *)
(* fromSide, toSide], its label a box or Nothing.                          *)
(***************************************************************************)
\* Phases in order, each compared with the next ones until one begins after it.
PhaseOverlaps(sorted) ==
  {<<i, j>> \in (DOMAIN sorted) \X (DOMAIN sorted) :
     i < j /\ \A k \in i + 1 .. j : sorted[k].from <= sorted[i].to}

Sorted(phases) ==
  SortSeq(phases, LAMBDA a, b : a.from < b.from \/ (a.from = b.from /\ a.to < b.to))

\* The part of validateWorkflow that is about the layout.
LayoutProblems(d, l) ==
  LET boxes == {Measured(d, l)[id] : id \in DOMAIN Measured(d, l)}
      phases == SelectSeq(d.phases, ValidSpan)
      empty(g) == ~\E n \in NodesOf(d) : n.lane = g.lane /\ n.col \in g.from .. g.to
  IN {<<"id", k>> : k \in {m \in {"lane", "node", "phase", "group"} :
        Repeated(CASE m = "lane" -> d.lanes [] m = "node" -> d.nodes
                   [] m = "phase" -> d.phases [] m = "group" -> d.groups) # {}}}
     \cup {<<"lane-side", b.id>> : b \in {c \in boxes : c.x < 40 \/ c.x + c.w > 40 + l.laneW}}
     \cup {<<"lane-title", b.id>> : b \in {c \in boxes :
             \/ c.y < ContentTop(d, l, c.lane)
             \/ c.y + c.h > LaneTop(d, l, c.lane) + LaneHeight(d, l, c.lane)}}
     \cup {<<"phase-columns", p.id>> : p \in {q \in ToSet(d.phases) : ~ValidSpan(q)}}
     \cup {<<"phase-overlap", p>> : p \in PhaseOverlaps(Sorted(phases))}
     \cup {<<"group-columns", g.id>> : g \in {h \in ToSet(d.groups) : ~ValidSpan(h)}}
     \cup {<<"group-empty", g.id>> : g \in {h \in ToSet(d.groups) : empty(h)}}
     \cup {<<"overlap", b.id>> : b \in {c \in boxes : \E e \in boxes :
             c.id # e.id /\ c.lane = e.lane /\ RectsOverlap(c, e, 8)}}

\* A step of the main path needs an edge and does not go back.
PathProblems(d) ==
  LET path == d.path
      known == {i \in 1 .. Len(path) - 1 : Known(d, path[i]) /\ Known(d, path[i + 1])}
  IN {<<"path-node", path[i]>> : i \in {j \in DOMAIN path : ~Known(d, path[j])}}
     \cup {<<"path-edge", i>> : i \in {j \in known :
             ~\E e \in EdgesOf(d) : e.from = path[j] /\ e.to = path[j + 1]}}
     \cup {<<"path-back", i>> : i \in {j \in known :
             NodeOf(d, path[j + 1]).col < NodeOf(d, path[j]).col}}

\* The part of validateWorkflow that is about routes and labels.
RouteProblems(d, l, routed, profile) ==
  LET boxes == {Measured(d, l)[id] : id \in DOMAIN Measured(d, l)}
      ids == NodeIds(d)
      relations == [i \in DOMAIN routed |->
        [key |-> i, from |-> d.edges[i].from, to |-> d.edges[i].to, points |-> routed[i].points,
         fromSide |-> d.edges[i].fromSide, toSide |-> d.edges[i].toSide,
         authored |-> d.edges[i].route # "auto" \/ d.edges[i].via # Nothing]]
      labelled == SetToSeq({i \in DOMAIN routed : routed[i].label # Nothing})
      labels == [k \in DOMAIN labelled |->
                   [key |-> labelled[k], index |-> labelled[k], box |-> routed[labelled[k]].label]]
      inferred == [i \in DOMAIN routed |-> [source |-> routed[i].fromSide, target |-> routed[i].toSide]]
      short == {i \in DOMAIN routed : Len(routed[i].points) = 2 /\ SegmentLength(routed[i].points, 1) < 28}
  IN ({"short"} \X short)
     \cup ({"side"} \X CleanEndpointSideProblems(relations, ids, inferred))
     \cup ({"flow"} \X CleanFlowProblems(relations, boxes, 2))
     \cup ({"crossing"} \X CleanCrossingProblems(relations, ids, TRUE, profile))
     \cup ({"corridor"} \X CleanCorridorProblems(relations, ids, 8, profile))
     \cup ({"border"} \X CleanBorderRunProblems(relations, ids, CompositionFrames(d, l), profile))
     \cup ({"rhythm"} \X CleanRhythmProblems(relations, ids, 16, 8, profile))
     \cup {<<"label-node", k>> : k \in {i \in DOMAIN labels :
             \E b \in boxes : RectsOverlap(labels[i].box, b, -2)}}
     \cup {<<"label-label", k>> : k \in {p \in (DOMAIN labels) \X (DOMAIN labels) :
             p[1] < p[2] /\ RectsOverlap(labels[p[1]].box, labels[p[2]].box, -2)}}
     \cup ({"label-route"} \X CleanLabelProblems(labels, relations, ids, 4, profile))

\* validateWorkflow
Problems(d, l, routed, profile) ==
  LayoutProblems(d, l) \cup PathProblems(d) \cup RouteProblems(d, l, routed, profile)

(***************************************************************************)
(* References for the checks.                                              *)
(***************************************************************************)
\* Once all names are known, the paths the contract is refused for are exactly the
\* required ones that the graph lacks: the search finds what the transitive closure
\* holds.  What it asks of roots, terminals and edges is compared with nothing.
ContractAgrees(d, checks) ==
  LET found == SemanticDiagnostics(d, checks)
      paths == TransitiveClosure([x, y \in NodeIds(d) |-> <<x, y>> \in Arcs(d)], NodeIds(d))
      unknown == \E r \in found : r[1] = "reference"
  IN ~unknown =>
       {r[2] : r \in {q \in found : q[1] = "path"}} =
         {p \in checks.paths : p[1] # p[2] /\ ~paths[p]}

\* Stopping at the first phase that begins later misses no overlap.
PhasesAgree(phases) ==
  LET s == Sorted(phases)
  IN PhaseOverlaps(s) =
       {<<i, j>> \in (DOMAIN s) \X (DOMAIN s) :
          i < j /\ s[i].from <= s[j].to /\ s[j].from <= s[i].to}
==============================================================================
