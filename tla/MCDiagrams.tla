----------------------------- MODULE MCDiagrams -----------------------------
(***************************************************************************)
(* Small instances of the diagram code, side by side, and of the check of  *)
(* what was drawn: part says which one a behaviour is about, input is what *)
(* it was given.  Functions have no step but the one that gives them it.   *)
(***************************************************************************)
EXTENDS VisualCheck, ArchitectureDelta, DeltaReview, MCWorkflowDocuments

VARIABLES part, input, compile

Quiet == review = UpdateControls(FreshReview) /\ intact = 1 .. Rows /\ reduced = FALSE /\ onButton = FALSE

Unchecked == Init /\ artifact = "a"

(***************************************************************************)
(* The visual check.                                                       *)
(***************************************************************************)
MCViewports == <<"1440", "1600", "2048">>

fine == [overflow |-> FALSE, text |-> 6, legend |-> FALSE, dock |-> TRUE,
         overlap |-> FALSE, gap |-> 7, need |-> 8]

\* Content a is fine, b has a defect in the dark theme only and small text
\* there, c has a defect of its own at two viewports in the light one.
MCFinds(c, x) ==
  CASE c = "b" /\ x = <<"2048", "dark">> -> [fine EXCEPT !.overlap = TRUE, !.text = 5]
    [] c = "c" /\ x = <<"1440", "light">> -> [fine EXCEPT !.text = 5]
    [] c = "c" /\ x = <<"1600", "light">> -> [fine EXCEPT !.gap = 6, !.legend = TRUE]
    [] OTHER -> fine

(***************************************************************************)
(* Comparison: two diagrams that differ in the items of one kind.          *)
(***************************************************************************)
Component(i, s, e, g) == [id |-> i, semantic |-> s, evidence |-> e, geometry |-> g, brand |-> 0]
Connection(i, to, l, r) == [id |-> i, from |-> "a", to |-> to, label |-> l, route |-> r]
Boundary(i, ws, p) == [id |-> i, wraps |-> ws, pad |-> p]

Diagram(cs, es, bs) ==
  [components |-> cs, connections |-> es, boundaries |-> bs,
   repository |-> [url |-> "u", revision |-> 1, pinned |-> TRUE], look |-> 0, locale |-> 0]

OneComponent == <<Component("a", 0, 0, 0)>>

ComponentLists ==
  LET C(i) == {Component(i, s, e, g) : s, e, g \in 0 .. 1}
  IN {<<c>> : c \in C("a")} \cup {<<c, d>> : c \in C("a"), d \in {Component("b", 0, 0, g) : g \in 0 .. 1}}
       \cup {<<d, c>> : c \in {Component("a", 1, 0, 0)}, d \in {Component("b", 0, 0, 0)}}
       \cup {<<Component(Absent, 0, 0, 0)>>, <<Component("a", 0, 0, 0), Component("a", 1, 0, 0)>>,
             <<[Component("a", 0, 0, 0) EXCEPT !.brand = 1]>>}

ConnectionLists ==
  LET E(i) == {Connection(i, t, l, r) : t \in {"a", "b"}, l \in {NoLabel, "x"}, r \in 0 .. 1}
  IN {<<>>} \cup {<<e>> : e \in E("e")}
       \cup {<<e, Connection("f", "b", "x", 0)>> : e \in E("e")}
       \cup {<<Connection("f", "b", "y", 0), e>> : e \in E("e")}

BoundaryLists ==
  LET B(i) == {Boundary(i, ws, p) : ws \in {{"a"}, {"a", "b"}}, p \in 0 .. 1}
  IN {<<>>} \cup {<<b>> : b \in B("p")} \cup {<<b, Boundary("q", {"b"}, 0)>> : b \in B("p")}

DeltaPairs ==
  {[base |-> Diagram(x, <<>>, <<>>), head |-> Diagram(y, <<>>, <<>>)] : x, y \in ComponentLists}
  \cup {[base |-> Diagram(OneComponent, x, <<>>), head |-> Diagram(OneComponent, y, <<>>)] :
          x, y \in ConnectionLists}
  \cup {[base |-> Diagram(OneComponent, <<>>, x), head |-> Diagram(OneComponent, <<>>, y)] :
          x, y \in BoundaryLists}
  \cup {[base |-> Diagram(OneComponent, <<>>, <<>>),
         head |-> [Diagram(OneComponent, <<>>, <<>>) EXCEPT !.repository = r, !.look = k, !.locale = l]] :
          r \in {Absent, [url |-> "u", revision |-> 2, pinned |-> TRUE],
                 [url |-> "v", revision |-> 1, pinned |-> TRUE]},
          k, l \in 0 .. 1}

(***************************************************************************)
(* Geometry.                                                               *)
(***************************************************************************)
Grid(n) == (0 .. n) \X (0 .. n)

Hits == {[a |-> p, b |-> q, r |-> [x |-> 1, y |-> 2, w |-> w, h |-> h]] :
           p, q \in Grid(5), w \in {1, 2}, h \in {0, 2}}

\* Routes along the axes that start in one of some points; the last step may be empty.
Path3(starts, n) == {p \in starts \X Grid(n) \X Grid(n) : /\ p[1] # p[2] /\ Axial(p[1], p[2])
                                                          /\ p[2] # p[3] /\ Axial(p[2], p[3])}
Path4(starts, n) == {p \in {Append(q, r) : q \in Path3(starts, n), r \in Grid(n)} : Axial(p[3], p[4])}

Forms == {[p |-> p] : p \in Path4(Grid(3), 3)}

Pairs == {[p |-> p, q |-> q] : p \in Path3({<<0, 1>>}, 3),
                               q \in Path3({<<1, 0>>, <<2, 1>>}, 3)}

Borders == {[p |-> p, f |-> [x |-> 0, y |-> 0, w |-> 3, h |-> 2, radius |-> r]] :
              p \in Path4(Grid(3), 3), r \in {0, 1}}

Rhythms == {[p |-> p] : p \in Path4({<<0, 2>>}, 5)}

Relation(k, f, t, fs, ts, p) ==
  [key |-> k, from |-> f, to |-> t, fromSide |-> fs, toSide |-> ts, authored |-> FALSE,
   pinned |-> FALSE, points |-> p]

Box(n, x, y) == [id |-> n, x |-> x - 30, y |-> y - 20, w |-> 60, h |-> 40, cx |-> x, cy |-> y]
PortBoxes == [n \in {"m", "u", "v", "w"} |->
            CASE n = "m" -> Box(n, 0, 0) [] n = "u" -> Box(n, 200, 100)
              [] n = "v" -> Box(n, 200, -100) [] n = "w" -> Box(n, 200, 100)]

PortCases ==
  LET R(k) == {Relation(k, f, t, s, Nothing, <<>>) :
                 f \in {"m", "u"}, t \in {"m", "u", "v", "w"}, s \in {Nothing, "right", "top"}}
  IN {[rs |-> <<a, b, Relation(2, "m", "v", Nothing, "left", <<>>)>>, gutter |-> g] :
        a \in R(3), b \in R(1), g \in {0, 16, 20}}

Sides == {"left", "right", "top", "bottom"}

Bridges == {[s |-> <<0, 0>>, e |-> e, fs |-> fs, ts |-> ts] :
              e \in {<<x, y>> : x, y \in {-16, -14, -3, -2, 0, 1, 3, 4, 14, 18}}, fs, ts \in Sides}

Drawings ==
  {[rs |-> <<[Relation(1, "c", "d", Nothing, "top", p) EXCEPT !.authored = au],
             Relation(2, "d", e, fs, "auto", q)>>,
    label |-> [x |-> 2, y |-> y, w |-> 1, h |-> 0]] :
     p \in {<<<<0, 0>>, <<0, 2>>, <<3, 2>>>>, <<<<0, 1>>, <<3, 1>>>>},
     q \in Path3({<<1, 0>>, <<2, 1>>}, 3),
     au \in BOOLEAN, e \in {"c", "e", "z"}, fs \in {Nothing, "right", "bottom"}, y \in {0, 2}}

(***************************************************************************)
(* The specification.                                                      *)
(***************************************************************************)
Inputs ==
  [delta |-> DeltaPairs, hits |-> Hits, form |-> Forms, pair |-> Pairs, border |-> Borders,
   rhythm |-> Rhythms, ports |-> PortCases, bridge |-> Bridges, gates |-> Drawings,
   layout |-> Layouts, contract |-> Contracts, phases |-> PhaseLists, pins |-> Pinnings,
   compile |-> Compilations]

DiagramInit ==
  /\ input = Nothing /\ compile = Nothing
  /\ \/ part = "check" /\ Init /\ Quiet
     \/ part = "review" /\ DeltaInit /\ Unchecked
     \/ part \in DOMAIN Inputs /\ Quiet /\ Unchecked

Choose ==
  /\ part \in DOMAIN Inputs /\ input = Nothing
  /\ input' \in Inputs[part]
  /\ compile' = IF part = "compile" THEN Begun(CanonicalWorkflow(input'[1])) ELSE Nothing
  /\ UNCHANGED <<vars, reviewVars, part>>

Given(p) == part = p /\ input # Nothing

Checking == part = "check" /\ Next /\ UNCHANGED <<reviewVars, part, input, compile>>

Reviewing == part = "review" /\ DeltaNext /\ UNCHANGED <<vars, part, input, compile>>

Compiling ==
  /\ Given("compile") /\ compile.stage # "done"
  /\ compile' = CompileStep(compile, input[2])
  /\ UNCHANGED <<vars, reviewVars, part, input>>

diagramVars == <<vars, reviewVars, part, input, compile>>

\* A browser fires the timers it was given; the check is fair as its own Spec says.
DiagramSpec ==
  /\ DiagramInit /\ [][Checking \/ Reviewing \/ Choose \/ Compiling]_diagramVars
  /\ WF_diagramVars(part = "review" /\ Fire /\ UNCHANGED <<vars, part, input, compile>>)
  /\ part = "check" => Fairness

(***************************************************************************)
(* What is checked of the pages and of the workflow compiler.              *)
(***************************************************************************)
\* A playback that nobody stops comes to its end.
ReviewSettles == (part = "review" /\ review.playing) ~> ~review.playing

\* The summary has a place for the status of every row of a comparison.
RowsCounted ==
  Given("delta") /\ Comparable(input.base, input.head) =>
    \A r \in Changes(input.base, input.head) : r.status \in SummaryKeys(r.kind)

\* A compilation is at one of its stages and within its rounds.
StagesHold ==
  IF Given("compile")
  THEN compile.stage \in {"layout", "routing", "done"} /\ compile.attempt \in 0 .. MaxRounds
  ELSE compile = Nothing

\* Each of the next says of the inputs given what the law it names, in the module
\* of the code, states at length.
\* Every row of a comparison is found in its drawing: it passes its own validation.
DrawingValid == Given("delta") => DrawingIsValid(input.base, input.head)

\* Nothing that differs between two diagrams is missing from their comparison, but
\* for the brand of a component and the locale.
NothingLost == Given("delta") => NothingHidden(input.base, input.head)

\* The summary counts every row once.
SummaryExact == Given("delta") => SummaryAgrees(input.base, input.head)

\* Hits and distances of segments and boxes.
HitsExact == Given("hits") => HitsAgree(input.a, input.b, input.r)

\* The normal form of a route.
FormExact == Given("form") => NormalFormAgrees(input.p)

\* Crossings and corridors of two routes.
CrossingExact == Given("pair") => CrossingAgrees(input.p, input.q)

\* How far a route follows a border.
BorderExact == Given("border") => BorderAgrees(input.p, input.f)

\* The rhythm issues and metrics of a route.
RhythmExact == Given("rhythm") => RhythmAgrees(input.p, 4, 2)

\* The ports of endpoints that share a side.
PortsExact == Given("ports") => PortsAgree(input.rs, PortBoxes, input.gutter, 14)

\* The bridge between two ports that are not quite opposite.
BridgeExact ==
  Given("bridge") => BridgeAgrees(input.s, input.e, input.fs, input.ts, 6, 4, 2)

\* The gates, and what the profile and the environment make of them.
GatesExact ==
  Given("gates") =>
    GatesAgree(input.rs, {"c", "d", "e"}, [id |-> "n", x |-> 1, y |-> 2, w |-> 1, h |-> 1],
               input.label, [x |-> 0, y |-> 0, w |-> 3, h |-> 2, radius |-> 0], 1)

\* The layout of a workflow keeps every distance, and what it holds apart.
LayoutExact == Given("layout") => LayoutAgrees(input.d, input.request)

\* The order of an author's lists does not matter.
OrderExact == Given("layout") => OrderForgotten(input.d)

\* The paths that a workflow requires of its own graph.
ContractExact == Given("contract") => ContractAgrees(input.d, input.checks)

\* Overlaps of phases.
PhasesExact == Given("phases") => PhasesAgree(input)

\* The search for a pinned route and its check accept the same ones.
PinsExact == Given("pins") => PinsAgree(input, 1)

\* Automatic routes pass the gates.
RoutesClean == Given("compile") => RoutesAreClean(compile)

\* What routing is granted is kept, within the rounds.
GrantsKept == Given("compile") => GrantsAreKept(compile)

\* A compiled diagram lies inside its canvas.
CanvasHolds == Given("compile") => CanvasHoldsAll(compile)

\* A comparison shows, counts and draws everything that changed, and nothing else
\* (architecture-delta.mjs).
DeltaSound ==
  /\ RowsCounted
  /\ DrawingValid
  /\ NothingLost
  /\ SummaryExact

\* Segments, routes, ports and gates are judged as their definitions say, touching,
\* split, zero-length and collinear ones included (geometry.mjs).
GeometryExact ==
  /\ HitsExact
  /\ FormExact
  /\ CrossingExact
  /\ BorderExact
  /\ RhythmExact
  /\ PortsExact
  /\ BridgeExact
  /\ GatesExact

\* What the compiler decides of a workflow before and beside its search: layout,
\* order, refusals, phases and pinned routes (workflow-compiler.mjs).
CompilerExact ==
  /\ LayoutExact
  /\ OrderExact
  /\ ContractExact
  /\ PhasesExact
  /\ PinsExact

\* What a compilation ends with has been kept to by every round of it: clean routes,
\* the room that was granted, and a canvas around all of it.
CompilationSound ==
  /\ StagesHold
  /\ RoutesClean
  /\ GrantsKept
  /\ CanvasHolds
==============================================================================
