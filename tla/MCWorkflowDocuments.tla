------------------------ MODULE MCWorkflowDocuments ------------------------
(***************************************************************************)
(* Small workflow diagrams for the model checker: two or three lanes, two  *)
(* to four nodes, up to four edges, built so that the layout has something *)
(* to make room for and the router something to go round.                  *)
(***************************************************************************)
EXTENDS WorkflowCompiler

Lane(i, label) == [id |-> i, label |-> label, exception |-> i = 3]
Node(i, lane, col, w) == [id |-> i, lane |-> lane, col |-> col, w |-> w, h |-> 52, yo |-> 0]
Edge(i, f, t, label) ==
  [id |-> i, from |-> f, to |-> t, label |-> label, fromSide |-> Nothing, toSide |-> Nothing,
   route |-> "auto", via |-> Nothing, channelX |-> Nothing, channelY |-> Nothing, role |-> "main"]
Sided(e, fs, ts) == [e EXCEPT !.fromSide = fs, !.toSide = ts]
Preset(e, route) == [e EXCEPT !.route = route]
Phase(i, f, t, label) == [id |-> i, label |-> label, from |-> f, to |-> t]
Group(i, lane, f, t, label) == [id |-> i, lane |-> lane, label |-> label, from |-> f, to |-> t]

Document(nodes, edges) ==
  [lanes |-> <<Lane(1, 2), Lane(2, 2)>>, nodes |-> nodes, edges |-> edges, phases |-> <<>>,
   groups |-> <<>>, path |-> <<>>, legend |-> <<90>>, viewBox |-> Nothing]

Phases == {<<>>, <<Phase(1, 0, 1, 9)>>, <<Phase(1, 0, 0, 5), Phase(2, 1, 1, 1)>>}
Groups == {<<>>, <<Group(1, 1, 0, 1, 2)>>, <<Group(1, 1, 1, 1, 6)>>}

(***************************************************************************)
(* Layouts: two nodes of a lane, one below the first, wide or high, shifted*)
(* up or down, with a label between them.                                  *)
(***************************************************************************)
Layouts ==
  {[d |-> [Document(<<[Node(1, 1, 0, w) EXCEPT !.h = h, !.yo = y], Node(2, 1, c, 140), Node(3, 2, 0, 92)>>,
                    <<[Edge(1, 1, 2, n) EXCEPT !.fromSide = side], Edge(2, 1, 3, 1)>>)
           EXCEPT !.phases = p, !.groups = g, !.legend = l],
    request |-> r] :
     <<w, c>> \in {<<92, 1>>, <<160, 2>>}, <<h, y>> \in {<<52, 0>>, <<100, -24>>}, n \in {0, 3, 6},
     side \in {Nothing, "top"}, p \in Phases, g \in Groups,
     l \in {<<90>>, <<100, 100, 100, 100, 100, 100, 100>>}, r \in {NoRequest, [gaps |-> (<<0, 1>> :> 210), lane |-> 32]}}

(***************************************************************************)
(* Contracts over every graph of three nodes, and lists of phases.         *)
(***************************************************************************)
ArcList == <<<<1, 2>>, <<2, 1>>, <<1, 3>>, <<3, 1>>, <<2, 3>>, <<3, 2>>, <<1, 1>>>>

Graph(arcs) ==
  LET chosen == SelectSeq(ArcList, LAMBDA a : a \in arcs)
  IN Document(<<Node(1, 1, 0, 92), Node(2, 1, 1, 92), Node(3, 1, 2, 92)>>,
              [i \in DOMAIN chosen |-> Edge(i, chosen[i][1], chosen[i][2], 0)])

Contracts ==
  {[d |-> Graph(arcs), checks |-> [roots |-> r, terminals |-> t, edges |-> {}, paths |-> p]] :
     arcs \in SUBSET ToSet(ArcList),
     r \in {Nothing, {1}, {4}}, t \in {Nothing, {3}}, p \in {{<<1, 3>>}, {<<2, 1>>, <<3, 2>>}}}

PhaseLists ==
  LET spans == {s \in (0 .. 3) \X (0 .. 3) : s[1] <= s[2]}
  IN {<<Phase(1, a[1], a[2], 1), Phase(2, b[1], b[2], 1), Phase(3, c[1], c[2], 1)>> : a, b, c \in spans}

(***************************************************************************)
(* Pinned routes.                                                          *)
(***************************************************************************)
Pinnings ==
  LET plain == Edge(1, 1, 2, 0)
      channels == {[[Preset(plain, r) EXCEPT !.channelX = x] EXCEPT !.channelY = y] :
                     r \in {"auto", "drop", "outside-right", "return-left", "bottom-channel", "up-channel"},
                     x \in {Nothing, 20, 150, 700}, y \in {Nothing, 60, 160, 300}}
      vias == {[Preset(plain, r) EXCEPT !.via = v] :
                 r \in {"auto", "straight", "drop"},
                 v \in {<<>>, <<<<94, 160>>, <<214, 160>>>>, <<<<150, 110>>, <<150, 250>>>>,
                        <<<<94, 70>>, <<334, 70>>>>, <<<<94, 50>>, <<214, 50>>>>}}
  IN {Document(<<Node(1, 1, 0, 92), Node(2, l, c, 92), Node(3, 1, 1, 92)>>, <<e>>) :
        l \in {1, 2}, c \in {1, 2}, e \in channels \cup vias}

(***************************************************************************)
(* Compilations.                                                           *)
(***************************************************************************)
\* A wide neighbour keeps an edge with authored sides from its place, in either
\* direction: routing asks for room between ranks, or between lanes.
Blocked ==
  {<<Document(<<Node(1, 1, 0, w), Node(2, 1, 1, 104), Node(3, 2, 1, 92), Node(4, 2, 2, 92)>>,
              <<Sided(Edge(1, IF back THEN 3 ELSE 1, IF back THEN 1 ELSE 3, n), a, b), Edge(2, 3, 4, 1)>>),
     "standard">> :
     w \in {92, 120}, back \in BOOLEAN, <<a, b>> \in {<<"right", "left">>, <<"left", "right">>, <<"right", "right">>, <<"bottom", "left">>},
     n \in {0, 5}}

\* Four nodes in two lanes and three edges that meet, share sides, or cross.
Meetings ==
  {<<[Document(<<Node(1, 1, 0, 92), Node(2, 1, 2, 92), Node(3, 2, 0, 92), Node(4, 2, c, 92)>>,
               <<Edge(1, 1, 4, n), Edge(2, t[1], t[2], 0), Edge(3, t[3], t[4], 0)>>)
      EXCEPT !.viewBox = v, !.legend = l], q>> :
     <<c, n>> \in {<<1, 0>>, <<1, 7>>, <<2, 7>>}, t \in {<<3, 2, 1, 2>>, <<1, 3, 1, 2>>, <<2, 3, 4, 3>>},
     <<v, l, q>> \in {<<Nothing, <<>>, "showcase">>, <<<<900, 600>>, <<90>>, "standard">>,
                      <<<<720, 420>>, <<110, 110, 110, 110, 110, 120, 120>>, "standard">>}}

\* Three lanes with a group and a phase, and an edge that leaves a lane in between out.
Framed ==
  {<<[Document(<<Node(1, 1, 0, 92), Node(2, 1, 1, w), Node(3, 2, 1, 92), Node(4, 3, 0, 92)>>,
               <<Edge(1, 1, 2, n), Edge(2, 1, 4, 1), Sided(Edge(3, 2, 4, 0), side, Nothing)>>)
      EXCEPT !.lanes = <<Lane(1, 2), Lane(2, 2), Lane(3, 3)>>,
             !.phases = <<Phase(1, 0, 1, 2)>>, !.groups = g, !.path = <<1, 2, 4>>], "showcase">> :
     <<w, n>> \in {<<92, 6>>, <<160, 0>>}, g \in Groups, side \in {Nothing, "top", "right"}}

\* Routes under the control of the author next to an automatic one.
Controlled ==
  {<<Document(<<Node(1, 1, 0, 92), Node(2, 1, 1, 92), Node(3, l, 2, 92)>>,
              <<[Sided(Preset(Edge(1, 1, 3, n), r), side, side) EXCEPT !.channelY = y], Edge(2, 1, 2, 1)>>),
     "standard">> :
     <<l, n>> \in {<<1, 2>>, <<2, 0>>}, side \in {Nothing, "top"}, y \in {Nothing, 8, 300},
     r \in {"straight", "drop", "outside-right", "return-left", "bottom-channel", "up-channel"}}

\* What no layout can be made from.
Refused ==
  LET good == Document(<<Node(1, 1, 0, 92), Node(2, 1, 1, 92)>>, <<Edge(1, 1, 2, 0)>>)
  IN {<<d, "standard">> : d \in
       {[good EXCEPT !.nodes[2].col = 0], [good EXCEPT !.nodes[2].lane = 4],
        [good EXCEPT !.edges[1].to = 9], [good EXCEPT !.lanes[2].id = 1]}}

Compilations == Blocked \cup Meetings \cup Framed \cup Controlled \cup Refused
==============================================================================
