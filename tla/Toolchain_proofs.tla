-------------------------- MODULE Toolchain_proofs --------------------------
(***************************************************************************)
(* Four parts of the toolchain: the builder is a disciplined client of the *)
(* container, a resolution locks what everything asks for and does not     *)
(* depend on the order in which it goes through the maps, a generated      *)
(* bridge guards its calls and a reader of it gets what one process wrote, *)
(* and a build keeps the program's dependencies and leaves artifacts of    *)
(* its own.  (The engine and the meaning of a build's values reach         *)
(* recursive definitions.)                                                 *)
(***************************************************************************)
EXTENDS Builder, Resolver, BridgeFiles, BuildProcess, GraphLemmas, SequenceTheorems, FiniteSetTheorems,
        WellFoundedInduction

(* The builder *)

\* What build has found out about the ports.
Judged == /\ phase = "built" => \A e \in DOMAIN graph.edges : ~BadPort(e)
          /\ phase = "rejected" => \E e \in DOMAIN graph.edges : BadPort(e)

\* The graph is made of the ids that the builder draws.
Drawn == graph.nodes \subseteq BuilderNode /\ DOMAIN graph.regions \subseteq BuilderRegion

BuilderInv == /\ BuilderTypeOK /\ EdgesKept(graph) /\ RegionsKept(graph)
              /\ FramesDisjoint /\ Judged /\ Drawn

\* No call but build looks at the ports, and none follows it.
LEMMA StillBuilding ==
    ASSUME phase = "building" PROVE Judged
BY DEF Judged

\* A new node goes to the innermost open region only.
LEMMA AddBuilderNodeKept ==
    ASSUME BuilderInv, NEW n \in BuilderNode, NEW t \in Prototype, AddBuilderNode(n, t)
    PROVE  BuilderInv'
<1>1. /\ phase = "building" /\ phase' = phase /\ n \notin graph.nodes /\ n \in NodeId
      /\ graph' = WithNode(graph, n) /\ proto' = proto ++ One(n, t)
      /\ stack' = IF stack = <<>> THEN stack
                  ELSE [stack EXCEPT ![Len(stack)].children = @ \cup {n}]
      /\ UNCHANGED <<ports, kindOf, constrained>>
  BY DepthAssumption DEF AddBuilderNode
<1>2. WellKept(graph)
  BY DEF BuilderInv, BuilderTypeOK, WellKept
<1>3. IsGraph(graph') /\ EdgesKept(graph') /\ RegionsKept(graph')
  BY <1>1, <1>2, WithNodeKept, WithNodeRegions DEF WellKept
<1>4. /\ graph'.nodes = graph.nodes \cup {n} /\ graph'.edges = graph.edges
      /\ graph'.regions = graph.regions /\ graph'.nodeRegion = graph.nodeRegion
  BY <1>1, <1>2 DEF WithNode, WellKept, IsGraph
<1>5. DOMAIN graph.nodeRegion \subseteq graph.nodes
  BY <1>2 DEF WellKept, RegionsKept, HomeExact
<1>6. stack \in Seq(Frame)
  BY DEF BuilderInv, BuilderTypeOK
<1>7. /\ stack' \in Seq(Frame) /\ DOMAIN stack' = DOMAIN stack
      /\ \A i \in DOMAIN stack :
           /\ stack'[i].inner = stack[i].inner
           /\ stack'[i].children = IF i = Len(stack) THEN stack[i].children \cup {n}
                                                     ELSE stack[i].children
  <2>1. CASE stack = <<>>
    BY <1>1, <1>6, <2>1
  <2>2. CASE stack # <<>>
    <3>1. Len(stack) \in DOMAIN stack /\ Len(stack) \in 1..Len(stack)
      BY <1>6, <2>2
    <3> DEFINE top == stack[Len(stack)]
               new == [top EXCEPT !.children = @ \cup {n}]
    <3>2. stack' = [stack EXCEPT ![Len(stack)] = new]
      BY <1>1, <2>2
    <3>3. top \in Frame
      BY <1>6, <3>1
    <3>4. new \in Frame /\ new.inner = top.inner /\ new.children = top.children \cup {n}
      BY <1>1, <3>3 DEF Frame
    <3> HIDE DEF new
    <3> QED BY <1>6, <3>1, <3>2, <3>4, ExceptSeq, LenProperties
  <2> QED BY <2>1, <2>2
<1>8. BuilderTypeOK'
  <2>1. proto' \in [graph'.nodes -> Prototype]
    BY <1>1, <1>4 DEF BuilderInv, BuilderTypeOK, ++, One
  <2> QED BY <1>1, <1>3, <1>4, <1>7, <2>1 DEF BuilderInv, BuilderTypeOK
<1>9. FramesDisjoint'
  <2>1. \A i \in DOMAIN stack :
          /\ stack[i].children \subseteq graph.nodes \ DOMAIN graph.nodeRegion
          /\ \A r \in stack[i].inner : r \in DOMAIN graph.regions /\ graph.regions[r].parent = None
          /\ \A j \in DOMAIN stack \ {i} :
               /\ stack[i].children \cap stack[j].children = {}
               /\ stack[i].inner \cap stack[j].inner = {}
    BY DEF BuilderInv, FramesDisjoint
  <2> QED BY <1>1, <1>4, <1>5, <1>7, <2>1 DEF FramesDisjoint
<1>10. Judged' /\ Drawn'
  BY <1>1, <1>4 DEF Judged, BuilderInv, Drawn
<1> QED BY <1>3, <1>8, <1>9, <1>10 DEF BuilderInv

\* What a step that leaves the graph's nodes and regions and the open regions
\* alone has to show.
LEMMA FramesUntouched ==
    ASSUME BuilderInv, UNCHANGED stack, graph'.nodes = graph.nodes,
           graph'.regions = graph.regions, graph'.nodeRegion = graph.nodeRegion
    PROVE  FramesDisjoint' /\ Drawn'
BY DEF BuilderInv, FramesDisjoint, Drawn

\* An edge between nodes of the graph touches no region.
LEMMA ConnectKept ==
    ASSUME BuilderInv, NEW e \in BuilderEdge, NEW s \in BuilderNode, NEW t \in BuilderNode,
           NEW pp \in PortPair, Connect(e, s, t, pp)
    PROVE  BuilderInv'
<1> DEFINE E == One(e, [source |-> s, target |-> t])
<1>1. /\ phase = "building" /\ CanTake(graph, E) /\ graph' = WithEdges(graph, E)
      /\ ports' = ports ++ One(e, pp)
      /\ UNCHANGED <<proto, kindOf, constrained, stack, phase>>
  BY DEF Connect
<1>2. WellKept(graph)
  BY DEF BuilderInv, BuilderTypeOK, WellKept
<1>3. IsMap(E, EdgeId, Edge) /\ DOMAIN E = {e}
  BY DepthAssumption DEF IsMap, One, Edge
<1> HIDE DEF E
<1>4. IsGraph(graph') /\ EdgesKept(graph') /\ RegionsKept(graph')
  BY <1>1, <1>2, <1>3, WithEdgesKept, WithEdgesRegions DEF WellKept
<1>5. /\ graph'.nodes = graph.nodes /\ DOMAIN graph'.edges = DOMAIN graph.edges \cup {e}
      /\ graph'.regions = graph.regions /\ graph'.nodeRegion = graph.nodeRegion
  BY <1>1, <1>2, <1>3 DEF WithEdges, WellKept, IsGraph, ++
<1>6. ports' \in [DOMAIN graph'.edges -> PortPair]
  BY <1>1, <1>5 DEF BuilderInv, BuilderTypeOK, ++, One
<1>7. BuilderTypeOK'
  BY <1>1, <1>4, <1>5, <1>6 DEF BuilderInv, BuilderTypeOK
<1> QED BY <1>1, <1>4, <1>5, <1>7, FramesUntouched DEF BuilderInv, Judged

\* A region opens with nothing in it.
LEMMA BeginRegionKept ==
    ASSUME BuilderInv, NEW k \in RegionKind, BeginRegion(k)
    PROVE  BuilderInv'
<1> DEFINE new == [kind |-> k, children |-> {}, inner |-> {}]
<1>1. /\ stack' = Append(stack, new) /\ phase = "building"
      /\ UNCHANGED <<graph, proto, ports, kindOf, constrained, phase>>
  BY DEF BeginRegion
<1>2. new \in Frame /\ new.children = {} /\ new.inner = {}
  BY DEF Frame
<1>3. stack \in Seq(Frame)
  BY DEF BuilderInv, BuilderTypeOK
<1> HIDE DEF new
<1>4. /\ stack' \in Seq(Frame) /\ DOMAIN stack' = DOMAIN stack \cup {Len(stack) + 1}
      /\ stack'[Len(stack) + 1] = new /\ \A i \in DOMAIN stack : stack'[i] = stack[i]
  BY <1>1, <1>2, <1>3, AppendProperties, LenProperties
<1>5. FramesDisjoint'
  BY <1>1, <1>2, <1>4 DEF BuilderInv, FramesDisjoint
<1> QED BY <1>1, <1>4, <1>5 DEF BuilderInv, BuilderTypeOK, Judged, Drawn

\* The region that ends.
Closing == stack[Len(stack)]

\* What ending the innermost region does to the graph and to the others.
LEMMA EndRegionEffect ==
    ASSUME BuilderInv, NEW r \in BuilderRegion, EndRegion(r)
    PROVE  /\ r \in RegionId /\ r \notin DOMAIN graph.regions
           /\ Closing \in Frame
           /\ Closing.children \subseteq graph.nodes \ DOMAIN graph.nodeRegion
           /\ Closing.inner \subseteq {c \in DOMAIN graph.regions : graph.regions[c].parent = None}
           /\ graph' = WithParent(WithRegion(graph, r, Closing.children, None), Closing.inner, r)
           /\ graph'.nodes = graph.nodes /\ graph'.edges = graph.edges
           /\ graph'.nodeRegion = graph.nodeRegion ++ [n \in Closing.children |-> r]
           /\ DOMAIN graph'.regions = DOMAIN graph.regions \cup {r}
           /\ graph'.regions[r].parent = None
           /\ \A c \in DOMAIN graph.regions \ Closing.inner :
                graph'.regions[c].parent = graph.regions[c].parent
           /\ Len(stack) \in Nat \ {0} /\ DOMAIN stack = 1..Len(stack)
           /\ stack' \in Seq(Frame) /\ DOMAIN stack' = 1..(Len(stack) - 1)
           /\ \A i \in DOMAIN stack' :
                /\ stack'[i].children = stack[i].children
                /\ stack'[i].inner = IF i = Len(stack) - 1 THEN stack[i].inner \cup {r} ELSE stack[i].inner
<1> DEFINE C == Closing.children
           K == Closing.inner
           below == SubSeq(stack, 1, Len(stack) - 1)
<1>1. /\ phase = "building" /\ stack # <<>> /\ r \notin DOMAIN graph.regions
      /\ graph' = WithParent(WithRegion(graph, r, C, None), K, r)
      /\ stack' = IF below = <<>> THEN below
                  ELSE [below EXCEPT ![Len(below)].inner = @ \cup {r}]
  BY DEF EndRegion, Closing
<1>2. stack \in Seq(Frame) /\ r \in RegionId
  BY DepthAssumption DEF BuilderInv, BuilderTypeOK
<1>3. Len(stack) \in Nat \ {0} /\ DOMAIN stack = 1..Len(stack) /\ Closing \in Frame
  BY <1>1, <1>2, LenProperties, EmptySeq DEF Closing
<1>4. /\ C \subseteq graph.nodes \ DOMAIN graph.nodeRegion
      /\ K \subseteq {c \in DOMAIN graph.regions : graph.regions[c].parent = None}
  BY <1>3 DEF BuilderInv, FramesDisjoint, Closing
<1>5. /\ graph'.nodes = graph.nodes /\ graph'.edges = graph.edges
      /\ graph'.nodeRegion = graph.nodeRegion ++ [n \in C |-> r]
      /\ DOMAIN graph'.regions = DOMAIN graph.regions \cup {r}
      /\ graph'.regions[r].parent = None
      /\ \A c \in DOMAIN graph.regions \ K : graph'.regions[c].parent = graph.regions[c].parent
  <2> DEFINE g == WithRegion(graph, r, C, None)
  <2>1. /\ g.nodes = graph.nodes /\ g.edges = graph.edges
        /\ g.nodeRegion = graph.nodeRegion ++ [n \in C |-> r]
        /\ DOMAIN g.regions = DOMAIN graph.regions \cup {r}
        /\ g.regions[r].parent = None
        /\ \A c \in DOMAIN graph.regions : g.regions[c] = graph.regions[c]
    BY <1>1 DEF WithRegion, BuilderInv, BuilderTypeOK, IsGraph, ++, One
  <2>2. r \notin K
    BY <1>1, <1>4
  <2>3. IsGraph(g)
    BY <1>2, <1>4, WithRegionKept DEF BuilderInv, BuilderTypeOK, IsGraph
  <2> HIDE DEF g
  <2>4. /\ WithParent(g, K, r).nodes = g.nodes /\ WithParent(g, K, r).edges = g.edges
        /\ WithParent(g, K, r).nodeRegion = g.nodeRegion
        /\ DOMAIN WithParent(g, K, r).regions = DOMAIN g.regions
        /\ \A c \in DOMAIN g.regions \ K : WithParent(g, K, r).regions[c] = g.regions[c]
    BY <2>3 DEF WithParent, IsGraph
  <2>5. graph' = WithParent(g, K, r)
    BY <1>1 DEF g
  <2> QED BY <2>1, <2>2, <2>4, <2>5
<1>6. /\ below \in Seq(Frame) /\ Len(below) = Len(stack) - 1
      /\ DOMAIN below = 1..(Len(stack) - 1)
      /\ \A i \in 1..(Len(stack) - 1) : below[i] = stack[i]
  BY <1>2, <1>3, SubSeqProperties, LenProperties
<1> HIDE DEF below, C, K
<1>7. /\ stack' \in Seq(Frame) /\ DOMAIN stack' = 1..(Len(stack) - 1)
      /\ \A i \in DOMAIN stack' :
           /\ stack'[i].children = stack[i].children
           /\ stack'[i].inner = IF i = Len(stack) - 1 THEN stack[i].inner \cup {r} ELSE stack[i].inner
  <2>1. CASE below = <<>>
    <3>1. Len(below) = 0
      BY <2>1, EmptySeq
    <3>2. stack' = below
      BY <1>1, <2>1
    <3>3. 1..(Len(stack) - 1) = {}
      BY <1>3, <1>6, <3>1
    <3> QED BY <1>6, <3>2, <3>3
  <2>2. CASE below # <<>>
    <3> DEFINE last == below[Len(below)]
               new == [last EXCEPT !.inner = @ \cup {r}]
    <3>1. Len(below) \in 1..Len(below)
      BY <1>6, <2>2, EmptySeq
    <3>2. last \in Frame
      BY <1>6, <3>1, LenProperties
    <3>3. new \in Frame /\ new.children = last.children /\ new.inner = last.inner \cup {r}
      BY <1>2, <3>2 DEF Frame
    <3>4. stack' = [below EXCEPT ![Len(below)] = new]
      BY <1>1, <2>2
    <3> HIDE DEF new
    <3> QED BY <1>3, <1>6, <3>1, <3>3, <3>4, ExceptSeq, LenProperties
  <2> QED BY <2>1, <2>2
<1> QED BY <1>1, <1>2, <1>3, <1>4, <1>5, <1>7 DEF C, K

\* Ending a region houses what it held; what the other open regions hold is
\* something else.
LEMMA EndRegionKept ==
    ASSUME BuilderInv, NEW r \in BuilderRegion, EndRegion(r)
    PROVE  BuilderInv'
<1> USE EndRegionEffect
<1>1. /\ phase = "building" /\ kindOf' = kindOf ++ One(r, Closing.kind)
      /\ UNCHANGED <<proto, ports, constrained, phase>>
  BY DEF EndRegion, Closing
<1>2. WellKept(graph)
  BY DEF BuilderInv, BuilderTypeOK, WellKept
<1>3. RegionsKept(graph')
  BY <1>2, FreshRegionRegions
<1>4. IsGraph(graph') /\ EdgesKept(graph')
  <2> DEFINE g == WithRegion(graph, r, Closing.children, None)
  <2>1. Closing.children \subseteq NodeId
    BY <1>2 DEF WellKept, IsGraph
  <2>2. IsGraph(g) /\ EdgesKept(g)
    BY <1>2, <2>1, WithRegionKept DEF WellKept
  <2>3. Closing.inner \subseteq DOMAIN g.regions
    BY <1>2 DEF WithRegion, ++, WellKept, IsGraph
  <2> HIDE DEF g
  <2>4. IsGraph(WithParent(g, Closing.inner, r)) /\ EdgesKept(WithParent(g, Closing.inner, r))
    BY <2>2, <2>3, WithParentKept
  <2> QED BY <2>4 DEF g
<1>5. BuilderTypeOK'
  <2>1. kindOf' \in [DOMAIN graph'.regions -> RegionKind]
    BY <1>1 DEF BuilderInv, BuilderTypeOK, ++, One, Frame
  <2> QED BY <1>1, <1>4, <2>1 DEF BuilderInv, BuilderTypeOK
<1>6. FramesDisjoint'
  <2> DEFINE last == Len(stack)
  <2>1. \A i \in DOMAIN stack :
          /\ stack[i].children \subseteq graph.nodes \ DOMAIN graph.nodeRegion
          /\ \A c \in stack[i].inner : c \in DOMAIN graph.regions /\ graph.regions[c].parent = None
          /\ \A j \in DOMAIN stack \ {i} :
               /\ stack[i].children \cap stack[j].children = {}
               /\ stack[i].inner \cap stack[j].inner = {}
    BY DEF BuilderInv, FramesDisjoint
  <2>2. \A i \in DOMAIN stack' : i \in DOMAIN stack /\ i # last
    OBVIOUS
  <2>3. Closing = stack[last] /\ last \in DOMAIN stack
    BY DEF Closing
  <2>4. DOMAIN graph'.nodeRegion = DOMAIN graph.nodeRegion \cup Closing.children
    BY DEF ++
  <2>5. ASSUME NEW i \in DOMAIN stack'
        PROVE  stack'[i].children \subseteq graph'.nodes \ DOMAIN graph'.nodeRegion
    BY <2>1, <2>2, <2>3, <2>4
  <2>6. ASSUME NEW i \in DOMAIN stack', NEW c \in stack'[i].inner
        PROVE  c \in DOMAIN graph'.regions /\ graph'.regions[c].parent = None
    <3>1. CASE c = r
      BY <3>1
    <3>2. CASE c # r
      <4>1. c \in stack[i].inner
        BY <3>2
      <4>2. c \in DOMAIN graph.regions /\ graph.regions[c].parent = None /\ c \notin Closing.inner
        BY <2>1, <2>2, <2>3, <4>1
      <4> QED BY <4>2
    <3> QED BY <3>1, <3>2
  <2>7. ASSUME NEW i \in DOMAIN stack', NEW j \in DOMAIN stack' \ {i}
        PROVE  /\ stack'[i].children \cap stack'[j].children = {}
               /\ stack'[i].inner \cap stack'[j].inner = {}
    <3>1. /\ stack[i].children \cap stack[j].children = {}
          /\ stack[i].inner \cap stack[j].inner = {}
          /\ r \notin stack[i].inner /\ r \notin stack[j].inner
      BY <2>1, <2>2
    <3>2. stack'[i].children = stack[i].children /\ stack'[j].children = stack[j].children
      OBVIOUS
    <3>3. ~(i = Len(stack) - 1 /\ j = Len(stack) - 1)
      OBVIOUS
    <3>4. stack'[i].inner = IF i = Len(stack) - 1 THEN stack[i].inner \cup {r} ELSE stack[i].inner
      OBVIOUS
    <3>5. stack'[j].inner = IF j = Len(stack) - 1 THEN stack[j].inner \cup {r} ELSE stack[j].inner
      OBVIOUS
    <3> HIDE EndRegionEffect
    <3> QED BY <3>1, <3>2, <3>3, <3>4, <3>5
  <2> QED BY <2>5, <2>6, <2>7 DEF FramesDisjoint
<1>7. Judged' /\ Drawn'
  BY <1>1 DEF Judged, BuilderInv, Drawn
<1> QED BY <1>3, <1>4, <1>5, <1>6, <1>7 DEF BuilderInv

\* Nothing is open at first, and nothing built.
LEMMA BuilderStart == BuilderInit => BuilderInv
<1>1. EmptyGraph.nodes = {} /\ EmptyGraph.edges = EmptyMap /\ EmptyGraph.regions = EmptyMap
  BY DEF EmptyGraph
<1> QED BY <1>1, EmptyGraphKept, EmptyRegions, EmptySeq
       DEF BuilderInit, BuilderInv, BuilderTypeOK, FramesDisjoint, Judged, Drawn, EmptyMap

\* Every call keeps the invariant.
LEMMA BuilderStep ==
    ASSUME BuilderInv, [BuilderNext]_builderVars
    PROVE  BuilderInv'
<1>1. ASSUME NEW n \in BuilderNode, NEW t \in Prototype, Amend(n, t) PROVE BuilderInv'
  <2>1. /\ UNCHANGED <<graph, ports, kindOf, constrained, stack, phase>> /\ phase = "building"
        /\ proto' = [proto EXCEPT ![n] = t]
    BY <1>1 DEF Amend
  <2>2. proto' \in [graph.nodes -> Prototype]
    BY <2>1 DEF BuilderInv, BuilderTypeOK
  <2> QED BY <2>1, <2>2, FramesUntouched DEF BuilderInv, BuilderTypeOK, Judged
<1>2. ASSUME NEW r \in BuilderRegion, AddRegionConstraint(r) PROVE BuilderInv'
  BY <1>2, FramesUntouched DEF AddRegionConstraint, BuilderInv, BuilderTypeOK, Judged
<1>3. ASSUME Finish PROVE BuilderInv'
  <2>1. UNCHANGED <<graph, proto, ports, kindOf, constrained, stack>>
    BY <1>3 DEF Finish
  <2>2. Validates(graph)
    BY KeptIsValid DEF WellKept, BuilderInv, BuilderTypeOK
  <2>3. Judged' /\ phase' \in {"building", "built", "rejected", "taken"}
    BY <1>3, <2>1, <2>2 DEF Finish, Judged, BadPort
  <2> QED BY <2>1, <2>3, FramesUntouched DEF BuilderInv, BuilderTypeOK
<1>4. CASE UNCHANGED builderVars
  BY <1>4, FramesUntouched DEF builderVars, BuilderInv, BuilderTypeOK, Judged, BadPort
<1> QED BY <1>1, <1>2, <1>3, <1>4, AddBuilderNodeKept, ConnectKept, BeginRegionKept, EndRegionKept
        DEF BuilderNext

\* Nothing moves a node out of its region, or to another open region.
LEMMA StepHoused ==
    ASSUME BuilderInv, [BuilderNext]_builderVars
    PROVE  NodesStayHoused
<1>1. ASSUME UNCHANGED stack, graph'.nodeRegion = graph.nodeRegion PROVE NodesStayHoused
  BY <1>1 DEF NodesStayHoused, Frames
<1>2. IsGraph(graph) /\ stack \in Seq(Frame)
  BY DEF BuilderInv, BuilderTypeOK
<1>3. ASSUME NEW m \in BuilderNode, NEW t \in Prototype, AddBuilderNode(m, t)
      PROVE  NodesStayHoused
  <2>1. m \notin graph.nodes /\ graph'.nodeRegion = graph.nodeRegion
    BY <1>2, <1>3 DEF AddBuilderNode, WithNode, IsGraph
  <2>2. stack' = IF stack = <<>> THEN stack
                 ELSE [stack EXCEPT ![Len(stack)].children = @ \cup {m}]
    BY <1>3 DEF AddBuilderNode
  <2>3. /\ DOMAIN stack' = DOMAIN stack
        /\ \A i \in DOMAIN stack : \A n \in graph.nodes :
             n \in stack'[i].children <=> n \in stack[i].children
    BY <1>2, <2>1, <2>2 DEF Frame
  <2> QED BY <2>1, <2>3 DEF NodesStayHoused, Frames
<1>4. ASSUME NEW e, NEW s, NEW t, NEW pp, Connect(e, s, t, pp) PROVE NodesStayHoused
  BY <1>1, <1>2, <1>4 DEF Connect, WithEdges, IsGraph
<1>5. ASSUME NEW k \in RegionKind, BeginRegion(k) PROVE NodesStayHoused
  <2> DEFINE new == [kind |-> k, children |-> {}, inner |-> {}]
  <2>1. stack' = Append(stack, new) /\ graph' = graph /\ new \in Frame /\ new.children = {}
    BY <1>5 DEF BeginRegion, Frame
  <2> HIDE DEF new
  <2>2. /\ DOMAIN stack' = DOMAIN stack \cup {Len(stack) + 1}
        /\ stack'[Len(stack) + 1].children = {} /\ \A i \in DOMAIN stack : stack'[i] = stack[i]
    BY <1>2, <2>1, AppendProperties, LenProperties
  <2> QED BY <2>1, <2>2 DEF NodesStayHoused, Frames
<1>6. ASSUME NEW r \in BuilderRegion, EndRegion(r) PROVE NodesStayHoused
  <2>1. /\ r \notin DOMAIN graph.regions
        /\ Closing.children \cap DOMAIN graph.nodeRegion = {}
        /\ graph'.nodeRegion = graph.nodeRegion ++ [n \in Closing.children |-> r]
    BY <1>6, EndRegionEffect
  <2>2. \A n \in DOMAIN graph.nodeRegion :
          n \in DOMAIN graph'.nodeRegion /\ graph'.nodeRegion[n] = graph.nodeRegion[n]
    BY <2>1 DEF ++
  <2>3. \A n \in Closing.children :
          n \in DOMAIN graph'.nodeRegion /\ graph'.nodeRegion[n] = r
    BY <2>1 DEF ++
  <2>4. ASSUME NEW n, n \notin Closing.children PROVE Frames(n)' = Frames(n)
    <3>1. /\ Len(stack) \in Nat /\ DOMAIN stack = 1..Len(stack) /\ DOMAIN stack' = 1..(Len(stack) - 1)
          /\ \A i \in DOMAIN stack' : stack'[i].children = stack[i].children
      BY <1>6, EndRegionEffect
    <3> QED BY <2>4, <3>1 DEF Frames, Closing
  <2> QED BY <2>1, <2>2, <2>3, <2>4 DEF NodesStayHoused
<1>7. ASSUME UNCHANGED <<graph, stack>> PROVE NodesStayHoused
  BY <1>1, <1>7
<1> QED BY <1>3, <1>4, <1>5, <1>6, <1>7
        DEF BuilderNext, Amend, AddRegionConstraint, Finish, builderVars

\* The operations of the container that the builder calls are those of its
\* own graph.
LEMMA ContainerOperations ==
    /\ \A g, n : Container!WithNode(g, n) = WithNode(g, n)
    /\ \A g, E : Container!WithEdges(g, E) = WithEdges(g, E) /\ (Container!CanTake(g, E) <=> CanTake(g, E))
    /\ \A k, v : Container!One(k, v) = One(k, v)
    /\ \A g, r, C, p : Container!WithRegion(g, r, C, p) = WithRegion(g, r, C, p)
    /\ \A g, K, p : Container!WithParent(g, K, p) = WithParent(g, K, p)
<1> USE DEF ++, Container!++, One, Container!One
<1>1. \A g, n : Container!WithNode(g, n) = WithNode(g, n)
  BY DEF WithNode, Container!WithNode, NoEdges, Container!NoEdges
<1>2. \A g, E : Container!WithEdges(g, E) = WithEdges(g, E)
  BY DEF WithEdges, Container!WithEdges
<1>3. \A g, E : Container!CanTake(g, E) <=> CanTake(g, E)
  BY DEF CanTake, Container!CanTake
<1>4. \A k, v : Container!One(k, v) = One(k, v)
  OBVIOUS
<1>5. \A g, r, C, p : Container!WithRegion(g, r, C, p) = WithRegion(g, r, C, p)
  BY DEF WithRegion, Container!WithRegion, Listing, Container!Listing
<1>6. \A g, K, p : Container!WithParent(g, K, p) = WithParent(g, K, p)
  BY DEF WithParent, Container!WithParent
<1> QED BY <1>1, <1>2, <1>3, <1>4, <1>5, <1>6

\* Every call is a call that a disciplined client of the container may make,
\* or none.
LEMMA StepDisciplined ==
    ASSUME BuilderInv, [BuilderNext]_builderVars
    PROVE  DisciplinedClient
<1>1. ASSUME NEW n \in BuilderNode, NEW t, AddBuilderNode(n, t) PROVE ClientStep
  BY <1>1, ContainerOperations DEF AddBuilderNode, ClientStep, Container!AddNode
<1>2. ASSUME NEW e \in BuilderEdge, NEW s \in BuilderNode, NEW t \in BuilderNode, NEW pp,
             Connect(e, s, t, pp)
      PROVE  ClientStep
  BY <1>2, ContainerOperations DEF Connect, ClientStep, Container!AddEdge
<1>3. ASSUME NEW r \in BuilderRegion, EndRegion(r) PROVE ClientStep
  <2>1. /\ r \notin DOMAIN graph.regions
        /\ Closing.children \subseteq graph.nodes \ DOMAIN graph.nodeRegion
        /\ Closing.inner \subseteq {c \in DOMAIN graph.regions : graph.regions[c].parent = None}
        /\ graph' = WithParent(WithRegion(graph, r, Closing.children, None), Closing.inner, r)
    BY <1>3, EndRegionEffect
  <2>2. Closing.children \in SUBSET BuilderNode /\ Closing.inner \in SUBSET BuilderRegion
    BY <2>1 DEF BuilderInv, Drawn
  <2>3. Container!AddFreshRegion(r, Closing.children, Closing.inner)
    BY <2>1, ContainerOperations DEF Container!AddFreshRegion
  <2> QED BY <2>2, <2>3 DEF ClientStep
<1>4. ASSUME UNCHANGED graph PROVE DisciplinedClient
  BY <1>4 DEF DisciplinedClient
<1> QED BY <1>1, <1>2, <1>3, <1>4
        DEF DisciplinedClient, BuilderNext, Amend, BeginRegion, AddRegionConstraint, Finish, builderVars

\* For any ids, prototypes and nesting, whatever the order of the calls: the
\* graph under construction and the one handed out are well kept, the open
\* regions disjoint, and build refuses a graph for its ports only.
THEOREM BuilderAlwaysSound == BuilderSpec => [](BuilderTypeOK /\ BuilderSound)
<1>1. BuilderInit => BuilderInv
  BY BuilderStart
<1>2. BuilderInv /\ [BuilderNext]_builderVars => BuilderInv'
  BY BuilderStep
<1>3. BuilderInv => BuilderTypeOK /\ BuilderSound
  BY DEF BuilderInv, BuilderSound, Judged
<1> QED BY <1>1, <1>2, <1>3, PTL DEF BuilderSpec

\* The builder is a disciplined client, and no node leaves the region it was
\* added to: every step, for any ids, prototypes and nesting.
THEOREM BuilderAlwaysKeeps == BuilderSpec => BuilderKeeps
<1>1. BuilderInit => BuilderInv
  BY BuilderStart
<1>2. BuilderInv /\ [BuilderNext]_builderVars => BuilderInv'
  BY BuilderStep
<1>3. BuilderInv /\ BuilderInv' /\ [BuilderNext]_builderVars
        => [BuilderSound' /\ NodesStayHoused /\ DisciplinedClient]_builderVars
  BY StepHoused, StepDisciplined DEF BuilderInv, BuilderSound, Judged
<1> QED BY <1>1, <1>2, <1>3, PTL DEF BuilderSpec, BuilderKeeps

-----------------------------------------------------------------------------
(* Sets of numbers *)

\* A set of numbers that is finite and not empty has a least and a highest.
LEMMA Extremes ==
    ASSUME NEW S, S \subseteq Nat, IsFiniteSet(S), S # {}
    PROVE  /\ \E n \in S : \A m \in S : m <= n
           /\ \E n \in S : \A m \in S : n <= m
<1> DEFINE HasEnds(T) == /\ \E n \in T : \A m \in T : m <= n
                         /\ \E n \in T : \A m \in T : n <= m
           Bad == {T \in FiniteSubsetsOf(S) : T # {} /\ ~HasEnds(T)}
<1>1. Bad = {}
  <2> SUFFICES ASSUME Bad # {} PROVE FALSE
    OBVIOUS
  <2>1. PICK T \in Bad : \A U \in Bad : <<U, T>> \notin StrictSubsetOrdering(S)
    BY FS_StrictSubsetOrderingWellFounded, WFMin, Bad \subseteq FiniteSubsetsOf(S)
  <2>2. T \subseteq S /\ IsFiniteSet(T) /\ T # {} /\ ~HasEnds(T)
    BY DEF FiniteSubsetsOf
  <2>3. PICK x \in T : TRUE
    BY <2>2
  <2> DEFINE U == T \ {x}
  <2>4. U \subseteq T /\ U # T /\ IsFiniteSet(U)
    BY <2>2, FS_RemoveElement
  <2>5. <<U, T>> \in StrictSubsetOrdering(S)
    BY <2>2, <2>4 DEF StrictSubsetOrdering
  <2>6. U # {} => HasEnds(U)
    BY <2>1, <2>2, <2>4, <2>5 DEF FiniteSubsetsOf
  <2>7. CASE U = {}
    BY <2>2, <2>7
  <2>8. CASE U # {}
    <3>1. PICK high \in U : \A w \in U : w <= high
      BY <2>6, <2>8
    <3>2. PICK low \in U : \A w \in U : low <= w
      BY <2>6, <2>8
    <3>3. x \in Nat /\ high \in Nat /\ low \in Nat /\ U \subseteq Nat /\ T = U \cup {x}
      BY <2>2, <2>4
    <3> HIDE DEF U
    <3>4. \E n \in T : \A m \in T : m <= n
      <4>1. CASE x <= high
        BY <3>1, <3>3, <4>1
      <4>2. CASE ~(x <= high)
        BY <3>1, <3>3, <4>2
      <4> QED BY <4>1, <4>2
    <3>5. \E n \in T : \A m \in T : n <= m
      <4>1. CASE low <= x
        BY <3>2, <3>3, <4>1
      <4>2. CASE ~(low <= x)
        BY <3>2, <3>3, <4>2
      <4> QED BY <4>1, <4>2
    <3> QED BY <2>2, <3>4, <3>5
  <2> QED BY <2>7, <2>8
<1>2. S \in FiniteSubsetsOf(S)
  BY DEF FiniteSubsetsOf
<1>3. HasEnds(S)
  BY <1>1, <1>2
<1> QED BY <1>3

\* Among the first few numbers, a set that has one has a least one.
LEMMA LeastExists ==
    ASSUME NEW N \in Nat, NEW S, S \subseteq 0..N, S # {}
    PROVE  \E n \in S : \A m \in S : n <= m
<1>1. IsFiniteSet(0..N)
  BY FS_Interval
<1>2. IsFiniteSet(S)
  BY <1>1, FS_Subset
<1>3. S \subseteq Nat
  OBVIOUS
<1> QED BY <1>2, <1>3, Extremes

\* Among the first few places, a set of some has a last one.
LEMMA LastPlace ==
    ASSUME NEW N \in Nat, NEW K, K \subseteq 1..N, K # {}
    PROVE  \E k \in K : \A j \in K : j <= k
<1>1. IsFiniteSet(1..N)
  BY FS_Interval
<1>2. IsFiniteSet(K)
  BY <1>1, FS_Subset
<1>3. K \subseteq Nat
  OBVIOUS
<1> QED BY <1>2, <1>3, Extremes

\* A running sum is one.
LEMMA RunningSum ==
    ASSUME NEW N \in Nat, NEW t \in [1..N -> Nat]
    PROVE  \E s \in [0..N -> Nat] :
             s[0] = 0 /\ Total(t) = s[N] /\ \A k \in 1..N : s[k] = s[k - 1] + t[k]
<1> DEFINE s == CHOOSE f : f = [k \in 0..N |-> IF k = 0 THEN 0 ELSE f[k - 1] + t[k]]
           Upto(m, f) == f \in [0..m -> Nat] /\ f[0] = 0 /\ \A k \in 1..m : f[k] = f[k - 1] + t[k]
           Bad == {m \in 0..N : ~ \E f : Upto(m, f)}
<1>1. Bad = {}
  <2> SUFFICES ASSUME Bad # {} PROVE FALSE
    OBVIOUS
  <2>1. PICK m \in Bad : \A i \in Bad : m <= i
    <3> HIDE DEF Upto
    <3> QED BY LeastExists
  <2>2. m # 0
    <3>1. Upto(0, [k \in 0..0 |-> 0])
      OBVIOUS
    <3> HIDE DEF Upto
    <3> QED BY <2>1, <3>1
  <2>3. m \in 1..N /\ m - 1 \in 0..N /\ m - 1 \notin Bad
    <3> HIDE DEF Upto
    <3> QED BY <2>1, <2>2
  <2>4. PICK f : Upto(m - 1, f)
    <3> HIDE DEF Upto
    <3> QED BY <2>3
  <2> DEFINE g == [k \in 0..m |-> IF k = m THEN f[m - 1] + t[m] ELSE f[k]]
  <2>5. Upto(m, g)
    <3>1. t[m] \in Nat /\ f[m - 1] \in Nat
      BY <2>3, <2>4
    <3>2. g \in [0..m -> Nat] /\ g[0] = 0
      BY <2>3, <2>4, <3>1
    <3>3. ASSUME NEW k \in 1..m PROVE g[k] = g[k - 1] + t[k]
      BY <2>3, <2>4, <3>3
    <3> QED BY <3>2, <3>3
  <2> HIDE DEF Upto
  <2> QED BY <2>1, <2>5
<1>2. PICK f : Upto(N, f)
  <2> HIDE DEF Upto
  <2>1. N \in 0..N
    OBVIOUS
  <2> QED BY <1>1, <2>1
<1>3. f = [k \in 0..N |-> IF k = 0 THEN 0 ELSE f[k - 1] + t[k]]
  BY <1>2
<1>4. s = [k \in 0..N |-> IF k = 0 THEN 0 ELSE s[k - 1] + t[k]]
  BY <1>3
<1>t. Total(t) = s[N]
  <2>1. Len(t) = N
    OBVIOUS
  <2> QED BY <2>1 DEF Total
<1> HIDE DEF s
<1>5. DOMAIN s = 0..N /\ s[0] = 0 /\ \A k \in 1..N : s[k] = s[k - 1] + t[k]
  <2> DEFINE r == [k \in 0..N |-> IF k = 0 THEN 0 ELSE s[k - 1] + t[k]]
  <2>1. DOMAIN r = 0..N /\ r[0] = 0 /\ \A k \in 1..N : r[k] = s[k - 1] + t[k]
    OBVIOUS
  <2> QED BY <1>4, <2>1
<1> DEFINE Off == {k \in 0..N : s[k] \notin Nat}
<1>6. Off = {}
  <2> SUFFICES ASSUME Off # {} PROVE FALSE
    OBVIOUS
  <2>1. PICK k \in Off : \A i \in Off : k <= i
    BY LeastExists
  <2>2. k # 0
    BY <2>1, <1>5
  <2>3. k \in 1..N /\ k - 1 \in 0..N /\ s[k - 1] \in Nat
    BY <2>1, <2>2
  <2>4. s[k] = s[k - 1] + t[k] /\ t[k] \in Nat
    BY <1>5, <2>3
  <2> QED BY <2>1, <2>3, <2>4
<1>7. s \in [0..N -> Nat]
  BY <1>4, <1>6
<1> QED BY <1>t, <1>5, <1>7

\* The largest of zero and some numbers.
LEMMA MaxFound ==
    ASSUME NEW m \in Nat, NEW f \in [1..m -> Nat], NEW I, I \subseteq 1..m
    PROVE  /\ Max({0} \cup {f[j] : j \in I}) \in Nat
           /\ \A j \in I : f[j] <= Max({0} \cup {f[j_] : j_ \in I})
           /\ \/ Max({0} \cup {f[j] : j \in I}) = 0
              \/ \E j \in I : Max({0} \cup {f[j_] : j_ \in I}) = f[j]
<1> DEFINE S == {0} \cup {f[j] : j \in I}
<1>1. IsFiniteSet(S)
  <2>1. IsFiniteSet(I)
    <3>1. IsFiniteSet(1..m)
      BY FS_Interval
    <3> QED BY <3>1, FS_Subset
  <2>2. IsFiniteSet({f[j] : j \in I})
    <3> DEFINE g == [j \in I |-> f[j]]
    <3>1. g \in Surjection(I, {f[j] : j \in I})
      BY DEF Surjection
    <3> HIDE DEF g
    <3> QED BY <2>1, <3>1, FS_Surjection
  <2>3. S = {f[j] : j \in I} \cup {0}
    OBVIOUS
  <2> QED BY <2>2, <2>3, FS_AddElement
<1>2. S \subseteq Nat /\ S # {}
  OBVIOUS
<1> HIDE DEF S
<1>3. PICK n \in S : \A v \in S : v <= n
  BY <1>1, <1>2, Extremes
<1>4. Max(S) \in S /\ \A v \in S : Max(S) >= v
  BY <1>2, <1>3 DEF Max
<1> QED BY <1>2, <1>4 DEF S

\* A total is a number.
LEMMA TotalType ==
    ASSUME NEW N \in Nat, NEW t \in [1..N -> Nat] PROVE Total(t) \in Nat
<1>1. PICK s \in [0..N -> Nat] : Total(t) = s[N]
  BY RunningSum
<1> QED BY <1>1

\* u is t with d more at i.
Raised(t, u, i, d) == u[i] = t[i] + d /\ \A k \in DOMAIN t \ {i} : u[k] = t[k]

\* A number that is larger makes the total as much larger.
LEMMA TotalMore ==
    ASSUME NEW N \in Nat, NEW i \in 1..N, NEW d \in Nat,
           NEW t \in Seq(Nat), NEW u \in Seq(Nat), Len(t) = N, Len(u) = N, Raised(t, u, i, d)
    PROVE  Total(u) = Total(t) + d
<1>0. t \in [1..N -> Nat] /\ u \in [1..N -> Nat]
  OBVIOUS
<1>r. u[i] = t[i] + d /\ \A k \in 1..N : k # i => u[k] = t[k]
  BY <1>0 DEF Raised
<1>1. PICK s \in [0..N -> Nat] :
         s[0] = 0 /\ Total(t) = s[N] /\ \A k \in 1..N : s[k] = s[k - 1] + t[k]
  BY <1>0, RunningSum
<1>2. PICK r \in [0..N -> Nat] :
         r[0] = 0 /\ Total(u) = r[N] /\ \A k \in 1..N : r[k] = r[k - 1] + u[k]
  BY <1>0, RunningSum
<1> DEFINE Bad == {k \in 0..N : ~(r[k] = s[k] + (IF k < i THEN 0 ELSE d))}
<1>3. Bad = {}
  <2> SUFFICES ASSUME Bad # {} PROVE FALSE
    OBVIOUS
  <2>1. PICK k \in Bad : \A j \in Bad : k <= j
    BY LeastExists
  <2>2. k # 0
    BY <1>1, <1>2, <2>1
  <2>3. k \in 1..N /\ k - 1 \in 0..N /\ ~(k <= k - 1)
    BY <2>1, <2>2
  <2>4. r[k - 1] = s[k - 1] + (IF k - 1 < i THEN 0 ELSE d)
    BY <2>1, <2>3
  <2>5. PICK a \in Nat, b \in Nat, c \in Nat, e \in Nat :
          a = s[k - 1] /\ b = t[k] /\ c = r[k - 1] /\ e = u[k]
    BY <1>0, <2>3
  <2>6. s[k] = a + b /\ r[k] = c + e
    BY <1>1, <1>2, <2>3, <2>5
  <2>7. CASE k = i
    <3>1. e = b + d /\ k - 1 < i /\ ~(k < i)
      BY <1>r, <2>3, <2>5, <2>7
    <3>2. c = a
      BY <2>4, <2>5, <3>1
    <3> QED BY <2>1, <2>6, <3>1, <3>2
  <2>8. CASE k < i
    <3>1. e = b /\ k - 1 < i
      BY <1>r, <2>3, <2>5, <2>8
    <3>2. c = a
      BY <2>4, <2>5, <3>1
    <3> QED BY <2>1, <2>6, <2>8, <3>1, <3>2
  <2>9. CASE i < k
    <3>1. e = b /\ ~(k - 1 < i) /\ ~(k < i)
      BY <1>r, <2>3, <2>5, <2>9
    <3>2. c = a + d
      BY <2>4, <2>5, <3>1
    <3> QED BY <2>1, <2>6, <3>1, <3>2
  <2>10. k = i \/ k < i \/ i < k
    BY <2>3
  <2> QED BY <2>7, <2>8, <2>9, <2>10
<1>4. N \in 0..N /\ ~(N < i)
  OBVIOUS
<1> QED BY <1>0, <1>1, <1>2, <1>3, <1>4

\* The total of zeros is zero.
LEMMA TotalNone ==
    ASSUME NEW N \in Nat, NEW t \in [1..N -> Nat], \A k \in 1..N : t[k] = 0
    PROVE  Total(t) = 0
<1>1. PICK s \in [0..N -> Nat] :
         s[0] = 0 /\ Total(t) = s[N] /\ \A k \in 1..N : s[k] = s[k - 1] + t[k]
  BY RunningSum
<1> DEFINE Bad == {k \in 0..N : s[k] # 0}
<1>2. Bad = {}
  <2> SUFFICES ASSUME Bad # {} PROVE FALSE
    OBVIOUS
  <2>1. PICK k \in Bad : \A j \in Bad : k <= j
    BY LeastExists
  <2>2. k \in 1..N /\ k - 1 \in 0..N /\ ~(k <= k - 1)
    BY <1>1, <2>1
  <2>3. s[k - 1] = 0 /\ s[k] = s[k - 1] + t[k] /\ t[k] = 0
    BY <1>1, <2>1, <2>2
  <2> QED BY <2>1, <2>3
<1>3. N \in 0..N
  OBVIOUS
<1> QED BY <1>1, <1>2, <1>3

\* The highest of a set of numbers that is finite and not empty.
LEMMA HighestExists ==
    ASSUME NEW S, S \subseteq Nat, IsFiniteSet(S), S # {}
    PROVE  Highest(S) \in S /\ \A w \in S : w <= Highest(S)
<1>1. \E v \in S : \A w \in S : w <= v
  BY Extremes
<1> QED BY <1>1 DEF Highest

-----------------------------------------------------------------------------
(* The resolution *)

\* Maps from modules to requirements.
Wanted == UNION {[M -> Requirement] : M \in SUBSET Module}

\* v meets the requirement R of module x, and is the highest that does unless
\* more was published since.
Fine(x, v, R) ==
    v \in R /\ (quiet => v \in visible[x] /\ \A w \in visible[x] \cap R : w <= v)

\* A requirement R of module x is met, or an open call has still to resolve
\* it, or the version about to be fetched meets it.
Due(x, R) ==
    \/ x \in DOMAIN lock /\ Fine(x, lock[x], R)
    \/ \E i \in DOMAIN pending : x \in DOMAIN pending[i] /\ pending[i][x] = R
    \/ stage = "fetching" /\ target[1] = x /\ Fine(x, target[2], R)

\* The project or a locked module asks for x.
Sought(x) == \/ x \in DOMAIN asked
             \/ \E n \in DOMAIN lock : x \in DOMAIN DependsOn[n][lock[n]]

ResolverTypes ==
    /\ visible \in [Module -> SUBSET Version] /\ whole \in [Module -> SUBSET Version]
    /\ deps \in Wanted /\ asked \in Wanted /\ pending \in Seq(Wanted)
    /\ IsMap(lock, Module, Version)
    /\ stage \in {"idle", "resolving", "fetching", "ok", "failed"}
    /\ stage = "fetching" => target[1] \in Module /\ target[2] \in Version

\* What is locked can be fetched, a module that is fetched again has the
\* version it was locked at, and success leaves nothing open.
LockSteady ==
    /\ \A m \in DOMAIN lock : lock[m] \in whole[m]
    /\ stage = "fetching" => (target[1] \in DOMAIN lock => lock[target[1]] = target[2])
    /\ stage = "ok" => pending = <<>>

Working == stage \in {"resolving", "fetching", "ok"}

\* No requirement of the project or of a locked module is forgotten.
NothingForgotten ==
    Working => /\ \A x \in DOMAIN asked : Due(x, asked[x])
               /\ \A n \in DOMAIN lock : \A x \in DOMAIN DependsOn[n][lock[n]] :
                    Due(x, DependsOn[n][lock[n]][x])

\* Nothing is resolved that nobody asks for.
NothingUnasked ==
    Working => /\ \A m \in DOMAIN lock : Sought(m)
               /\ \A i \in DOMAIN pending : \A x \in DOMAIN pending[i] : Sought(x)
               /\ stage = "fetching" => Sought(target[1])

ResolverInv == ResolverTypes /\ LockSteady /\ NothingForgotten /\ NothingUnasked

\* With nothing open any more, what is due is met.
LEMMA InvLocks == ResolverInv => LockMeetsAll
<1> SUFFICES ASSUME ResolverInv, stage = "ok" PROVE LockMeetsAll
  BY DEF LockMeetsAll
<1>1. pending = <<>> /\ Working
  BY DEF ResolverInv, LockSteady, Working
<1>2. DOMAIN pending = {}
  BY <1>1
<1>3. ASSUME NEW x, NEW R, Due(x, R) PROVE x \in DOMAIN lock /\ lock[x] \in R
  BY <1>2, <1>3 DEF Due, Fine
<1> QED BY <1>1, <1>3
       DEF LockMeetsAll, Meets, ResolverInv, LockSteady, NothingForgotten, NothingUnasked, Sought

\* A requirement is a map of modules.
LEMMA WantedIsMap == \A f : f \in Wanted <=> IsMap(f, Module, Requirement)
BY DEF Wanted, IsMap

\* The outermost call starts with all there is to resolve.
LEMMA ResolveKept ==
    ASSUME ResolverInv, NEW w \in Wanted, Resolve(w)
    PROVE  ResolverInv'
<1>1. /\ stage' = "resolving" /\ asked' = w /\ pending' = <<w>> /\ lock' = EmptyMap
      /\ UNCHANGED <<deps, visible, whole, target>>
  BY DEF Resolve
<1>2. DOMAIN pending' = {1} /\ pending'[1] = w /\ pending' \in Seq(Wanted)
  BY <1>1
<1>3. DOMAIN lock' = {} /\ IsMap(lock', Module, Version)
  BY <1>1 DEF EmptyMap, IsMap
<1>4. ResolverTypes' /\ LockSteady'
  BY <1>1, <1>2, <1>3 DEF ResolverInv, ResolverTypes, LockSteady
<1>5. NothingForgotten' /\ NothingUnasked'
  BY <1>1, <1>2, <1>3 DEF NothingForgotten, NothingUnasked, Due, Sought
<1> QED BY <1>4, <1>5 DEF ResolverInv

\* A failure leaves nothing to show but what was locked.
LEMMA FailKept ==
    ASSUME ResolverInv, Fail
    PROVE  ResolverInv'
<1>1. /\ stage' = "failed" /\ pending' = <<>>
      /\ UNCHANGED <<deps, visible, whole, asked, lock>>
  BY DEF Fail
<1>2. pending' \in Seq(Wanted) /\ ~Working'
  BY <1>1 DEF Working
<1> QED BY <1>1, <1>2
       DEF ResolverInv, ResolverTypes, LockSteady, NothingForgotten, NothingUnasked

\* A step that keeps what was due and sought, and the lock, keeps both.
LEMMA SameLock ==
    ASSUME ResolverInv, Working, UNCHANGED <<asked, lock>>,
           \A x, R : Due(x, R) => Due(x, R)',
           \A i \in DOMAIN pending' : \A x \in DOMAIN pending'[i] : Sought(x),
           stage' = "fetching" => Sought(target'[1])
    PROVE  NothingForgotten' /\ NothingUnasked'
<1>1. \A x : Sought(x) <=> Sought(x)'
  BY DEF Sought
<1>2. NothingForgotten'
  BY DEF ResolverInv, NothingForgotten
<1>3. NothingUnasked'
  BY <1>1 DEF ResolverInv, NothingUnasked
<1> QED BY <1>2, <1>3

\* What is taken off the innermost call is about to be fetched, at the highest
\* version that meets it.
LEMMA LocateEffect ==
    ASSUME ResolverTypes, NEW m \in Module, Locate(m), ~Fail
    PROVE  /\ stage = "resolving" /\ stage' = "fetching"
           /\ Len(pending) \in Nat \ {0} /\ DOMAIN pending = 1..Len(pending)
           /\ Len(pending) <= MaxNesting + 1 /\ m \in DOMAIN pending[Len(pending)]
           /\ pending' \in Seq(Wanted) /\ Len(pending') = Len(pending) /\ DOMAIN pending' = DOMAIN pending
           /\ \A i \in DOMAIN pending :
                /\ DOMAIN pending'[i] = DOMAIN pending[i] \ (IF i = Len(pending) THEN {m} ELSE {})
                /\ \A x \in DOMAIN pending'[i] : pending'[i][x] = pending[i][x]
           /\ target'[1] = m /\ target'[2] \in Version
           /\ target'[2] \in visible[m] \cap pending[Len(pending)][m]
           /\ \A w \in visible[m] \cap pending[Len(pending)][m] : w <= target'[2]
           /\ m \in DOMAIN lock => lock[m] = target'[2]
           /\ UNCHANGED <<deps, visible, whole, asked, lock, quiet>>
<1> DEFINE fit == visible[m] \cap Top[m]
           top == Len(pending)
<1>1. /\ stage = "resolving" /\ pending # <<>> /\ m \in DOMAIN Top
      /\ ~(top > MaxNesting + 1) /\ fit # {} /\ (m \in DOMAIN lock => lock[m] = Highest(fit))
      /\ stage' = "fetching" /\ pending' = Begun(m) /\ target' = <<m, Highest(fit)>>
      /\ UNCHANGED <<deps, visible, whole, asked, lock, quiet>>
  BY DEF Locate
<1>2. pending \in Seq(Wanted)
  BY DEF ResolverTypes
<1>3. top \in Nat \ {0} /\ DOMAIN pending = 1..top /\ Top \in Wanted /\ top \in DOMAIN pending
  BY <1>1, <1>2, EmptySeq, LenProperties DEF Top
<1>4. /\ Without(Top, {m}) \in Wanted /\ DOMAIN Without(Top, {m}) = DOMAIN Top \ {m}
      /\ \A x \in DOMAIN Top \ {m} : Without(Top, {m})[x] = Top[x]
  BY <1>3, WantedIsMap DEF Without, Restrict, IsMap
<1>5. /\ pending' \in Seq(Wanted) /\ Len(pending') = top /\ DOMAIN pending' = 1..top
      /\ \A i \in 1..(top - 1) : pending'[i] = pending[i]
      /\ pending'[top] = Without(Top, {m})
  <2>1. Callers \in Seq(Wanted) /\ Len(Callers) = top - 1 /\ \A i \in 1..(top - 1) : Callers[i] = pending[i]
    BY <1>2, <1>3, SubSeqProperties, LenProperties DEF Callers
  <2> HIDE DEF top
  <2> QED BY <1>1, <1>3, <1>4, <2>1, AppendProperties, LenProperties DEF Begun
<1>6. Highest(fit) \in fit /\ \A w \in fit : w <= Highest(fit)
  <2>1. fit \subseteq Version /\ fit \subseteq Nat
    BY ResolverAssumption DEF ResolverTypes
  <2>2. IsFiniteSet(fit)
    BY <2>1, ResolverAssumption, FS_Subset
  <2> QED BY <1>1, <2>1, <2>2, HighestExists
<1>7. target'[1] = m /\ target'[2] = Highest(fit) /\ Highest(fit) \in Version
  BY <1>1, <1>6 DEF ResolverTypes
<1>8. ASSUME NEW i \in DOMAIN pending
      PROVE  /\ DOMAIN pending'[i] = DOMAIN pending[i] \ (IF i = top THEN {m} ELSE {})
             /\ \A x \in DOMAIN pending'[i] : pending'[i][x] = pending[i][x]
  <2>1. CASE i = top
    BY <1>4, <1>5, <2>1 DEF Top
  <2>2. CASE i # top
    <3>1. pending'[i] = pending[i]
      BY <1>3, <1>5, <2>2
    <3> QED BY <2>2, <3>1
  <2> QED BY <2>1, <2>2
<1>9. top <= MaxNesting + 1
  BY <1>1, <1>3, ResolverAssumption
<1> QED BY <1>1, <1>3, <1>5, <1>6, <1>7, <1>8, <1>9 DEF Top

\* What is taken off the innermost call is met by the version found.
LEMMA LocateKept ==
    ASSUME ResolverInv, NEW m \in Module, Locate(m), ~Fail
    PROVE  ResolverInv'
<1> DEFINE top == Len(pending)
<1>1. /\ stage = "resolving" /\ stage' = "fetching" /\ Working
      /\ top \in DOMAIN pending /\ m \in DOMAIN pending[top]
      /\ pending' \in Seq(Wanted) /\ DOMAIN pending' = DOMAIN pending
      /\ \A i \in DOMAIN pending :
           /\ DOMAIN pending'[i] = DOMAIN pending[i] \ (IF i = top THEN {m} ELSE {})
           /\ \A x \in DOMAIN pending'[i] : pending'[i][x] = pending[i][x]
      /\ target'[1] = m /\ target'[2] \in Version
      /\ target'[2] \in visible[m] \cap pending[top][m]
      /\ \A w \in visible[m] \cap pending[top][m] : w <= target'[2]
      /\ m \in DOMAIN lock => lock[m] = target'[2]
      /\ UNCHANGED <<deps, visible, whole, asked, lock, quiet>>
  BY LocateEffect DEF ResolverInv, Working
<1> HIDE DEF top
<1>2. ResolverTypes' /\ LockSteady'
  BY <1>1 DEF ResolverInv, ResolverTypes, LockSteady
<1>3. \A x, v, R : Fine(x, v, R)' <=> Fine(x, v, R)
  BY <1>1 DEF Fine
<1>4. \A x, R : Due(x, R) => Due(x, R)'
  <2> SUFFICES ASSUME NEW x, NEW R, Due(x, R) PROVE Due(x, R)'
    OBVIOUS
  <2>1. CASE x \in DOMAIN lock /\ Fine(x, lock[x], R)
    BY <1>1, <1>3, <2>1 DEF Due
  <2>2. ASSUME NEW i \in DOMAIN pending, x \in DOMAIN pending[i], pending[i][x] = R
        PROVE  Due(x, R)'
    <3>1. CASE i # top \/ x # m
      <4>1. x \in DOMAIN pending'[i] /\ pending'[i][x] = R
        BY <1>1, <2>2, <3>1
      <4> QED BY <1>1, <4>1 DEF Due
    <3>2. CASE i = top /\ x = m
      <4>1. Fine(m, target'[2], R)
        BY <1>1, <2>2, <3>2 DEF Fine
      <4>2. Fine(m, target[2], R)'
        BY <1>1, <4>1 DEF Fine
      <4> QED BY <1>1, <3>2, <4>2 DEF Due
    <3> QED BY <3>1, <3>2
  <2> QED BY <1>1, <2>1, <2>2 DEF Due
<1>5. \A i \in DOMAIN pending' : \A x \in DOMAIN pending'[i] : Sought(x)
  BY <1>1 DEF ResolverInv, NothingUnasked
<1>6. Sought(target'[1])
  BY <1>1 DEF ResolverInv, NothingUnasked
<1> QED BY <1>1, <1>2, <1>4, <1>5, <1>6, SameLock DEF ResolverInv

\* What was about to be fetched is locked, and what it asks for is open.
LEMMA FetchEffect ==
    ASSUME ResolverTypes, LockSteady, Fetch, ~Fail
    PROVE  \E m \in Module, v \in Version :
             /\ stage = "fetching" /\ stage' = "resolving" /\ target[1] = m /\ target[2] = v /\ v \in whole[m]
             /\ Len(pending) \in Nat /\ DOMAIN pending = 1..Len(pending)
             /\ pending' \in Seq(Wanted) /\ Len(pending') = Len(pending) + 1
             /\ DOMAIN pending' = DOMAIN pending \cup {Len(pending) + 1}
             /\ pending'[Len(pending) + 1] = DependsOn[m][v]
             /\ \A i \in DOMAIN pending : pending'[i] = pending[i]
             /\ DOMAIN lock' = DOMAIN lock \cup {m} /\ lock'[m] = v
             /\ \A n \in DOMAIN lock : lock'[n] = lock[n]
             /\ IsMap(lock', Module, Version)
             /\ UNCHANGED <<deps, visible, whole, asked, quiet>>
<1>1. stage = "fetching"
  BY DEF Fetch
<1>2. PICK m \in Module, v \in Version : target[1] = m /\ target[2] = v
  BY <1>1 DEF ResolverTypes
<1>3. /\ v \in whole[m] /\ stage' = "resolving"
      /\ lock' = IF m \in DOMAIN lock THEN lock ELSE lock ++ One(m, v)
      /\ pending' = Append(pending, DependsOn[m][v])
      /\ UNCHANGED <<deps, visible, whole, asked, quiet>>
  BY <1>2 DEF Fetch
<1>4. pending \in Seq(Wanted) /\ IsMap(lock, Module, Version)
  BY DEF ResolverTypes
<1>5. DependsOn[m][v] \in Wanted
  BY ManifestAssumption, WantedIsMap
<1>6. /\ Len(pending) \in Nat /\ DOMAIN pending = 1..Len(pending) /\ Len(pending') = Len(pending) + 1
      /\ pending' \in Seq(Wanted) /\ pending'[Len(pending) + 1] = DependsOn[m][v]
      /\ DOMAIN pending' = DOMAIN pending \cup {Len(pending) + 1}
      /\ \A i \in DOMAIN pending : pending'[i] = pending[i]
  BY <1>3, <1>4, <1>5, AppendProperties, LenProperties
<1>7. m \in DOMAIN lock => lock[m] = v
  BY <1>1, <1>2 DEF LockSteady
<1>8. /\ DOMAIN lock' = DOMAIN lock \cup {m} /\ lock'[m] = v
      /\ \A n \in DOMAIN lock : lock'[n] = lock[n]
  BY <1>3, <1>7 DEF ++, One
<1>9. IsMap(lock', Module, Version)
  BY <1>3, <1>4 DEF ++, One, IsMap
<1> QED BY <1>1, <1>2, <1>3, <1>6, <1>8, <1>9

\* The version fetched is locked and meets what asked for it; a new call has its needs to resolve.
LEMMA FetchKept ==
    ASSUME ResolverInv, Fetch, ~Fail
    PROVE  ResolverInv'
<1> DEFINE new == Len(pending) + 1
<1>1. PICK m \in Module, v \in Version :
        /\ stage = "fetching" /\ stage' = "resolving" /\ target[1] = m /\ target[2] = v /\ v \in whole[m]
        /\ pending' \in Seq(Wanted) /\ DOMAIN pending' = DOMAIN pending \cup {new}
        /\ pending'[new] = DependsOn[m][v] /\ \A i \in DOMAIN pending : pending'[i] = pending[i]
        /\ DOMAIN lock' = DOMAIN lock \cup {m} /\ lock'[m] = v
        /\ \A n \in DOMAIN lock : lock'[n] = lock[n]
        /\ IsMap(lock', Module, Version)
        /\ UNCHANGED <<deps, visible, whole, asked, quiet>>
  BY FetchEffect DEF ResolverInv
<1> HIDE DEF new
<1>2. Working /\ Working'
  BY <1>1 DEF Working
<1>3. ResolverTypes' /\ LockSteady'
  BY <1>1 DEF ResolverInv, ResolverTypes, LockSteady
<1>4. \A x, w, R : Fine(x, w, R)' <=> Fine(x, w, R)
  BY <1>1 DEF Fine
<1>5. ASSUME NEW x, NEW R, Due(x, R) PROVE Due(x, R)'
  <2>1. CASE x \in DOMAIN lock /\ Fine(x, lock[x], R)
    <3>1. x \in DOMAIN lock' /\ lock'[x] = lock[x]
      BY <1>1, <2>1
    <3>2. Fine(x, lock[x], R)'
      BY <1>4, <2>1, <3>1 DEF Fine
    <3> QED BY <3>1, <3>2 DEF Due
  <2>2. CASE \E i \in DOMAIN pending : x \in DOMAIN pending[i] /\ pending[i][x] = R
    BY <1>1, <2>2 DEF Due
  <2>3. CASE x = m /\ Fine(m, v, R)
    <3>1. Fine(m, lock[m], R)'
      BY <1>1, <2>3 DEF Fine
    <3> QED BY <1>1, <2>3, <3>1 DEF Due
  <2> QED BY <1>1, <1>5, <2>1, <2>2, <2>3 DEF Due
<1>6. ASSUME NEW x \in DOMAIN DependsOn[m][v], NEW R, R = DependsOn[m][v][x] PROVE Due(x, R)'
  <2>1. new \in DOMAIN pending' /\ x \in DOMAIN pending'[new] /\ pending'[new][x] = R
    BY <1>1, <1>6
  <2> QED BY <2>1 DEF Due
<1>7. NothingForgotten'
  <2>1. ASSUME NEW x \in DOMAIN asked' PROVE Due(x, asked[x])'
    BY <1>1, <1>2, <1>5 DEF ResolverInv, NothingForgotten
  <2>2. ASSUME NEW n \in DOMAIN lock', NEW x \in DOMAIN DependsOn[n][lock'[n]], NEW R,
               R = DependsOn[n][lock'[n]][x]
        PROVE  Due(x, R)'
    <3>1. CASE n = m
      BY <1>1, <1>6, <2>2, <3>1
    <3>2. CASE n # m
      <4>1. n \in DOMAIN lock /\ lock'[n] = lock[n]
        BY <1>1, <3>2
      <4> QED BY <1>2, <1>5, <2>2, <4>1 DEF ResolverInv, NothingForgotten
    <3> QED BY <3>1, <3>2
  <2> QED BY <2>1, <2>2 DEF NothingForgotten
<1>8. \A x : Sought(x) => Sought(x)'
  BY <1>1 DEF Sought
<1>9. ASSUME NEW n \in DOMAIN lock' PROVE Sought(n)'
  BY <1>1, <1>2, <1>8 DEF ResolverInv, NothingUnasked
<1>10. ASSUME NEW i \in DOMAIN pending', NEW x \in DOMAIN pending'[i] PROVE Sought(x)'
  <2>1. CASE i \in DOMAIN pending
    BY <1>1, <1>2, <1>8, <2>1 DEF ResolverInv, NothingUnasked
  <2>2. CASE i = new
    BY <1>1, <2>2 DEF Sought
  <2> QED BY <1>1, <2>1, <2>2
<1>11. NothingUnasked'
  BY <1>1, <1>9, <1>10 DEF NothingUnasked
<1> QED BY <1>3, <1>7, <1>11 DEF ResolverInv

\* A call that returns had nothing left.
LEMMA ReturnEffect ==
    ASSUME ResolverTypes, Return
    PROVE  /\ stage = "resolving" /\ stage' = IF Len(pending) = 1 THEN "ok" ELSE "resolving"
           /\ Len(pending) \in Nat \ {0} /\ DOMAIN pending = 1..Len(pending)
           /\ pending[Len(pending)] = EmptyMap
           /\ pending' \in Seq(Wanted) /\ Len(pending') = Len(pending) - 1
           /\ DOMAIN pending' = DOMAIN pending \ {Len(pending)}
           /\ \A i \in DOMAIN pending' : pending'[i] = pending[i]
           /\ UNCHANGED <<deps, visible, whole, asked, target, lock, quiet>>
<1> DEFINE top == Len(pending)
<1>1. /\ stage = "resolving" /\ pending # <<>> /\ pending[top] = EmptyMap
      /\ pending' = Callers /\ stage' = IF Callers = <<>> THEN "ok" ELSE "resolving"
      /\ UNCHANGED <<deps, visible, whole, asked, target, lock, quiet>>
  BY DEF Return, Top
<1>2. pending \in Seq(Wanted)
  BY DEF ResolverTypes
<1>3. top \in Nat \ {0} /\ DOMAIN pending = 1..top
  BY <1>1, <1>2, EmptySeq, LenProperties
<1>4. /\ pending' \in Seq(Wanted) /\ DOMAIN pending' = 1..(top - 1) /\ Len(pending') = top - 1
      /\ \A i \in 1..(top - 1) : pending'[i] = pending[i]
  BY <1>1, <1>2, <1>3, SubSeqProperties, LenProperties DEF Callers
<1> HIDE DEF top
<1>5. 1..(top - 1) = 1..top \ {top}
  BY <1>3
<1>6. Callers = <<>> <=> top = 1
  <2>1. top = 1 => Callers = <<>>
    BY SubSeqEmpty DEF Callers, top
  <2>2. Callers = <<>> => Len(Callers) = 0
    OBVIOUS
  <2> QED BY <1>1, <1>3, <1>4, <2>1, <2>2
<1> QED BY <1>1, <1>3, <1>4, <1>5, <1>6 DEF top

\* A frame that has asked for everything leaves nothing open behind.
LEMMA ReturnKept ==
    ASSUME ResolverInv, Return
    PROVE  ResolverInv'
<1> DEFINE top == Len(pending)
<1>1. /\ stage = "resolving" /\ stage' = IF top = 1 THEN "ok" ELSE "resolving"
      /\ top \in Nat \ {0} /\ DOMAIN pending = 1..top /\ pending[top] = EmptyMap
      /\ pending' \in Seq(Wanted) /\ Len(pending') = top - 1 /\ DOMAIN pending' = DOMAIN pending \ {top}
      /\ \A i \in DOMAIN pending' : pending'[i] = pending[i]
      /\ UNCHANGED <<deps, visible, whole, asked, target, lock, quiet>>
  BY ReturnEffect DEF ResolverInv
<1> HIDE DEF top
<1>2. Working
  BY <1>1 DEF Working
<1>3. top = 1 => pending' = <<>>
  BY <1>1, EmptySeq
<1>4. ResolverTypes' /\ LockSteady'
  BY <1>1, <1>3 DEF ResolverInv, ResolverTypes, LockSteady
<1>5. \A x, v, R : Fine(x, v, R)' <=> Fine(x, v, R)
  BY <1>1 DEF Fine
<1>6. \A x, R : Due(x, R) => Due(x, R)'
  <2> SUFFICES ASSUME NEW x, NEW R, Due(x, R) PROVE Due(x, R)'
    OBVIOUS
  <2>1. CASE x \in DOMAIN lock /\ Fine(x, lock[x], R)
    BY <1>1, <1>5, <2>1 DEF Due
  <2>2. ASSUME NEW i \in DOMAIN pending, x \in DOMAIN pending[i], pending[i][x] = R
        PROVE  Due(x, R)'
    <3>1. i # top
      BY <1>1, <2>2 DEF EmptyMap
    <3> QED BY <1>1, <2>2, <3>1 DEF Due
  <2> QED BY <1>1, <2>1, <2>2 DEF Due
<1>7. \A i \in DOMAIN pending' : \A x \in DOMAIN pending'[i] : Sought(x)
  BY <1>1, <1>2 DEF ResolverInv, NothingUnasked
<1> QED BY <1>1, <1>2, <1>4, <1>6, <1>7, SameLock DEF ResolverInv

\* What the project's file and the registry do meanwhile changes nothing of it:
\* a version that can be fetched stays, and what is published is noted.
LEMMA MeanwhileKept ==
    ASSUME ResolverInv, deps' \in Wanted,
           visible' \in [Module -> SUBSET Version], whole' \in [Module -> SUBSET Version],
           \A m \in Module : whole[m] \subseteq whole'[m],
           UNCHANGED <<stage, asked, pending, target, lock>>,
           quiet' => quiet /\ visible' = visible
    PROVE  ResolverInv'
<1>1. ResolverTypes'
  BY DEF ResolverInv, ResolverTypes
<1>2. LockSteady'
  BY DEF ResolverInv, ResolverTypes, LockSteady, IsMap
<1>3. \A x, v, R : Fine(x, v, R) => Fine(x, v, R)'
  BY DEF Fine
<1>4. NothingForgotten' /\ NothingUnasked'
  BY <1>3 DEF ResolverInv, NothingForgotten, NothingUnasked, Working, Due, Sought
<1> QED BY <1>1, <1>2, <1>4 DEF ResolverInv

\* Every step of a command, and of a publisher meanwhile, keeps the invariant.
LEMMA ResolverStep ==
    ASSUME ResolverInv, [DependencyNext]_dependencyVars
    PROVE  ResolverInv'
<1>1. /\ deps \in Wanted /\ visible \in [Module -> SUBSET Version]
      /\ whole \in [Module -> SUBSET Version]
  BY DEF ResolverInv, ResolverTypes
<1>2. ASSUME NEW a \in Additions, Add(a[1], a[2]) PROVE ResolverInv'
  <2>1. deps' = deps ++ One(a[1], a[2]) /\ a[1] \in Module /\ a[2] \in Requirement
    BY <1>2, ManifestAssumption DEF Add
  <2>2. deps' \in Wanted
    BY <1>1, <2>1, WantedIsMap DEF ++, One, IsMap
  <2> QED BY <1>1, <1>2, <2>2, MeanwhileKept DEF Add
<1>3. ASSUME NEW m \in Module, Withdraw(m) PROVE ResolverInv'
  <2>1. deps' \in Wanted
    BY <1>1, <1>3, WantedIsMap DEF Withdraw, Without, Restrict, IsMap
  <2> QED BY <1>1, <1>3, <2>1, MeanwhileKept DEF Withdraw
<1>4. ASSUME NEW u \in Upcoming, Announce(u[1], u[2]) PROVE ResolverInv'
  <2>1. u[1] \in Module /\ u[2] \in Version
    BY ResolverAssumption
  <2>2. /\ visible' = [visible EXCEPT ![u[1]] = @ \cup {u[2]}]
        /\ quiet' = FALSE /\ UNCHANGED <<deps, whole, stage, asked, pending, target, lock>>
    BY <1>4 DEF Announce
  <2>3. visible' \in [Module -> SUBSET Version]
    BY <1>1, <2>1, <2>2
  <2>4. whole' \in [Module -> SUBSET Version] /\ \A m \in Module : whole[m] \subseteq whole'[m]
    BY <1>1, <2>2
  <2> QED BY <1>1, <2>2, <2>3, <2>4, MeanwhileKept
<1>5. ASSUME NEW u \in Upcoming, Complete(u[1], u[2]) PROVE ResolverInv'
  <2>1. u[1] \in Module /\ u[2] \in Version
    BY ResolverAssumption
  <2>2. /\ whole' = [whole EXCEPT ![u[1]] = @ \cup {u[2]}]
        /\ quiet' = FALSE /\ UNCHANGED <<deps, visible, stage, asked, pending, target, lock>>
    BY <1>5 DEF Complete
  <2>3. whole' \in [Module -> SUBSET Version] /\ \A m \in Module : whole[m] \subseteq whole'[m]
    BY <1>1, <2>1, <2>2
  <2> QED BY <1>1, <2>2, <2>3, MeanwhileKept
<1>6. ASSUME NEW m \in Module, Resolve(Restrict(deps, {m} \cap DOMAIN deps)) PROVE ResolverInv'
  <2>1. Restrict(deps, {m} \cap DOMAIN deps) \in Wanted
    BY <1>1, WantedIsMap DEF Restrict, IsMap
  <2> QED BY <1>6, <2>1, ResolveKept
<1>7. CASE Audit
  BY <1>1, <1>7, MeanwhileKept DEF Audit
<1>8. CASE UNCHANGED dependencyVars
  BY <1>1, <1>8, MeanwhileKept DEF dependencyVars
<1>9. CASE Fail
  BY <1>9, FailKept
<1> QED BY <1>1, <1>2, <1>3, <1>4, <1>5, <1>6, <1>7, <1>8, <1>9, ResolveKept, LocateKept, FetchKept, ReturnKept
        DEF DependencyNext

\* A fresh project has nothing resolved.
LEMMA ResolverStart == DependencyInit => ResolverInv
<1> SUFFICES ASSUME DependencyInit PROVE ResolverInv
  OBVIOUS
<1>1. EmptyMap \in Wanted /\ deps \in Wanted
  BY ManifestAssumption, WantedIsMap DEF DependencyInit, EmptyMap, IsMap
<1>2. ResolverTypes
  BY <1>1, ManifestAssumption, EmptySeq DEF DependencyInit, ResolverTypes, IsMap, EmptyMap
<1> QED BY <1>2
       DEF DependencyInit, ResolverInv, LockSteady, NothingForgotten, NothingUnasked, Working, EmptyMap

\* For any registry, manifests and projects, any order in which dependencies
\* are gone through, and whatever is published meanwhile: a resolution that
\* succeeds has locked what meets every requirement, and nothing unasked for.
THEOREM LockAlwaysMeets == DependencySpec => []LockMeetsAll
BY ResolverStart, ResolverStep, InvLocks, PTL DEF DependencySpec

-----------------------------------------------------------------------------
(* The order of the maps decides nothing: what has a solution does not fail *)

\* Versions for some modules at which taking the highest one everywhere
\* agrees, each module ranked above those it depends on.
Solves(locks, rank) ==
    /\ Follows(locks, asked)
    /\ \A m \in DOMAIN locks :
         /\ Follows(locks, DependsOn[m][locks[m]])
         /\ \A n \in DOMAIN DependsOn[m][locks[m]] : rank[n] < rank[m]

\* The resolution is on its way to a solution: all it has still to resolve is
\* part of it and ranked low enough for the nesting left, and so is all that is
\* locked or about to be fetched.
OnCourse(locks, rank) ==
    /\ stage # "failed"
    /\ \A i \in DOMAIN pending :
         /\ Follows(locks, pending[i])
         /\ \A x \in DOMAIN pending[i] : i + rank[x] <= MaxNesting + 1
    /\ \A x \in DOMAIN lock : x \in DOMAIN locks /\ lock[x] = locks[x]
    /\ stage = "fetching" => /\ target[1] \in DOMAIN locks /\ target[2] = locks[target[1]]
                             /\ target[2] \in whole[target[1]]
                             /\ Len(pending) + rank[target[1]] <= MaxNesting + 1

\* If there is a solution, then the resolution is on its way to it.
NeverStray ==
    quiet => \A M \in SUBSET Module : \A locks \in [M -> Version], rank \in [M -> 0..MaxNesting] :
                Solves(locks, rank) => OnCourse(locks, rank)

\* On course, the module that is located next has a version that fits, and the
\* one that the solution has.
LEMMA LocateOnCourse ==
    ASSUME ResolverInv, NEW M \in SUBSET Module, NEW locks \in [M -> Version],
           NEW rank \in [M -> 0..MaxNesting], OnCourse(locks, rank),
           NEW m \in Module, Locate(m)
    PROVE  OnCourse(locks, rank)'
<1> DEFINE fit == visible[m] \cap Top[m]
           top == Len(pending)
<1>1. /\ stage = "resolving" /\ pending # <<>> /\ m \in DOMAIN Top
      /\ pending \in Seq(Wanted) /\ visible \in [Module -> SUBSET Version]
  BY DEF Locate, ResolverInv, ResolverTypes
<1>2. top \in Nat \ {0} /\ top \in DOMAIN pending /\ Top = pending[top]
  BY <1>1, EmptySeq, LenProperties DEF Top
<1>3. /\ m \in M /\ locks[m] \in fit /\ locks[m] \in whole[m] /\ \A v \in fit : v <= locks[m]
      /\ top + rank[m] <= MaxNesting + 1
  BY <1>1, <1>2 DEF OnCourse, Follows
<1>4. rank[m] \in Nat /\ MaxNesting \in Nat
  BY <1>3, ResolverAssumption
<1>5. ~(top > MaxNesting + 1)
  BY <1>2, <1>3, <1>4
<1>6. Highest(fit) = locks[m]
  <2>1. fit \subseteq Version /\ fit \subseteq Nat
    BY <1>1, ResolverAssumption
  <2>2. IsFiniteSet(fit)
    BY <2>1, ResolverAssumption, FS_Subset
  <2>3. Highest(fit) \in fit /\ locks[m] <= Highest(fit)
    BY <1>3, <2>1, <2>2, HighestExists
  <2>4. Highest(fit) <= locks[m] /\ Highest(fit) \in Nat /\ locks[m] \in Nat
    BY <1>3, <2>1, <2>3
  <2> QED BY <2>3, <2>4
<1>7. m \in DOMAIN lock => lock[m] = Highest(fit)
  BY <1>6 DEF OnCourse
<1>8. stage' = "fetching"
  BY <1>2, <1>3, <1>5, <1>7 DEF Locate
<1>9. ~Fail
  BY <1>8 DEF Fail
<1>10. /\ Len(pending') = top /\ DOMAIN pending' = DOMAIN pending
       /\ \A i \in DOMAIN pending :
            /\ DOMAIN pending'[i] \subseteq DOMAIN pending[i]
            /\ \A x \in DOMAIN pending'[i] : pending'[i][x] = pending[i][x]
       /\ target'[1] = m /\ target'[2] \in Version
       /\ target'[2] \in visible[m] \cap pending[top][m]
       /\ \A w \in visible[m] \cap pending[top][m] : w <= target'[2]
       /\ UNCHANGED <<visible, whole, lock>>
  BY <1>9, LocateEffect DEF ResolverInv
<1> HIDE DEF top
<1>11. target'[2] = locks[m]
  <2>1. target'[2] <= locks[m] /\ locks[m] <= target'[2]
    BY <1>2, <1>3, <1>10
  <2>2. target'[2] \in Nat /\ locks[m] \in Nat
    BY <1>3, <1>10, ResolverAssumption
  <2> HIDE DEF fit
  <2> QED BY <2>1, <2>2
<1>12. ASSUME NEW i \in DOMAIN pending'
       PROVE  /\ Follows(locks, pending[i])'
              /\ \A x \in DOMAIN pending'[i] : i + rank[x] <= MaxNesting + 1
  BY <1>10 DEF OnCourse, Follows
<1> QED BY <1>3, <1>8, <1>10, <1>11, <1>12 DEF OnCourse, top

\* On course, what is fetched is there, and what it depends on is ranked lower.
LEMMA FetchOnCourse ==
    ASSUME ResolverInv, NEW M \in SUBSET Module, NEW locks \in [M -> Version],
           NEW rank \in [M -> 0..MaxNesting], Solves(locks, rank), OnCourse(locks, rank), Fetch
    PROVE  OnCourse(locks, rank)'
<1> DEFINE new == Len(pending) + 1
<1>1. stage' # "failed" /\ ~Fail
  BY DEF Fetch, OnCourse, Fail
<1>2. PICK m \in Module, v \in Version :
        /\ stage = "fetching" /\ stage' = "resolving" /\ target[1] = m /\ target[2] = v
        /\ Len(pending) \in Nat /\ DOMAIN pending' = DOMAIN pending \cup {new}
        /\ pending'[new] = DependsOn[m][v] /\ \A i \in DOMAIN pending : pending'[i] = pending[i]
        /\ DOMAIN lock' = DOMAIN lock \cup {m} /\ lock'[m] = v
        /\ \A n \in DOMAIN lock : lock'[n] = lock[n]
        /\ UNCHANGED <<visible, whole>>
  BY <1>1, FetchEffect DEF ResolverInv
<1>3. m \in M /\ v = locks[m] /\ Len(pending) + rank[m] <= MaxNesting + 1
  BY <1>2 DEF OnCourse
<1>4. /\ Follows(locks, DependsOn[m][v]) /\ DOMAIN DependsOn[m][v] \subseteq M
      /\ \A x \in DOMAIN DependsOn[m][v] : rank[x] < rank[m]
  BY <1>3 DEF Solves, Follows
<1>5. \A x \in DOMAIN DependsOn[m][v] : new + rank[x] <= MaxNesting + 1
  <2> TAKE x \in DOMAIN DependsOn[m][v]
  <2>1. rank[x] \in Nat /\ rank[m] \in Nat /\ rank[x] < rank[m] /\ MaxNesting \in Nat
    BY <1>3, <1>4, ResolverAssumption
  <2> QED BY <1>2, <1>3, <2>1
<1> HIDE DEF new
<1>6. \A w : Follows(locks, w)' <=> Follows(locks, w)
  BY <1>2 DEF Follows
<1>7. ASSUME NEW i \in DOMAIN pending'
      PROVE  /\ Follows(locks, pending[i])'
             /\ \A x \in DOMAIN pending'[i] : i + rank[x] <= MaxNesting + 1
  <2>1. CASE i = new
    BY <1>2, <1>4, <1>5, <2>1 DEF Follows
  <2>2. CASE i \in DOMAIN pending
    BY <1>2, <2>2 DEF OnCourse, Follows
  <2> QED BY <1>2, <2>1, <2>2
<1>8. ASSUME NEW x \in DOMAIN lock' PROVE x \in DOMAIN locks /\ lock'[x] = locks[x]
  BY <1>2, <1>3 DEF OnCourse
<1> QED BY <1>2, <1>7, <1>8 DEF OnCourse

\* A call that returns leaves less to resolve.
LEMMA ReturnOnCourse ==
    ASSUME ResolverInv, NEW locks, NEW rank, OnCourse(locks, rank), Return
    PROVE  OnCourse(locks, rank)'
<1>1. /\ stage' \in {"ok", "resolving"} /\ DOMAIN pending' \subseteq DOMAIN pending
      /\ \A i \in DOMAIN pending' : pending'[i] = pending[i]
      /\ UNCHANGED <<visible, whole, lock>>
  BY ReturnEffect DEF ResolverInv
<1> QED BY <1>1 DEF OnCourse, Follows

\* No step leaves the way to a solution.
LEMMA StrayStep ==
    ASSUME ResolverInv, NeverStray, [DependencyNext]_dependencyVars
    PROVE  NeverStray'
<1> SUFFICES ASSUME quiet', NEW M \in SUBSET Module, NEW locks \in [M -> Version],
                    NEW rank \in [M -> 0..MaxNesting], Solves(locks, rank)'
             PROVE  OnCourse(locks, rank)'
  BY DEF NeverStray
<1>1. ASSUME quiet, UNCHANGED <<visible, whole, asked>>
      PROVE  Solves(locks, rank) /\ OnCourse(locks, rank)
  <2>1. Solves(locks, rank)
    BY <1>1 DEF Solves, Follows
  <2> QED BY <1>1, <2>1 DEF NeverStray
<1>2. ASSUME NEW w, Resolve(w) PROVE OnCourse(locks, rank)'
  <2>1. /\ stage' = "resolving" /\ asked' = w /\ pending' = <<w>> /\ lock' = EmptyMap
        /\ UNCHANGED <<visible, whole>>
    BY <1>2 DEF Resolve
  <2>2. DOMAIN pending' = {1} /\ pending'[1] = w /\ DOMAIN lock' = {}
    BY <2>1 DEF EmptyMap
  <2>3. Follows(locks, w)' /\ DOMAIN w \subseteq M
    BY <2>1 DEF Solves, Follows
  <2>4. \A x \in DOMAIN w : 1 + rank[x] <= MaxNesting + 1
    BY <2>3, ResolverAssumption
  <2> QED BY <2>1, <2>2, <2>3, <2>4 DEF OnCourse
<1>3. ASSUME NEW m \in Module, Locate(m) PROVE OnCourse(locks, rank)'
  <2>1. UNCHANGED <<visible, whole, asked, quiet>>
    BY <1>3 DEF Locate, Fail
  <2> QED BY <1>1, <1>3, <2>1, LocateOnCourse
<1>4. CASE Fetch
  <2>1. UNCHANGED <<visible, whole, asked, quiet>>
    BY <1>4 DEF Fetch, Fail
  <2> QED BY <1>1, <1>4, <2>1, FetchOnCourse
<1>5. CASE Return
  <2>1. UNCHANGED <<visible, whole, asked, quiet>>
    BY <1>5 DEF Return
  <2> QED BY <1>1, <1>5, <2>1, ReturnOnCourse
<1>6. ASSUME UNCHANGED <<visible, whole, stage, asked, pending, target, lock, quiet>>
      PROVE  OnCourse(locks, rank)'
  <2>1. OnCourse(locks, rank)
    BY <1>1, <1>6
  <2> QED BY <1>6, <2>1 DEF OnCourse, Follows
<1>7. CASE UNCHANGED dependencyVars
  BY <1>6, <1>7 DEF dependencyVars
<1>8. CASE Audit
  BY <1>6, <1>8 DEF Audit
<1>9. ASSUME NEW a \in Additions, Add(a[1], a[2]) PROVE OnCourse(locks, rank)'
  BY <1>6, <1>9 DEF Add
<1>10. ASSUME NEW m \in Module, Withdraw(m) PROVE OnCourse(locks, rank)'
  BY <1>6, <1>10 DEF Withdraw
<1>11. ASSUME NEW u \in Upcoming, Announce(u[1], u[2]) \/ Complete(u[1], u[2])
       PROVE  FALSE
  BY <1>11 DEF Announce, Complete
<1> QED BY <1>2, <1>3, <1>4, <1>5, <1>7, <1>8, <1>9, <1>10, <1>11 DEF DependencyNext

-----------------------------------------------------------------------------
(* The order of the maps decides nothing: what succeeds is a solution *)

\* What a locked module depends on.
Needs(m) == DOMAIN DependsOn[m][lock[m]]

\* rank is the length of the longest chain of dependencies below a module, for
\* modules of which all is resolved.
Ranked(rank) ==
    \A m \in DOMAIN rank :
       /\ \A n \in Needs(m) : n \in DOMAIN rank /\ rank[n] < rank[m]
       /\ rank[m] > 0 => \E n \in Needs(m) : rank[m] = rank[n] + 1

\* Every open call but the outermost resolves for the locked module that owns
\* it: what that module needs is still to be resolved, or resolved by the call
\* above, or about to be fetched, or ranked low enough for the nesting left.
Resolved(rank, owner, i, x) ==
    \/ x \in DOMAIN pending[i]
    \/ i + 1 \in DOMAIN pending /\ x = owner[i + 1]
    \/ i = Len(pending) /\ stage = "fetching" /\ x = target[1]
    \/ x \in DOMAIN rank /\ i + rank[x] <= MaxNesting + 1
Owned(rank, owner) ==
    /\ Len(pending) <= MaxNesting + 2
    /\ stage = "fetching" => Len(pending) \in 1..(MaxNesting + 1)
    /\ \A x \in DOMAIN lock : x \in DOMAIN rank \/ \E i \in 2..Len(pending) : owner[i] = x
    /\ \A i \in 2..Len(pending) : \A x \in Needs(owner[i]) : Resolved(rank, owner, i, x)

\* Every locked module is ranked, or owns a call that is open.
AllOwned ==
    Working => \E D \in SUBSET DOMAIN lock :
               \E rank \in [D -> 0..MaxNesting], owner \in [2..Len(pending) -> DOMAIN lock] :
                  Ranked(rank) /\ Owned(rank, owner)

\* Nothing is locked yet when the outermost call begins.
LEMMA ResolveOwned ==
    ASSUME NEW w, Resolve(w)
    PROVE  AllOwned'
<1>1. pending' = <<w>> /\ lock' = EmptyMap /\ stage' = "resolving"
  BY DEF Resolve
<1>2. Len(pending') = 1 /\ DOMAIN lock' = {} /\ 2..1 = {}
  BY <1>1 DEF EmptyMap
<1>3. PICK none : none = [x \in {} |-> 0]
  OBVIOUS
<1>4. none \in [{} -> 0..MaxNesting] /\ none \in [2..Len(pending') -> DOMAIN lock'] /\ DOMAIN none = {}
  BY <1>2, <1>3
<1>5. Ranked(none)' /\ Owned(none, none)'
  <2>1. 1 <= MaxNesting + 2
    BY ResolverAssumption
  <2> QED BY <1>1, <1>2, <1>4, <2>1 DEF Ranked, Owned
<1> QED BY <1>2, <1>4, <1>5 DEF AllOwned

\* What is taken off the innermost call is about to be fetched.
LEMMA LocateOwned ==
    ASSUME ResolverInv, AllOwned, NEW m \in Module, Locate(m), ~Fail
    PROVE  AllOwned'
<1> DEFINE top == Len(pending)
<1>1. /\ stage = "resolving" /\ stage' = "fetching" /\ top \in 1..(MaxNesting + 1)
      /\ DOMAIN pending = 1..top /\ Len(pending') = top /\ DOMAIN pending' = DOMAIN pending
      /\ \A i \in DOMAIN pending : DOMAIN pending'[i] = DOMAIN pending[i] \ (IF i = top THEN {m} ELSE {})
      /\ target'[1] = m /\ lock' = lock
  BY LocateEffect, ResolverAssumption DEF ResolverInv
<1>2. PICK D \in SUBSET DOMAIN lock :
      \E rank \in [D -> 0..MaxNesting], owner \in [2..top -> DOMAIN lock] :
         Ranked(rank) /\ Owned(rank, owner)
  BY <1>1 DEF AllOwned, Working
<1>3. PICK rank \in [D -> 0..MaxNesting], owner \in [2..top -> DOMAIN lock] :
         Ranked(rank) /\ Owned(rank, owner)
  BY <1>2
<1>4. Ranked(rank)'
  BY <1>1, <1>3 DEF Ranked, Needs
<1>5. ASSUME NEW i \in 2..top, NEW x \in Needs(owner[i]) PROVE Resolved(rank, owner, i, x)'
  <2>1. Resolved(rank, owner, i, x) /\ i \in DOMAIN pending
    BY <1>1, <1>3 DEF Owned
  <2>2. CASE x \in DOMAIN pending[i]
    <3>1. CASE i = top /\ x = m
      BY <1>1, <3>1 DEF Resolved
    <3>2. CASE i # top \/ x # m
      <4>1. x \in DOMAIN pending'[i]
        BY <1>1, <2>1, <2>2, <3>2
      <4> QED BY <4>1 DEF Resolved
    <3> QED BY <3>1, <3>2
  <2>3. CASE x \notin DOMAIN pending[i]
    BY <1>1, <2>1, <2>3 DEF Resolved
  <2> QED BY <2>2, <2>3
<1>6. Owned(rank, owner)'
  <2>1. top <= MaxNesting + 2
    BY <1>3 DEF Owned
  <2>2. \A x \in DOMAIN lock : x \in DOMAIN rank \/ \E i \in 2..top : owner[i] = x
    BY <1>3 DEF Owned
  <2> HIDE DEF top
  <2> QED BY <1>1, <1>5, <2>1, <2>2 DEF Owned, Needs
<1>7. D \in SUBSET DOMAIN lock' /\ owner \in [2..Len(pending') -> DOMAIN lock']
  BY <1>1
<1> QED BY <1>4, <1>6, <1>7 DEF AllOwned

\* What was about to be fetched owns the call that it opens.
LEMMA FetchOwned ==
    ASSUME ResolverInv, AllOwned, Fetch, ~Fail
    PROVE  AllOwned'
<1>0. PICK top, new : top = Len(pending) /\ new = top + 1
  OBVIOUS
<1>1. PICK m \in Module, v \in Version :
        /\ stage = "fetching" /\ stage' = "resolving" /\ target[1] = m
        /\ top \in Nat /\ DOMAIN pending = 1..top /\ Len(pending') = new
        /\ DOMAIN pending' = DOMAIN pending \cup {new}
        /\ pending'[new] = DependsOn[m][v] /\ \A i \in DOMAIN pending : pending'[i] = pending[i]
        /\ DOMAIN lock' = DOMAIN lock \cup {m} /\ lock'[m] = v
        /\ \A n \in DOMAIN lock : lock'[n] = lock[n]
  BY <1>0, FetchEffect DEF ResolverInv
<1>2. PICK D \in SUBSET DOMAIN lock :
      \E rank \in [D -> 0..MaxNesting], owner \in [2..top -> DOMAIN lock] :
         Ranked(rank) /\ Owned(rank, owner)
  BY <1>0, <1>1 DEF AllOwned, Working
<1>3. PICK rank \in [D -> 0..MaxNesting], owner \in [2..top -> DOMAIN lock] :
         Ranked(rank) /\ Owned(rank, owner)
  BY <1>2
<1>4. top \in 1..(MaxNesting + 1) /\ new <= MaxNesting + 2 /\ new \notin 1..top
      /\ 2..new = 2..top \cup {new} /\ new \notin 2..top
  BY <1>0, <1>1, <1>3, ResolverAssumption DEF Owned
<1>5. Ranked(rank)'
  BY <1>1, <1>3 DEF Ranked, Needs
<1>6. PICK more : more = [i \in 2..new |-> IF i = new THEN m ELSE owner[i]]
  OBVIOUS
<1>7. /\ more \in [2..Len(pending') -> DOMAIN lock'] /\ more[new] = m
      /\ \A i \in 2..top : more[i] = owner[i]
  BY <1>1, <1>4, <1>6
<1>8. ASSUME NEW i \in 2..top, NEW x \in Needs(owner[i]) PROVE Resolved(rank, more, i, x)'
  <2>1. Resolved(rank, owner, i, x) /\ i \in DOMAIN pending /\ pending'[i] = pending[i]
    BY <1>0, <1>1, <1>3 DEF Owned
  <2>2. CASE x \in DOMAIN pending[i]
    BY <2>1, <2>2 DEF Resolved
  <2>3. CASE i + 1 \in DOMAIN pending /\ x = owner[i + 1]
    <3>1. i + 1 \in 2..top
      BY <1>1, <2>3
    <3> QED BY <1>1, <1>7, <2>3, <3>1 DEF Resolved
  <2>4. CASE i = top /\ x = m
    <3>1. i + 1 = new
      BY <1>0, <2>4
    <3> QED BY <1>1, <1>7, <2>4, <3>1 DEF Resolved
  <2>5. CASE x \in DOMAIN rank /\ i + rank[x] <= MaxNesting + 1
    BY <2>5 DEF Resolved
  <2> QED BY <1>0, <1>1, <2>1, <2>2, <2>3, <2>4, <2>5 DEF Resolved
<1>9. ASSUME NEW x \in DOMAIN DependsOn[m][v] PROVE Resolved(rank, more, new, x)'
  BY <1>1, <1>9 DEF Resolved
<1>10. ASSUME NEW i \in 2..new, NEW x, (x \in Needs(more[i]))' PROVE Resolved(rank, more, i, x)'
  <2>1. CASE i = new
    BY <1>1, <1>7, <1>9, <1>10, <2>1 DEF Needs
  <2>2. CASE i # new
    <3>1. i \in 2..top /\ owner[i] \in DOMAIN lock /\ more[i] = owner[i]
      BY <1>4, <1>7, <2>2
    <3> QED BY <1>1, <1>8, <1>10, <3>1 DEF Needs
  <2> QED BY <2>1, <2>2
<1>11. ASSUME NEW x \in DOMAIN lock' PROVE x \in DOMAIN rank \/ \E i \in 2..new : more[i] = x
  <2>1. CASE x = m
    BY <1>4, <1>7, <2>1
  <2>2. CASE x \in DOMAIN lock
    BY <1>0, <1>3, <1>4, <1>7, <2>2 DEF Owned
  <2> QED BY <1>1, <2>1, <2>2
<1>12. Owned(rank, more)'
  BY <1>1, <1>4, <1>10, <1>11 DEF Owned
<1>13. D \in SUBSET DOMAIN lock'
  BY <1>1
<1> QED BY <1>5, <1>7, <1>12, <1>13 DEF AllOwned

\* A module of which all is resolved can be ranked: right above what it needs.
LEMMA RankedAbove ==
    ASSUME NEW D \in SUBSET DOMAIN lock, NEW rank \in [D -> 0..MaxNesting], Ranked(rank),
           NEW m \in DOMAIN lock, NEW depth \in 2..(MaxNesting + 2),
           \A n \in Needs(m) : n \in D /\ depth + rank[n] <= MaxNesting + 1
    PROVE  \E above :
             /\ DOMAIN above \subseteq DOMAIN lock /\ above \in [DOMAIN above -> 0..MaxNesting]
             /\ Ranked(above) /\ D \subseteq DOMAIN above /\ \A n \in D : above[n] = rank[n]
             /\ m \in DOMAIN above /\ depth - 1 + above[m] <= MaxNesting + 1
<1>1. MaxNesting \in Nat /\ \A n \in D : rank[n] \in Nat
  BY ResolverAssumption
<1>2. CASE m \in D
  <2>1. depth - 1 + rank[m] <= MaxNesting + 1
    <3>1. CASE rank[m] = 0
      BY <1>1, <3>1
    <3>2. CASE rank[m] # 0
      <4>1. rank[m] > 0 /\ m \in DOMAIN rank
        BY <1>1, <1>2, <3>2
      <4>2. PICK n \in Needs(m) : rank[m] = rank[n] + 1
        BY <4>1 DEF Ranked
      <4>3. n \in D /\ rank[n] \in Nat /\ depth + rank[n] <= MaxNesting + 1
        BY <1>1, <4>2
      <4> QED BY <1>1, <4>2, <4>3
    <3> QED BY <3>1, <3>2
  <2> QED BY <1>2, <2>1
<1>3. CASE m \notin D
  <2> DEFINE S == {rank[n] + 1 : n \in Needs(m)}
  <2>1. PICK r : r = IF S = {} THEN 0 ELSE Highest(S)
    OBVIOUS
  <2>2. S \subseteq 1..MaxNesting
    <3> SUFFICES ASSUME NEW n \in Needs(m) PROVE rank[n] + 1 \in 1..MaxNesting
      OBVIOUS
    <3>1. n \in D /\ rank[n] \in Nat /\ depth + rank[n] <= MaxNesting + 1
      BY <1>1
    <3> QED BY <1>1, <3>1
  <2>3. S \subseteq Nat /\ IsFiniteSet(S)
    <3>1. IsFiniteSet(1..MaxNesting)
      BY <1>1, FS_Interval
    <3>2. S \subseteq Nat
      BY <2>2
    <3> QED BY <2>2, <3>1, <3>2, FS_Subset
  <2>4. /\ \A n \in Needs(m) : rank[n] < r
        /\ r > 0 => \E n \in Needs(m) : r = rank[n] + 1
        /\ r \in 0..MaxNesting /\ depth - 1 + r <= MaxNesting + 1
    <3>1. CASE S = {}
      <4>1. Needs(m) = {} /\ r = 0
        BY <2>1, <3>1
      <4> QED BY <1>1, <4>1
    <3>2. CASE S # {}
      <4>1. r \in S /\ \A w \in S : w <= r
        BY <2>1, <2>3, <3>2, HighestExists
      <4>2. PICK n \in Needs(m) : r = rank[n] + 1
        BY <4>1
      <4>3. ASSUME NEW k \in Needs(m) PROVE rank[k] < r
        <5>1. rank[k] + 1 <= r /\ rank[k] \in Nat /\ r \in Nat
          BY <1>1, <2>2, <4>1
        <5> QED BY <5>1
      <4>4. n \in D /\ rank[n] \in Nat /\ depth + rank[n] <= MaxNesting + 1
        BY <1>1, <4>2
      <4>5. r \in 0..MaxNesting /\ depth - 1 + r <= MaxNesting + 1
        BY <1>1, <4>2, <4>4
      <4> QED BY <4>2, <4>3, <4>5
    <3> QED BY <3>1, <3>2
  <2> HIDE DEF S
  <2>5. PICK above : above = [n \in D \cup {m} |-> IF n = m THEN r ELSE rank[n]]
    OBVIOUS
  <2>6. /\ DOMAIN above = D \cup {m} /\ DOMAIN above \subseteq DOMAIN lock
        /\ above \in [DOMAIN above -> 0..MaxNesting] /\ above[m] = r
        /\ \A n \in D : above[n] = rank[n]
    BY <1>3, <2>4, <2>5
  <2>7. ASSUME NEW n \in DOMAIN above
        PROVE  /\ \A k \in Needs(n) : k \in DOMAIN above /\ above[k] < above[n]
               /\ above[n] > 0 => \E k \in Needs(n) : above[n] = above[k] + 1
    <3>1. CASE n = m
      <4>1. \A k \in Needs(m) : k \in DOMAIN above /\ above[k] = rank[k]
        BY <2>5, <2>6
      <4> QED BY <2>4, <2>6, <3>1, <4>1
    <3>2. CASE n # m
      <4>1. n \in D /\ n \in DOMAIN rank /\ above[n] = rank[n]
        BY <2>5, <2>6, <3>2
      <4>2. \A k \in Needs(n) : k \in DOMAIN above /\ above[k] = rank[k]
        BY <2>5, <2>6, <4>1 DEF Ranked
      <4> QED BY <4>1, <4>2 DEF Ranked
    <3> QED BY <3>1, <3>2
  <2>8. Ranked(above)
    BY <2>7 DEF Ranked
  <2> QED BY <2>4, <2>5, <2>6, <2>8
<1> QED BY <1>2, <1>3

\* A call that returns leaves its owner ranked.
LEMMA ReturnOwned ==
    ASSUME ResolverInv, AllOwned, Return
    PROVE  AllOwned'
<1>0. PICK top : top = Len(pending)
  OBVIOUS
<1>1. /\ stage = "resolving" /\ stage' # "fetching"
      /\ top \in Nat \ {0} /\ DOMAIN pending = 1..top /\ DOMAIN pending[top] = {}
      /\ Len(pending') = top - 1 /\ DOMAIN pending' = DOMAIN pending \ {top}
      /\ \A i \in DOMAIN pending' : pending'[i] = pending[i]
      /\ lock' = lock
  BY <1>0, ReturnEffect DEF ResolverInv, EmptyMap
<1>2. PICK D \in SUBSET DOMAIN lock :
      \E rank \in [D -> 0..MaxNesting], owner \in [2..top -> DOMAIN lock] :
         Ranked(rank) /\ Owned(rank, owner)
  BY <1>0, <1>1 DEF AllOwned, Working
<1>3. PICK rank \in [D -> 0..MaxNesting], owner \in [2..top -> DOMAIN lock] :
         Ranked(rank) /\ Owned(rank, owner)
  BY <1>2
<1>4. /\ top <= MaxNesting + 2 /\ MaxNesting \in Nat
      /\ \A x \in DOMAIN lock : x \in DOMAIN rank \/ \E i \in 2..top : owner[i] = x
      /\ \A i \in 2..top : \A x \in Needs(owner[i]) : Resolved(rank, owner, i, x)
  BY <1>0, <1>3, ResolverAssumption DEF Owned
<1>5. CASE top = 1
  <2>1. 2..top = {} /\ 2..(top - 1) = {} /\ top - 1 <= MaxNesting + 2
    BY <1>4, <1>5
  <2>2. Ranked(rank)'
    BY <1>1, <1>3 DEF Ranked, Needs
  <2>3. Owned(rank, owner)'
    BY <1>1, <1>4, <2>1 DEF Owned
  <2>4. owner \in [2..Len(pending') -> DOMAIN lock'] /\ D \in SUBSET DOMAIN lock'
    BY <1>1, <2>1
  <2> QED BY <2>2, <2>3, <2>4 DEF AllOwned
<1>6. CASE top # 1
  <2>1. top \in 2..(MaxNesting + 2) /\ 2..top = 2..(top - 1) \cup {top} /\ top - 1 <= MaxNesting + 2
    BY <1>1, <1>4, <1>6
  <2>2. PICK m \in DOMAIN lock : m = owner[top]
    BY <2>1
  <2>3. ASSUME NEW n \in Needs(m) PROVE n \in D /\ top + rank[n] <= MaxNesting + 1
    <3>1. Resolved(rank, owner, top, n) /\ top + 1 \notin DOMAIN pending
      BY <1>1, <1>4, <2>1, <2>2
    <3> QED BY <1>1, <3>1 DEF Resolved
  <2>4. PICK above :
          /\ DOMAIN above \subseteq DOMAIN lock /\ above \in [DOMAIN above -> 0..MaxNesting]
          /\ Ranked(above) /\ D \subseteq DOMAIN above /\ \A n \in D : above[n] = rank[n]
          /\ m \in DOMAIN above /\ top - 1 + above[m] <= MaxNesting + 1
    <3>1. PICK depth \in 2..(MaxNesting + 2) : depth = top
      BY <2>1
    <3>2. \A n \in Needs(m) : n \in D /\ depth + rank[n] <= MaxNesting + 1
      BY <2>3, <3>1
    <3>3. \E above :
            /\ DOMAIN above \subseteq DOMAIN lock /\ above \in [DOMAIN above -> 0..MaxNesting]
            /\ Ranked(above) /\ D \subseteq DOMAIN above /\ \A n \in D : above[n] = rank[n]
            /\ m \in DOMAIN above /\ depth - 1 + above[m] <= MaxNesting + 1
      BY <1>3, <3>2, RankedAbove
    <3> QED BY <3>1, <3>3
  <2>5. Ranked(above)'
    BY <1>1, <2>4 DEF Ranked, Needs
  <2>6. PICK rest : rest = [i \in 2..(top - 1) |-> owner[i]]
    OBVIOUS
  <2>7. rest \in [2..Len(pending') -> DOMAIN lock'] /\ \A i \in 2..(top - 1) : rest[i] = owner[i]
    BY <1>1, <2>1, <2>6
  <2>8. ASSUME NEW i \in 2..(top - 1), NEW x \in Needs(owner[i]) PROVE Resolved(above, rest, i, x)'
    <3>1. /\ Resolved(rank, owner, i, x) /\ i \in DOMAIN pending' /\ pending'[i] = pending[i]
          /\ i \in Nat /\ i # top
      BY <1>1, <1>4, <2>1
    <3>2. CASE x \in DOMAIN pending[i]
      BY <3>1, <3>2 DEF Resolved
    <3>3. CASE i + 1 \in DOMAIN pending /\ x = owner[i + 1]
      <4>1. CASE i + 1 = top
        <5>1. x = m /\ i = top - 1
          BY <1>1, <2>2, <3>1, <3>3, <4>1
        <5>2. x \in DOMAIN above /\ i + above[x] <= MaxNesting + 1
          BY <2>4, <5>1
        <5> QED BY <5>2 DEF Resolved
      <4>2. CASE i + 1 # top
        <5>1. i + 1 \in 2..(top - 1) /\ i + 1 \in DOMAIN pending'
          BY <1>1, <3>1, <3>3, <4>2
        <5> QED BY <2>7, <3>3, <5>1 DEF Resolved
      <4> QED BY <4>1, <4>2
    <3>4. CASE x \in DOMAIN rank /\ i + rank[x] <= MaxNesting + 1
      BY <2>4, <3>4 DEF Resolved
    <3> QED BY <1>1, <3>1, <3>2, <3>3, <3>4 DEF Resolved
  <2>9. ASSUME NEW x \in DOMAIN lock PROVE x \in DOMAIN above \/ \E i \in 2..(top - 1) : rest[i] = x
    <3>1. CASE x \in DOMAIN rank
      BY <2>4, <3>1
    <3>2. ASSUME NEW i \in 2..top, owner[i] = x
          PROVE  x \in DOMAIN above \/ \E k \in 2..(top - 1) : rest[k] = x
      BY <2>1, <2>2, <2>4, <2>7, <3>2
    <3> QED BY <1>4, <3>1, <3>2
  <2>10. ASSUME NEW i \in 2..(top - 1), NEW x \in Needs(rest[i])' PROVE Resolved(above, rest, i, x)'
    BY <1>1, <2>7, <2>8 DEF Needs
  <2>11. Owned(above, rest)'
    BY <1>1, <2>1, <2>9, <2>10 DEF Owned
  <2>12. DOMAIN above \in SUBSET DOMAIN lock' /\ above \in [DOMAIN above -> 0..MaxNesting]
    BY <1>1, <2>4
  <2> QED BY <2>5, <2>7, <2>11, <2>12 DEF AllOwned
<1> QED BY <1>5, <1>6

\* Every step leaves each locked module ranked or owning an open call.
LEMMA OwnedStep ==
    ASSUME ResolverInv, AllOwned, [DependencyNext]_dependencyVars
    PROVE  AllOwned'
<1>1. ASSUME Fail PROVE AllOwned'
  BY <1>1 DEF Fail, AllOwned, Working
<1>2. ASSUME UNCHANGED <<stage, pending, target, lock>> PROVE AllOwned'
  <2>1. \A rank : Ranked(rank) <=> Ranked(rank)'
    BY <1>2 DEF Ranked, Needs
  <2>2. \A rank, owner, i, x : Resolved(rank, owner, i, x) <=> Resolved(rank, owner, i, x)'
    BY <1>2 DEF Resolved
  <2>3. \A rank, owner : Owned(rank, owner) <=> Owned(rank, owner)'
    BY <1>2, <2>2 DEF Owned, Needs
  <2> QED BY <1>2, <2>1, <2>3 DEF AllOwned, Working
<1>3. CASE UNCHANGED dependencyVars
  BY <1>2, <1>3 DEF dependencyVars
<1>4. CASE Audit
  BY <1>2, <1>4 DEF Audit
<1>5. ASSUME NEW a \in Additions, Add(a[1], a[2]) PROVE AllOwned'
  BY <1>2, <1>5 DEF Add
<1>6. ASSUME NEW m \in Module, Withdraw(m) PROVE AllOwned'
  BY <1>2, <1>6 DEF Withdraw
<1>7. ASSUME NEW u \in Upcoming, Announce(u[1], u[2]) \/ Complete(u[1], u[2]) PROVE AllOwned'
  BY <1>2, <1>7 DEF Announce, Complete
<1> QED BY <1>1, <1>3, <1>4, <1>5, <1>6, <1>7, ResolveOwned, LocateOwned, FetchOwned, ReturnOwned
        DEF DependencyNext

-----------------------------------------------------------------------------
(* The verdict *)

\* What succeeds with nothing published meanwhile is a solution.
LEMMA SuccessSolves ==
    ASSUME ResolverInv, AllOwned, quiet, stage = "ok"
    PROVE  Solvable
<1>1. pending = <<>> /\ Working
  BY DEF ResolverInv, LockSteady, Working
<1>2. Len(pending) = 0 /\ DOMAIN pending = {} /\ 2..Len(pending) = {}
  BY <1>1
<1>3. /\ DOMAIN lock \in SUBSET Module /\ lock \in [DOMAIN lock -> Version]
      /\ \A m \in DOMAIN lock : lock[m] \in whole[m]
  BY DEF ResolverInv, ResolverTypes, LockSteady, IsMap
<1>4. ASSUME NEW w, \A x \in DOMAIN w : Due(x, w[x])
      PROVE  Follows(lock, w)
  BY <1>2, <1>3, <1>4 DEF Follows, Due, Fine
<1>5. /\ Follows(lock, asked)
      /\ \A m \in DOMAIN lock : Follows(lock, DependsOn[m][lock[m]])
  BY <1>1, <1>4 DEF ResolverInv, NothingForgotten
<1>6. PICK D \in SUBSET DOMAIN lock :
      \E rank \in [D -> 0..MaxNesting], owner \in [2..Len(pending) -> DOMAIN lock] :
         Ranked(rank) /\ Owned(rank, owner)
  BY <1>1 DEF AllOwned
<1>7. PICK rank \in [D -> 0..MaxNesting], owner \in [2..Len(pending) -> DOMAIN lock] :
         Ranked(rank) /\ Owned(rank, owner)
  BY <1>6
<1>8. D = DOMAIN lock
  BY <1>2, <1>7 DEF Owned
<1>9. Greedy(lock)
  BY <1>5, <1>7, <1>8 DEF Greedy, Ranked, Needs
<1> QED BY <1>3, <1>5, <1>9 DEF Solvable

\* What has a solution has not failed, with nothing published meanwhile.
LEMMA SolvableSucceeds ==
    ASSUME NeverStray, quiet, Solvable
    PROVE  stage # "failed"
<1>1. PICK M \in SUBSET Module : \E locks \in [M -> Version] : Follows(locks, asked) /\ Greedy(locks)
  BY DEF Solvable
<1>2. PICK locks \in [M -> Version] : Follows(locks, asked) /\ Greedy(locks)
  BY <1>1
<1>3. PICK rank \in [M -> 0..MaxNesting] : Solves(locks, rank)
  BY <1>2 DEF Greedy, Solves
<1>4. OnCourse(locks, rank)
  BY <1>2, <1>3 DEF NeverStray
<1> QED BY <1>4 DEF OnCourse

\* For any registry, manifests, projects and nesting allowed, and any order in
\* which the hash maps of dependencies are gone through: with nothing published
\* meanwhile a resolution that ends has succeeded just when the highest
\* versions everywhere agree and nest no deeper than is allowed.
THEOREM VerdictAlwaysOrderFree == DependencySpec => []VerdictOrderFree
<1> DEFINE I == ResolverInv /\ NeverStray /\ AllOwned
<1>1. DependencyInit => I
  <2> SUFFICES ASSUME DependencyInit PROVE I
    OBVIOUS
  <2>1. stage = "idle" /\ DOMAIN pending = {} /\ DOMAIN lock = {}
    BY DEF DependencyInit, EmptyMap
  <2>2. NeverStray /\ AllOwned
    BY <2>1 DEF NeverStray, OnCourse, AllOwned, Working
  <2> QED BY <2>2, ResolverStart
<1>2. I /\ [DependencyNext]_dependencyVars => I'
  BY ResolverStep, StrayStep, OwnedStep
<1>3. I => VerdictOrderFree
  BY SuccessSolves, SolvableSucceeds DEF VerdictOrderFree
<1> QED BY <1>1, <1>2, <1>3, PTL DEF DependencySpec

-----------------------------------------------------------------------------
(* Bridges in the file format *)

\* The cells of a file: the header, one to three parts, and the hash of these.
LEMMA BytesShape ==
    ASSUME NEW p
    PROVE  /\ PartsOf(p) \in 1..3
           /\ ToBytes(p) \in Seq(Range(ToBytes(p))) /\ Len(ToBytes(p)) = PartsOf(p) + 2
           /\ ToBytes(p)[1] = Header(p)
           /\ \A i \in 2..(PartsOf(p) + 1) : ToBytes(p)[i] = [cell |-> "part", of |-> p, part |-> i - 1]
           /\ ToBytes(p)[PartsOf(p) + 2] = Hash(SubSeq(ToBytes(p), 1, PartsOf(p) + 1))
           /\ Len(SubSeq(ToBytes(p), 1, PartsOf(p) + 1)) = PartsOf(p) + 1
           /\ Deserialized(Tail(SubSeq(ToBytes(p), 1, PartsOf(p) + 1))) = p
<1> DEFINE n == PartsOf(p)
           S == {Header(p)} \cup {Payload(p)[i] : i \in 1..n}
           body == <<Header(p)>> \o Payload(p)
           b == ToBytes(p)
           T == S \cup {Hash(body)}
<1>1. n \in 1..3 /\ n \in Nat
  BY DEF PartsOf
<1>2. Payload(p) \in Seq(S) /\ Len(Payload(p)) = n
  BY <1>1 DEF Payload
<1>3. /\ body \in Seq(S) /\ Len(body) = n + 1 /\ body[1] = Header(p)
      /\ \A i \in 2..(n + 1) : body[i] = Payload(p)[i - 1]
  <2>1. <<Header(p)>> \in Seq(S) /\ Len(<<Header(p)>>) = 1 /\ <<Header(p)>>[1] = Header(p)
    BY DEF Header
  <2> HIDE DEF S, n
  <2> QED BY <1>1, <1>2, <2>1, ConcatProperties, IsASeq
<1>4. /\ b = Append(body, Hash(body)) /\ body \in Seq(T) /\ Hash(body) \in T
  BY <1>3, SeqMonotonic DEF ToBytes
<1> HIDE DEF b, body, S, T, n
<1>5. /\ b \in Seq(T) /\ Len(b) = n + 2 /\ b[n + 2] = Hash(body)
      /\ \A i \in 1..(n + 1) : b[i] = body[i]
  BY <1>1, <1>3, <1>4, AppendProperties
<1>6. SubSeq(b, 1, n + 1) = body
  <2>1. \A i \in 1..(n + 1) : b[i] \in T
    BY <1>1, <1>5, ElementOfSeq
  <2>2. /\ SubSeq(b, 1, n + 1) \in Seq(T) /\ Len(SubSeq(b, 1, n + 1)) = n + 1
        /\ \A i \in 1..(n + 1) : SubSeq(b, 1, n + 1)[i] = b[i]
    BY <1>1, <2>1, SubSeqProperties
  <2> QED BY <1>1, <1>3, <1>4, <1>5, <2>2, SeqEqual
<1>7. b \in Seq(Range(b))
  BY <1>5, SeqOfRange
<1>8. \A i \in 2..(n + 1) : b[i] = [cell |-> "part", of |-> p, part |-> i - 1]
  <2>1. \A i \in 1..n : Payload(p)[i] = [cell |-> "part", of |-> p, part |-> i]
    BY DEF Payload, n
  <2> QED BY <1>1, <1>3, <1>5, <2>1
<1>9. b[1] = Header(p) /\ b[n + 2] = Hash(SubSeq(b, 1, n + 1))
  <2>1. 1 \in 1..(n + 1)
    BY <1>1
  <2> QED BY <1>3, <1>5, <1>6, <2>1
<1>10. Deserialized(Tail(body)) = p
  <2>1. body # <<>>
    BY <1>1, <1>3, EmptySeq
  <2>2. /\ Tail(body) \in Seq(S) /\ Len(Tail(body)) = n
        /\ \A i \in 1..n : Tail(body)[i] = body[i + 1]
    BY <1>1, <1>3, <2>1, HeadTailProperties
  <2>3. \A i \in 1..n : Tail(body)[i] = Payload(p)[i]
    BY <1>1, <1>3, <2>2
  <2>4. Tail(body) = Payload(p)
    BY <1>2, <2>2, <2>3, SeqEqual
  <2>5. 1 \in 1..n
    BY <1>1
  <2>6. Payload(p)[1].of = p
    BY <2>5 DEF Payload, n
  <2> QED BY <2>4, <2>6 DEF Deserialized
<1> QED BY <1>1, <1>3, <1>5, <1>6, <1>7, <1>8, <1>9, <1>10 DEF n, b

\* What was written whole is read back.
LEMMA ReadBack == \A p : FromBytes(ToBytes(p)) = p
<1> SUFFICES ASSUME NEW p PROVE FromBytes(ToBytes(p)) = p
  OBVIOUS
<1> DEFINE b == ToBytes(p)
           n == PartsOf(p)
           body == SubSeq(b, 1, n + 1)
<1>1. /\ n \in 1..3 /\ Len(b) = n + 2 /\ b[1] = Header(p) /\ b[n + 2] = Hash(body)
      /\ Len(body) = n + 1 /\ Deserialized(Tail(body)) = p
  BY BytesShape
<1>2. /\ b[1].cell = "header" /\ b[1].version = Current /\ b[1].length = n /\ b[1].counts = Counts(p)
  BY <1>1 DEF Header
<1>3. Compatible(Current)
  BY DEF Compatible, Current
<1>4. ~(Len(b) < 3) /\ ~(Len(b) < b[1].length + 2) /\ Len(body) + 1 = n + 2
  BY <1>1, <1>2
<1> HIDE DEF b, n
<1>5. FromBytes(b) = p
  BY <1>1, <1>2, <1>3, <1>4 DEF FromBytes
<1> QED BY <1>5 DEF b

-----------------------------------------------------------------------------
(* The processes that write bridges *)

\* What a process may have in the file: it has wrapped everything, and does not
\* change its graph any more.
Writes(q) == doing[q] \in {"writing", "done", "cut"} /\ left[q] = <<>>

BridgeTypes ==
    /\ doing \in [Bridger -> {"idle", "bridging", "writing", "done", "failed", "cut"}]
    /\ DOMAIN left = Bridger /\ DOMAIN made = Bridger /\ written \in [Bridger -> Nat]
    /\ disturbed \in BOOLEAN /\ bytes \in Seq(Range(bytes))

\* Every cell of the file was left empty, or is the cell there of a whole graph.
CellsMade ==
    \A i \in DOMAIN bytes : \/ bytes[i] = Zeros
                           \/ \E q \in Bridger : /\ Writes(q) /\ i \in DOMAIN ToBytes(made[q])
                                                 /\ bytes[i] = ToBytes(made[q])[i]

\* Who writes has wrapped everything and is not through; who did not begin has
\* written nothing.
WritersBusy ==
    \A q \in Bridger : /\ doing[q] = "writing" => left[q] = <<>> /\ written[q] < Len(ToBytes(made[q]))
                       /\ doing[q] \in {"idle", "bridging"} => written[q] = 0

\* Undisturbed, one process writes at a time, the file is what it has written so
\* far, and between two writers the graph of the last one.
Undisturbed ==
    ~disturbed =>
      /\ \A q, r \in Bridger : doing[q] = "writing" /\ doing[r] = "writing" => q = r
      /\ \A q \in Bridger : doing[q] = "writing" =>
            Len(bytes) = written[q] /\ \A i \in DOMAIN bytes : bytes[i] = ToBytes(made[q])[i]
      /\ acked # None /\ (\A q \in Bridger : doing[q] # "writing") => bytes = ToBytes(acked)

BridgeInv == BridgeTypes /\ CellsMade /\ WritersBusy /\ Undisturbed

\* A hash that is accepted was written by the process that wrote all before it.
LEMMA InvAccepts == BridgeInv => AcceptedIsWritten
<1> SUFFICES ASSUME BridgeInv PROVE AcceptedIsWritten
  OBVIOUS
<1> DEFINE read == FromBytes(bytes)
<1>1. ASSUME read # None PROVE \E p \in Bridger : made[p] = read /\ left[p] = <<>>
  <2> DEFINE L == bytes[1].length + 2
             body == SubSeq(bytes, 1, bytes[1].length + 1)
  <2>1. /\ ~(Len(bytes) < 3) /\ bytes[1].cell = "header" /\ ~(Len(bytes) < L)
        /\ bytes[Len(body) + 1] = Hash(body) /\ read = Deserialized(Tail(body))
    <3>1. ~(Len(bytes) < 3) /\ bytes[1].cell = "header" /\ ~(Len(bytes) < bytes[1].length + 2)
      BY <1>1 DEF FromBytes
    <3> HIDE DEF body
    <3>2. read = IF bytes[Len(body) + 1] # Hash(body) THEN None
                 ELSE IF Counts(Deserialized(Tail(body))) # bytes[1].counts THEN None
                 ELSE Deserialized(Tail(body))
      BY <1>1, <3>1 DEF FromBytes, body
    <3> QED BY <1>1, <3>1, <3>2
  <2>2. Len(bytes) \in Nat /\ DOMAIN bytes = 1..Len(bytes) /\ bytes \in Seq(Range(bytes))
    BY LenProperties DEF BridgeInv, BridgeTypes
  <2>3. PICK q1 \in Bridger : bytes[1] = ToBytes(made[q1])[1]
    <3>1. 1 \in DOMAIN bytes /\ bytes[1] # Zeros
      BY <2>1, <2>2 DEF Zeros
    <3> QED BY <3>1 DEF BridgeInv, CellsMade
  <2>4. bytes[1].length \in 1..3
    <3>1. Header(made[q1]).length = PartsOf(made[q1])
      BY DEF Header
    <3> QED BY <2>3, <3>1, BytesShape
  <2>5. PICK n \in 1..3 : n = bytes[1].length
    BY <2>4
  <2>6. Len(body) = n + 1 /\ n + 2 \in DOMAIN bytes
    <3>1. \A i \in 1..(n + 1) : bytes[i] \in Range(bytes)
      BY <2>1, <2>2, <2>5, ElementOfSeq
    <3>2. Len(SubSeq(bytes, 1, n + 1)) = n + 1
      BY <3>1, SubSeqProperties
    <3>3. body = SubSeq(bytes, 1, n + 1) /\ L = n + 2
      BY <2>5
    <3>4. n + 2 \in 1..Len(bytes)
      BY <2>1, <2>2, <3>3
    <3> QED BY <2>2, <3>2, <3>3, <3>4
  <2> HIDE DEF body
  <2>7. bytes[n + 2] = Hash(body)
    <3>1. Len(body) + 1 = n + 2
      BY <2>6
    <3> QED BY <2>1, <3>1
  <2>8. PICK q \in Bridger : left[q] = <<>> /\ n + 2 \in DOMAIN ToBytes(made[q])
                            /\ Hash(body) = ToBytes(made[q])[n + 2]
    <3>1. Hash(body) # Zeros
      BY DEF Hash, Zeros
    <3>2. bytes[n + 2] # Zeros
      BY <2>7, <3>1
    <3> QED BY <2>6, <2>7, <3>2 DEF BridgeInv, CellsMade, Writes
  <2> DEFINE g == made[q]
  <2>9. PICK k \in 1..3 : k = PartsOf(g)
    BY BytesShape
  <2>10. /\ DOMAIN ToBytes(g) = 1..(k + 2) /\ ToBytes(g)[1] = Header(g)
         /\ \A i \in 2..(k + 1) : ToBytes(g)[i] = [cell |-> "part", of |-> g, part |-> i - 1]
         /\ ToBytes(g)[k + 2] = Hash(SubSeq(ToBytes(g), 1, k + 1))
         /\ Deserialized(Tail(SubSeq(ToBytes(g), 1, k + 1))) = g
    BY <2>9, BytesShape, LenProperties
  <2>11. n = k
    <3>1. Hash(body).cell = "hash"
      BY DEF Hash
    <3>2. n + 2 \in 1..(k + 2)
      BY <2>8, <2>10
    <3>3. ASSUME n + 2 \in 2..(k + 1) PROVE FALSE
      <4>1. Hash(body) = [cell |-> "part", of |-> g, part |-> n + 2 - 1]
        BY <2>8, <2>10, <3>3
      <4> QED BY <3>1, <4>1
    <3> QED BY <3>2, <3>3
  <2>12. Hash(body).over = body /\ Hash(SubSeq(ToBytes(g), 1, k + 1)).over = SubSeq(ToBytes(g), 1, k + 1)
    BY DEF Hash
  <2>13. body = SubSeq(ToBytes(g), 1, k + 1)
    BY <2>8, <2>10, <2>11, <2>12
  <2> QED BY <2>1, <2>8, <2>10, <2>13
<1>2. acked # None /\ ~disturbed /\ (\A p \in Bridger : doing[p] # "writing") => read = acked
  BY ReadBack DEF BridgeInv, Undisturbed
<1> QED BY <1>1, <1>2 DEF AcceptedIsWritten

\* At first nobody has written, and there is no file.
LEMMA BridgeStart == ForeignInit => BridgeInv
<1> SUFFICES ASSUME ForeignInit PROVE BridgeInv
  OBVIOUS
<1>1. bytes = <<>> /\ bytes \in Seq(Range(bytes)) /\ DOMAIN bytes = {}
  BY EmptySeq DEF ForeignInit
<1> QED BY <1>1 DEF ForeignInit, BridgeInv, BridgeTypes, CellsMade, WritersBusy, Undisturbed

\* A step that leaves the file alone, and what those who write it have made.
LEMMA FileUntouched ==
    ASSUME BridgeInv, NEW p \in Bridger, UNCHANGED <<bytes, written, acked>>,
           disturbed' \in BOOLEAN, disturbed => disturbed',
           DOMAIN left' = Bridger, DOMAIN made' = Bridger,
           \A q \in Bridger \ {p} : left'[q] = left[q] /\ made'[q] = made[q],
           doing[p] \in {"idle", "bridging"} \/ (left'[p] = left[p] /\ made'[p] = made[p]),
           NEW now \in {"bridging", "done", "failed", "cut"}, doing' = [doing EXCEPT ![p] = now],
           now = "bridging" => written[p] = 0,
           doing[p] \in {"idle", "bridging"} \/ (now = "cut" /\ (doing[p] = "writing" => disturbed'))
    PROVE  BridgeInv'
<1>1. BridgeTypes /\ CellsMade /\ WritersBusy /\ Undisturbed
  BY DEF BridgeInv
<1>2. /\ doing'[p] = now /\ \A q \in Bridger \ {p} : doing'[q] = doing[q]
      /\ doing' \in [Bridger -> {"idle", "bridging", "writing", "done", "failed", "cut"}]
  BY <1>1 DEF BridgeTypes
<1>3. BridgeTypes'
  BY <1>1, <1>2 DEF BridgeTypes
<1>4. \A q \in Bridger : Writes(q) => Writes(q)' /\ made'[q] = made[q]
  BY <1>2 DEF Writes
<1>5. CellsMade'
  BY <1>1, <1>4 DEF CellsMade
<1>6. WritersBusy'
  BY <1>1, <1>2 DEF WritersBusy
<1>7. \A q \in Bridger : doing'[q] = "writing" => doing[q] = "writing" /\ made'[q] = made[q]
  BY <1>2
<1>8. ASSUME ~disturbed', \A q \in Bridger : doing'[q] # "writing"
      PROVE  \A q \in Bridger : doing[q] # "writing"
  BY <1>2, <1>8
<1>9. Undisturbed'
  BY <1>1, <1>7, <1>8 DEF Undisturbed
<1> QED BY <1>3, <1>5, <1>6, <1>9 DEF BridgeInv

\* The file is emptied; with nobody else writing it stays one process's.
LEMMA OpenKept ==
    ASSUME BridgeInv, NEW p \in Bridger, Open(p)
    PROVE  BridgeInv'
<1>1. BridgeTypes /\ CellsMade /\ WritersBusy /\ Undisturbed
  BY DEF BridgeInv
<1>2. /\ doing[p] = "bridging" /\ left[p] = <<>> /\ bytes' = <<>>
      /\ disturbed' = (disturbed \/ Others(p) # {}) /\ UNCHANGED <<left, made, written, acked>>
      /\ doing'[p] = "writing" /\ \A q \in Bridger \ {p} : doing'[q] = doing[q]
      /\ doing' \in [Bridger -> {"idle", "bridging", "writing", "done", "failed", "cut"}]
  BY <1>1 DEF Open, Turn, BridgeTypes
<1>3. bytes' \in Seq(Range(bytes')) /\ DOMAIN bytes' = {} /\ Len(bytes') = 0
  BY <1>2, EmptySeq
<1>4. disturbed' \in BOOLEAN
  BY <1>1, <1>2 DEF BridgeTypes
<1>5. BridgeTypes'
  BY <1>1, <1>2, <1>3, <1>4 DEF BridgeTypes
<1>6. CellsMade'
  BY <1>3 DEF CellsMade
<1>7. written[p] = 0 /\ 0 < Len(ToBytes(made[p]))
  <2>1. PICK k \in 1..3 : k = PartsOf(made[p])
    BY BytesShape
  <2> QED BY <1>1, <1>2, <2>1, BytesShape DEF WritersBusy
<1>8. WritersBusy'
  BY <1>1, <1>2, <1>7 DEF WritersBusy
<1>9. ASSUME ~disturbed' PROVE \A q \in Bridger : doing'[q] = "writing" => q = p
  BY <1>2, <1>9 DEF Others
<1>10. Undisturbed'
  BY <1>2, <1>3, <1>7, <1>9 DEF Undisturbed
<1> QED BY <1>5, <1>6, <1>8, <1>10 DEF BridgeInv

\* A cell is written at its place; undisturbed, it is the next.
LEMMA WriteKept ==
    ASSUME BridgeInv, NEW p \in Bridger, Write(p)
    PROVE  BridgeInv'
<1> DEFINE cells == ToBytes(made[p])
           at == written[p] + 1
           new == [i \in DOMAIN bytes \cup (1..at) |->
                      IF i = at THEN cells[i] ELSE IF i \in DOMAIN bytes THEN bytes[i] ELSE Zeros]
<1>1. BridgeTypes /\ CellsMade /\ WritersBusy /\ Undisturbed
  BY DEF BridgeInv
<1>2. /\ doing[p] = "writing" /\ written[p] < Len(cells) /\ bytes' = new
      /\ written' = [written EXCEPT ![p] = at] /\ UNCHANGED <<left, made, disturbed>>
      /\ IF at = Len(cells) THEN doing' = [doing EXCEPT ![p] = "done"] /\ acked' = made[p]
         ELSE UNCHANGED <<doing, acked>>
  BY DEF Write, Turn
<1>3. PICK k \in 4..6 : /\ Len(cells) = k - 1 /\ DOMAIN cells = 1..(k - 1)
  <2>1. PICK j \in 1..3 : j = PartsOf(made[p])
    BY BytesShape
  <2>2. cells \in Seq(Range(cells)) /\ Len(cells) = j + 2
    BY <2>1, BytesShape
  <2>3. DOMAIN cells = 1..(j + 2)
    BY <2>2, LenProperties
  <2> HIDE DEF cells
  <2>4. j + 3 \in 4..6 /\ (j + 3) - 1 = j + 2
    OBVIOUS
  <2> QED BY <2>2, <2>3, <2>4
<1> HIDE DEF cells
<1>4. written[p] \in Nat /\ at \in 1..(k - 1) /\ at \in DOMAIN cells /\ left[p] = <<>>
  BY <1>1, <1>2, <1>3 DEF BridgeTypes, WritersBusy
<1>5. PICK l \in Nat : Len(bytes) = l /\ DOMAIN bytes = 1..l
  BY <1>1, LenProperties DEF BridgeTypes
<1>6. PICK m \in Nat : m >= l /\ m >= at /\ m \in {l, at} /\ DOMAIN bytes \cup (1..at) = 1..m
  <2>1. CASE at <= l
    <3>1. DOMAIN bytes \cup (1..at) = 1..l
      BY <1>4, <1>5, <2>1
    <3> QED BY <1>4, <1>5, <2>1, <3>1
  <2>2. CASE at > l
    <3>1. DOMAIN bytes \cup (1..at) = 1..at /\ at \in Nat
      BY <1>4, <1>5, <2>2
    <3> QED BY <1>4, <1>5, <2>2, <3>1
  <2> QED BY <1>4, <1>5, <2>1, <2>2
<1>7. bytes' \in Seq(Range(bytes')) /\ Len(bytes') = m /\ DOMAIN bytes' = 1..m
  <2>1. DOMAIN new = 1..m /\ new = [i \in DOMAIN new |-> new[i]]
    BY <1>6
  <2> HIDE DEF new
  <2>2. new \in Seq(Range(new))
    <3>1. new \in [1..m -> Range(new)]
      BY <2>1 DEF Range
    <3> QED BY <3>1
  <2>3. DOMAIN new = 1..m
    BY <2>1
  <2> QED BY <1>2, <2>2, <2>3, LenProperties
<1>8. /\ doing' \in [Bridger -> {"idle", "bridging", "writing", "done", "failed", "cut"}]
      /\ doing'[p] = IF at = k - 1 THEN "done" ELSE "writing"
      /\ \A q \in Bridger \ {p} : doing'[q] = doing[q]
  BY <1>1, <1>2, <1>3 DEF BridgeTypes
<1>9. written' \in [Bridger -> Nat] /\ written'[p] = at /\ \A q \in Bridger \ {p} : written'[q] = written[q]
  BY <1>1, <1>2, <1>4 DEF BridgeTypes
<1>10. BridgeTypes'
  BY <1>1, <1>2, <1>7, <1>8, <1>9 DEF BridgeTypes
<1>11. \A q \in Bridger : Writes(q) => Writes(q)'
  BY <1>2, <1>8 DEF Writes
<1>12. CellsMade'
  <2> SUFFICES ASSUME NEW i \in DOMAIN bytes'
               PROVE  (\/ bytes[i] = Zeros
                       \/ \E q \in Bridger : Writes(q) /\ i \in DOMAIN ToBytes(made[q])
                                             /\ bytes[i] = ToBytes(made[q])[i])'
    BY DEF CellsMade
  <2>1. CASE i = at
    <3>1. bytes'[i] = cells[i]
      BY <1>2, <1>6, <1>7, <2>1
    <3>2. Writes(p)'
      BY <1>2, <1>4, <1>8 DEF Writes
    <3> QED BY <1>2, <1>4, <2>1, <3>1, <3>2 DEF cells
  <2>2. CASE i # at /\ i \in DOMAIN bytes
    <3>1. bytes'[i] = bytes[i]
      BY <1>2, <2>2
    <3> QED BY <1>1, <1>2, <1>11, <2>2, <3>1 DEF CellsMade
  <2>3. CASE i # at /\ i \notin DOMAIN bytes
    <3>1. bytes'[i] = Zeros
      BY <1>2, <1>6, <1>7, <2>3
    <3>2. Zeros' = Zeros
      BY DEF Zeros
    <3> QED BY <3>1, <3>2
  <2> QED BY <2>1, <2>2, <2>3
<1>13. WritersBusy'
  BY <1>1, <1>2, <1>3, <1>4, <1>8, <1>9 DEF WritersBusy, cells
<1>14. ASSUME ~disturbed'
       PROVE  /\ \A q \in Bridger : doing[q] = "writing" => q = p
              /\ l = written[p] /\ m = at
              /\ \A i \in DOMAIN bytes' : bytes'[i] = cells[i]
  <2>1. /\ \A q \in Bridger : doing[q] = "writing" => q = p
        /\ l = written[p] /\ \A i \in DOMAIN bytes : bytes[i] = cells[i]
    BY <1>1, <1>2, <1>5, <1>14 DEF Undisturbed, cells
  <2>2. m = at
    BY <1>4, <1>6, <2>1
  <2>3. \A i \in DOMAIN bytes' : i = at \/ i \in DOMAIN bytes
    BY <1>4, <1>5, <1>7, <2>1, <2>2
  <2> QED BY <1>2, <1>6, <1>7, <2>1, <2>2, <2>3
<1>15. ASSUME ~disturbed', at = k - 1 PROVE bytes' = ToBytes(acked')
  <2>1. acked' = made[p] /\ ToBytes(acked') = cells
    BY <1>2, <1>3, <1>15 DEF cells
  <2>2. cells \in Seq(Range(cells)) /\ bytes' \in Seq(Range(bytes')) /\ Len(cells) = k - 1
    BY <1>3, <1>7, BytesShape DEF cells
  <2>3. Len(bytes') = k - 1
    BY <1>7, <1>14, <1>15
  <2>4. cells \in Seq(Range(cells) \cup Range(bytes')) /\ bytes' \in Seq(Range(cells) \cup Range(bytes'))
    BY <2>2, SeqMonotonic
  <2>5. bytes' = cells
    BY <1>7, <1>14, <1>15, <2>2, <2>3, <2>4, SeqEqual
  <2> QED BY <2>1, <2>5
<1>16. Undisturbed'
  BY <1>2, <1>3, <1>7, <1>8, <1>9, <1>14, <1>15 DEF Undisturbed, cells
<1> QED BY <1>10, <1>12, <1>13, <1>16 DEF BridgeInv

\* Every step keeps the invariant.
LEMMA BridgeStep == BridgeInv /\ [ForeignNext]_foreignVars => BridgeInv'
<1> SUFFICES ASSUME BridgeInv, [ForeignNext]_foreignVars PROVE BridgeInv'
  OBVIOUS
<1>1. BridgeTypes /\ WritersBusy
  BY DEF BridgeInv
<1>2. CASE UNCHANGED foreignVars
  BY <1>2 DEF foreignVars, BridgeInv, BridgeTypes, CellsMade, WritersBusy, Undisturbed, Writes, Zeros
<1>3. ASSUME NEW p \in Bridger, NEW d \in Declarations, NEW policy \in Policies, Declare(p, d, policy)
      PROVE  BridgeInv'
  <2>1. PICK now \in {"bridging", "done", "failed"} : doing' = [doing EXCEPT ![p] = now]
    <3> DEFINE next == CASE \E i \in DOMAIN d : ~d[i].excluded /\ ~Permits(policy, d[i]) -> "failed"
                         [] \A i \in DOMAIN d : d[i].excluded -> "done"
                         [] OTHER -> "bridging"
    <3>1. doing' = [doing EXCEPT ![p] = next]
      BY <1>3 DEF Declare, Turn
    <3>2. next \in {"bridging", "done", "failed"}
      OBVIOUS
    <3> HIDE DEF next
    <3> QED BY <3>1, <3>2
  <2>2. /\ doing[p] = "idle" /\ UNCHANGED <<made, written, bytes, acked, disturbed>>
        /\ DOMAIN left' = Bridger /\ \A q \in Bridger \ {p} : left'[q] = left[q]
    BY <1>1, <1>3 DEF Declare, BridgeTypes
  <2>3. written[p] = 0
    BY <1>1, <2>2 DEF WritersBusy
  <2> QED BY <1>1, <2>1, <2>2, <2>3, FileUntouched DEF BridgeTypes
<1>4. ASSUME NEW p \in Bridger, Wrap(p) PROVE BridgeInv'
  <2>1. doing[p] = "bridging" /\ UNCHANGED <<written, bytes, acked, disturbed>>
    BY <1>4 DEF Wrap
  <2>2. PICK now \in {"bridging", "failed"} : doing' = [doing EXCEPT ![p] = now]
    <3>1. doing = [doing EXCEPT ![p] = "bridging"]
      BY <1>1, <2>1 DEF BridgeTypes
    <3> QED BY <1>4, <3>1 DEF Wrap, Turn
  <2>3. /\ DOMAIN left' = Bridger /\ DOMAIN made' = Bridger
        /\ \A q \in Bridger \ {p} : left'[q] = left[q] /\ made'[q] = made[q]
    BY <1>1, <1>4 DEF Wrap, BridgeTypes
  <2>4. written[p] = 0
    BY <1>1, <2>1 DEF WritersBusy
  <2> QED BY <1>1, <2>1, <2>2, <2>3, <2>4, FileUntouched DEF BridgeTypes
<1>5. ASSUME NEW p \in Bridger, CutShort(p) PROVE BridgeInv'
  <2>1. /\ doing[p] \in {"bridging", "writing"} /\ doing' = [doing EXCEPT ![p] = "cut"]
        /\ disturbed' = (disturbed \/ doing[p] = "writing")
        /\ UNCHANGED <<left, made, written, bytes, acked>>
    BY <1>5 DEF CutShort, Turn
  <2>2. disturbed' \in BOOLEAN /\ (disturbed => disturbed')
    BY <1>1, <2>1 DEF BridgeTypes
  <2>3. doing[p] = "writing" => disturbed'
    BY <2>1
  <2> QED BY <1>1, <2>1, <2>2, <2>3, FileUntouched DEF BridgeTypes
<1> QED BY <1>2, <1>3, <1>4, <1>5, OpenKept, WriteKept DEF ForeignNext

\* Whatever bridge commands overlap, and wherever they fail or die, a reader of
\* the file gets a graph that one of them generated to its end, or none; and after
\* undisturbed writes, the one of the last (format.rs, cli ffi.rs).
THEOREM AcceptedAlwaysWritten == ForeignSpec => []AcceptedIsWritten
<1> QED BY BridgeStart, BridgeStep, InvAccepts, PTL DEF ForeignSpec

-----------------------------------------------------------------------------
(* The guards of a bridge *)

\* The functions that some declaration has.
Wrappable == UNION {Range(d) : d \in Declarations}

\* What a function takes and gives has places of 1, 2, ... and types.
LEMMA FunctionShape ==
    ASSUME NEW f \in Wrappable
    PROVE  /\ DOMAIN Taken(f) \subseteq Inputs /\ DOMAIN Taken(f) \subseteq Nat
           /\ DOMAIN Given(f) \subseteq {1} /\ (Given(f) # <<>> => 1 \in DOMAIN Given(f))
           /\ \A i \in DOMAIN Taken(f) : Taken(f)[i] # None
           /\ \A i \in DOMAIN Given(f) : Given(f)[i] # None
<1>1. PICK d \in Declarations : f \in Range(d)
  BY DEF Wrappable
<1>2. PICK j \in DOMAIN d : f = d[j]
  BY <1>1 DEF Range
<1>3. f.params \in Seq(Range(f.params)) /\ None \notin Range(Taken(f)) \cup Range(Given(f))
  BY <1>2, DeclarationAssumption
<1>4. PICK n \in Nat : Len(f.params) = n /\ DOMAIN f.params = 1..n
  BY <1>3, LenProperties
<1>5. DOMAIN Parameters(f) \subseteq DOMAIN f.params
  <2>1. CASE f.params = <<<<"void">>>>
    BY <2>1 DEF Parameters
  <2>2. CASE f.params # <<<<"void">>>> /\ Dotted(f)
    <3>1. DOMAIN Parameters(f) = 1..(n - 1)
      BY <1>4, <2>2 DEF Parameters
    <3> QED BY <1>4, <3>1
  <2>3. CASE f.params # <<<<"void">>>> /\ ~Dotted(f)
    BY <2>3 DEF Parameters
  <2> QED BY <2>1, <2>2, <2>3
<1>6. DOMAIN Taken(f) = DOMAIN Parameters(f)
  BY DEF Taken
<1>7. DOMAIN f.params \subseteq Inputs
  BY <1>2 DEF Inputs
<1>8. DOMAIN Given(f) \subseteq {1} /\ (Given(f) # <<>> => 1 \in DOMAIN Given(f))
  <2>1. DOMAIN <<>> = {} /\ \A x : DOMAIN <<x>> = {1}
    OBVIOUS
  <2>2. Given(f) = <<>> \/ \E x : Given(f) = <<x>>
    BY DEF Given
  <2> QED BY <2>1, <2>2
<1>9. DOMAIN f.params \subseteq Nat
  BY <1>4
<1>10. \A i \in DOMAIN Taken(f) : Taken(f)[i] # None
  BY <1>3 DEF Range
<1>11. \A i \in DOMAIN Given(f) : Given(f)[i] # None
  BY <1>3 DEF Range
<1> QED BY <1>5, <1>6, <1>7, <1>8, <1>9, <1>10, <1>11

\* The nodes around a call, in terms of what the function takes and gives.
Fed(f, r)   == Wrapper(f)[r].fed
InsOf(f, r)  == Wrapper(f)[r].node.sig.ins
OutsOf(f, r) == Wrapper(f)[r].node.sig.outs
Around(f, r, kind, ins, outs) ==
    /\ Wrapper(f)[r].node.kind = kind /\ InsOf(f, r) = ins /\ OutsOf(f, r) = outs

\* Which nodes there are around a call, of what kinds, with what inputs and
\* outputs, and fed by which.
LEMMA WrapperShape ==
    ASSUME NEW f
    PROVE  /\ DOMAIN Wrapper(f) \subseteq Roles /\ "call" \in DOMAIN Wrapper(f)
           /\ "pre" \in DOMAIN Wrapper(f) <=> Checked(f.trust)
           /\ "post" \in DOMAIN Wrapper(f) <=> Checked(f.trust) /\ Given(f) # <<>>
           /\ "assume" \in DOMAIN Wrapper(f) <=> f.trust = "unsafe"
           /\ "pre" \in DOMAIN Wrapper(f) => Around(f, "pre", "Verify", Taken(f), Taken(f)) /\ Fed(f, "pre") = {}
           /\ Around(f, "call", "FFICall", Taken(f), Given(f))
           /\ Checked(f.trust) => Fed(f, "call") = {"pre"}
           /\ ~Checked(f.trust) => Fed(f, "call") = {}
           /\ "post" \in DOMAIN Wrapper(f) => Around(f, "post", "Verify", Given(f), Given(f)) /\ Fed(f, "post") = {"call"}
           /\ "assume" \in DOMAIN Wrapper(f) /\ Given(f) # <<>> =>
                Around(f, "assume", "Assume", Given(f), Given(f)) /\ Fed(f, "assume") = {"post"}
           /\ "assume" \in DOMAIN Wrapper(f) /\ Given(f) = <<>> => Fed(f, "assume") = {}
<1>1. f.trust = "unsafe" => Checked(f.trust)
  BY DEF Checked
<1> USE DEF Roles, Piece, Node, Sig, Around, Fed, InsOf, OutsOf
<1>2. /\ DOMAIN Wrapper(f) \subseteq Roles /\ "call" \in DOMAIN Wrapper(f)
      /\ "pre" \in DOMAIN Wrapper(f) <=> Checked(f.trust)
      /\ "post" \in DOMAIN Wrapper(f) <=> Checked(f.trust) /\ Given(f) # <<>>
      /\ "assume" \in DOMAIN Wrapper(f) <=> f.trust = "unsafe"
  BY DEF Wrapper, Pieces
<1>3. "pre" \in DOMAIN Wrapper(f) => Around(f, "pre", "Verify", Taken(f), Taken(f)) /\ Fed(f, "pre") = {}
  BY DEF Wrapper, Pieces
<1>4. /\ Around(f, "call", "FFICall", Taken(f), Given(f))
      /\ Checked(f.trust) => Fed(f, "call") = {"pre"}
      /\ ~Checked(f.trust) => Fed(f, "call") = {}
  BY DEF Wrapper, Pieces
<1>5. "post" \in DOMAIN Wrapper(f) =>
         Around(f, "post", "Verify", Given(f), Given(f)) /\ Fed(f, "post") = {"call"}
  BY DEF Wrapper, Pieces
<1>6. /\ "assume" \in DOMAIN Wrapper(f) /\ Given(f) # <<>> =>
           Around(f, "assume", "Assume", Given(f), Given(f)) /\ Fed(f, "assume") = {"post"}
      /\ "assume" \in DOMAIN Wrapper(f) /\ Given(f) = <<>> => Fed(f, "assume") = {}
  BY <1>1 DEF Wrapper, Pieces
<1> HIDE DEF Roles, Piece, Node, Sig, Around, Fed, InsOf, OutsOf
<1> QED BY <1>2, <1>3, <1>4, <1>5, <1>6

\* Only the call is a call; all nodes carry the function.
LEMMA WrapperCalls ==
    ASSUME NEW f, NEW r \in DOMAIN Wrapper(f)
    PROVE  Wrapper(f)[r].node.value = f /\ (Wrapper(f)[r].node.kind = "FFICall" => r = "call")
BY DEF Wrapper, Pieces, Roles, Piece, Node, Sig

\* What joins a node to the function's node that feeds it, one input at a time.
Wires(f) == UNION {{<<r, i>> : i \in DOMAIN InsOf(f, r)} : r \in {q \in DOMAIN Wrapper(f) : Fed(f, q) # {}}}
FeederOf(f, r) == CHOOSE s \in Fed(f, r) : TRUE

\* A node is fed by one of the same function, whose outputs are its inputs.
LEMMA WrapperFeeds ==
    ASSUME NEW f \in Wrappable
    PROVE  /\ \A r \in DOMAIN Wrapper(f) : Fed(f, r) # {} =>
                 /\ r # "pre" /\ Fed(f, r) = {FeederOf(f, r)} /\ FeederOf(f, r) \in DOMAIN Wrapper(f)
                 /\ OutsOf(f, FeederOf(f, r)) = InsOf(f, r)
                 /\ DOMAIN InsOf(f, r) \subseteq Nat
                 /\ \A i \in DOMAIN InsOf(f, r) :
                       InsOf(f, r)[i] # None /\ (IF r = "call" THEN i \in Inputs ELSE i = 1)
           /\ Checked(f.trust) => FeederOf(f, "call") = "pre" /\ Fed(f, "call") # {}
           /\ Checked(f.trust) /\ Given(f) # <<>> => \A r \in DOMAIN Wrapper(f) :
                 Fed(f, r) # {} /\ FeederOf(f, r) = "call" <=> r = "post"
           /\ f.trust = "unsafe" /\ Given(f) # <<>> => \A r \in DOMAIN Wrapper(f) :
                 Fed(f, r) # {} /\ FeederOf(f, r) = "post" <=> r = "assume"
<1>0. /\ DOMAIN Wrapper(f) \subseteq Roles /\ "call" \in DOMAIN Wrapper(f)
      /\ "pre" \in DOMAIN Wrapper(f) <=> Checked(f.trust)
      /\ "post" \in DOMAIN Wrapper(f) <=> Checked(f.trust) /\ Given(f) # <<>>
      /\ "assume" \in DOMAIN Wrapper(f) <=> f.trust = "unsafe"
      /\ "pre" \in DOMAIN Wrapper(f) => Around(f, "pre", "Verify", Taken(f), Taken(f)) /\ Fed(f, "pre") = {}
      /\ Around(f, "call", "FFICall", Taken(f), Given(f))
      /\ Checked(f.trust) => Fed(f, "call") = {"pre"}
      /\ ~Checked(f.trust) => Fed(f, "call") = {}
      /\ "post" \in DOMAIN Wrapper(f) => Around(f, "post", "Verify", Given(f), Given(f)) /\ Fed(f, "post") = {"call"}
      /\ "assume" \in DOMAIN Wrapper(f) /\ Given(f) # <<>> =>
           Around(f, "assume", "Assume", Given(f), Given(f)) /\ Fed(f, "assume") = {"post"}
      /\ "assume" \in DOMAIN Wrapper(f) /\ Given(f) = <<>> => Fed(f, "assume") = {}
  BY WrapperShape
<1>1. \A s : (CHOOSE t \in {s} : TRUE) = s
  OBVIOUS
<1>2. ASSUME NEW r \in DOMAIN Wrapper(f), Fed(f, r) # {}
      PROVE  /\ r # "pre"
             /\ r = "call" => Fed(f, r) = {"pre"} /\ FeederOf(f, r) = "pre"
             /\ r = "post" => Fed(f, r) = {"call"} /\ FeederOf(f, r) = "call"
             /\ r = "assume" => Fed(f, r) = {"post"} /\ FeederOf(f, r) = "post"
             /\ r \in {"call", "post", "assume"} /\ (r # "call" => Given(f) # <<>>)
  <2>1. r \in {"pre", "call", "post", "assume"}
    BY <1>0 DEF Roles
  <2>2. r # "pre" /\ (r = "call" => Fed(f, r) = {"pre"}) /\ (r = "post" => Fed(f, r) = {"call"})
        /\ (r = "assume" => Fed(f, r) = {"post"}) /\ (r # "call" => Given(f) # <<>>)
    BY <1>0, <1>2, <2>1
  <2> QED BY <1>1, <2>1, <2>2 DEF FeederOf
<1>3. ASSUME NEW r \in DOMAIN Wrapper(f), Fed(f, r) # {}
      PROVE  /\ r # "pre" /\ Fed(f, r) = {FeederOf(f, r)} /\ FeederOf(f, r) \in DOMAIN Wrapper(f)
             /\ OutsOf(f, FeederOf(f, r)) = InsOf(f, r)
             /\ InsOf(f, r) = IF r = "call" THEN Taken(f) ELSE Given(f)
  <2>1. CASE r = "call"
    <3>1. Checked(f.trust) /\ "pre" \in DOMAIN Wrapper(f)
      BY <1>0, <1>3, <2>1
    <3> QED BY <1>0, <1>2, <1>3, <2>1, <3>1 DEF Around
  <2>2. CASE r = "post"
    BY <1>0, <1>2, <1>3, <2>2 DEF Around
  <2>3. CASE r = "assume"
    <3>1. Given(f) # <<>> /\ "post" \in DOMAIN Wrapper(f)
      BY <1>0, <1>2, <1>3, <2>3 DEF Checked
    <3> QED BY <1>0, <1>2, <1>3, <2>3, <3>1 DEF Around
  <2> QED BY <1>2, <1>3, <2>1, <2>2, <2>3
<1>4. ASSUME NEW r \in DOMAIN Wrapper(f), Fed(f, r) # {}
      PROVE  /\ DOMAIN InsOf(f, r) \subseteq Nat
             /\ \A i \in DOMAIN InsOf(f, r) :
                   InsOf(f, r)[i] # None /\ (IF r = "call" THEN i \in Inputs ELSE i = 1)
  <2>1. CASE r = "call"
    BY <1>3, <1>4, <2>1, FunctionShape
  <2>2. CASE r # "call"
    BY <1>3, <1>4, <2>2, FunctionShape
  <2> QED BY <2>1, <2>2
<1>5. Checked(f.trust) => FeederOf(f, "call") = "pre" /\ Fed(f, "call") # {}
  BY <1>0, <1>1 DEF FeederOf
<1>6. ASSUME Checked(f.trust), Given(f) # <<>>, NEW r \in DOMAIN Wrapper(f)
      PROVE  Fed(f, r) # {} /\ FeederOf(f, r) = "call" <=> r = "post"
  BY <1>0, <1>2, <1>6
<1>7. ASSUME f.trust = "unsafe", Given(f) # <<>>, NEW r \in DOMAIN Wrapper(f)
      PROVE  Fed(f, r) # {} /\ FeederOf(f, r) = "post" <=> r = "assume"
  BY <1>0, <1>2, <1>7
<1> QED BY <1>3, <1>4, <1>5, <1>6, <1>7

\* The ids drawn for a function differ from each other and from those of others.
LEMMA DrawnDiffer ==
    ASSUME NEW b \in Bridger
    PROVE  /\ \A k, l \in Turns, r, s \in Roles :
                /\ NodeFor(<<b, k, r>>) \in NodeId
                /\ NodeFor(<<b, k, r>>) = NodeFor(<<b, l, s>>) => k = l /\ r = s
           /\ \A k, l, r, s, i, j : <<b, k, r, i>> \in EdgeKeys /\ <<b, l, s, j>> \in EdgeKeys =>
                /\ EdgeFor(<<b, k, r, i>>) \in EdgeId
                /\ EdgeFor(<<b, k, r, i>>) = EdgeFor(<<b, l, s, j>>) => k = l /\ r = s /\ i = j
<1>1. ASSUME NEW k \in Turns, NEW l \in Turns, NEW r \in Roles, NEW s \in Roles
      PROVE  /\ NodeFor(<<b, k, r>>) \in NodeId
             /\ NodeFor(<<b, k, r>>) = NodeFor(<<b, l, s>>) => k = l /\ r = s
  <2>1. <<b, k, r>> \in NodeKeys /\ <<b, l, s>> \in NodeKeys
    BY DEF NodeKeys
  <2> QED BY <2>1, DrawAssumption
<1>2. ASSUME NEW k, NEW l, NEW r, NEW s, NEW i, NEW j, <<b, k, r, i>> \in EdgeKeys, <<b, l, s, j>> \in EdgeKeys
      PROVE  /\ EdgeFor(<<b, k, r, i>>) \in EdgeId
             /\ EdgeFor(<<b, k, r, i>>) = EdgeFor(<<b, l, s, j>>) => k = l /\ r = s /\ i = j
  BY <1>2, DrawAssumption
<1> QED BY <1>1, <1>2

\* An edge is drawn for every input that is fed.
LEMMA WiresDrawn ==
    ASSUME NEW f \in Wrappable, NEW b \in Bridger, NEW k \in Turns, NEW r \in DOMAIN Wrapper(f),
           Fed(f, r) # {}, NEW i \in DOMAIN InsOf(f, r)
    PROVE  <<b, k, r, i>> \in EdgeKeys /\ <<r, i>> \in Wires(f)
<1>1. r \in {"call", "post", "assume"} /\ (IF r = "call" THEN i \in Inputs ELSE i = 1)
  BY WrapperFeeds, WrapperShape DEF Roles
<1>2. <<b, k, r, i>> \in EdgeKeys
  BY <1>1 DEF EdgeKeys
<1> QED BY <1>2 DEF Wires

\* There are no other edges.
LEMMA WiresAre ==
    ASSUME NEW f, NEW w \in Wires(f)
    PROVE  \E r \in DOMAIN Wrapper(f) : Fed(f, r) # {} /\ \E i \in DOMAIN InsOf(f, r) : w = <<r, i>>
BY DEF Wires

\* The nodes, edges and ports that a function adds.
Added(f, b, k, A, E, P) ==
    /\ DOMAIN A = {NodeFor(<<b, k, r>>) : r \in DOMAIN Wrapper(f)}
    /\ \A r \in DOMAIN Wrapper(f) : A[NodeFor(<<b, k, r>>)] = Wrapper(f)[r].node
    /\ E = [e \in DOMAIN E |-> E[e]]
    /\ DOMAIN E = {EdgeFor(<<b, k, w[1], w[2]>>) : w \in Wires(f)} /\ DOMAIN P = DOMAIN E
    /\ \A r \in DOMAIN Wrapper(f) : Fed(f, r) # {} => \A i \in DOMAIN InsOf(f, r) :
          /\ E[EdgeFor(<<b, k, r, i>>)] = [source |-> NodeFor(<<b, k, FeederOf(f, r)>>), target |-> NodeFor(<<b, k, r>>)]
          /\ P[EdgeFor(<<b, k, r, i>>)] = [from |-> i - 1, to |-> i - 1]

Grown(p, A, E, P) ==
    [p EXCEPT !.graph = WithEdges(WithNodes(@, DOMAIN A), E), !.attr = @ ++ A, !.ports = @ ++ P]

\* Wrapping a function adds one node for each role and one edge for each input
\* that is fed, and changes nothing else.
LEMMA WithFunctionAdds ==
    ASSUME NEW p, NEW f \in Wrappable, NEW b \in Bridger, NEW k \in Turns
    PROVE  \E A, E, P : Added(f, b, k, A, E, P) /\ WithFunction(p, f, b, k) = Grown(p, A, E, P)
<1> DEFINE nodes == {NodeFor(<<b, k, r>>) : r \in DOMAIN Wrapper(f)}
           RoleOf(n) == CHOOSE r \in DOMAIN Wrapper(f) : NodeFor(<<b, k, r>>) = n
           edges == {EdgeFor(<<b, k, w[1], w[2]>>) : w \in Wires(f)}
           WireOf(e) == CHOOSE w \in Wires(f) : EdgeFor(<<b, k, w[1], w[2]>>) = e
           Ends(w)  == [source |-> NodeFor(<<b, k, FeederOf(f, w[1])>>), target |-> NodeFor(<<b, k, w[1]>>)]
           Ports(w) == [from |-> w[2] - 1, to |-> w[2] - 1]
           A == [n \in nodes |-> Wrapper(f)[RoleOf(n)].node]
           E == [e \in edges |-> Ends(WireOf(e))]
           P == [e \in edges |-> Ports(WireOf(e))]
<1>1. WithFunction(p, f, b, k) = Grown(p, A, E, P)
  <2>1. DOMAIN A = nodes
    OBVIOUS
  <2> QED BY <2>1 DEF WithFunction, WithPieces, Wires, Fed, InsOf, FeederOf, Grown
<1>2. ASSUME NEW r \in DOMAIN Wrapper(f) PROVE RoleOf(NodeFor(<<b, k, r>>)) = r
  <2>1. \A s \in DOMAIN Wrapper(f) : NodeFor(<<b, k, s>>) = NodeFor(<<b, k, r>>) => s = r
    BY DrawnDiffer, WrapperShape
  <2> QED BY <2>1
<1>3. ASSUME NEW r \in DOMAIN Wrapper(f), Fed(f, r) # {}, NEW i \in DOMAIN InsOf(f, r)
      PROVE  EdgeFor(<<b, k, r, i>>) \in edges /\ WireOf(EdgeFor(<<b, k, r, i>>)) = <<r, i>>
  <2>1. <<b, k, r, i>> \in EdgeKeys /\ <<r, i>> \in Wires(f)
    BY <1>3, WiresDrawn
  <2>2. ASSUME NEW w \in Wires(f), EdgeFor(<<b, k, w[1], w[2]>>) = EdgeFor(<<b, k, r, i>>)
        PROVE  w = <<r, i>>
    <3>1. PICK s \in DOMAIN Wrapper(f) : Fed(f, s) # {} /\ \E j \in DOMAIN InsOf(f, s) : w = <<s, j>>
      BY WiresAre
    <3>2. PICK j \in DOMAIN InsOf(f, s) : w = <<s, j>>
      BY <3>1
    <3>3. <<b, k, s, j>> \in EdgeKeys /\ EdgeFor(<<b, k, s, j>>) = EdgeFor(<<b, k, r, i>>)
      BY <2>2, <3>1, <3>2, WiresDrawn
    <3> QED BY <2>1, <3>2, <3>3, DrawnDiffer
  <2>3. EdgeFor(<<b, k, <<r, i>>[1], <<r, i>>[2]>>) = EdgeFor(<<b, k, r, i>>)
    OBVIOUS
  <2> QED BY <2>1, <2>2, <2>3
<1>4. \A r \in DOMAIN Wrapper(f) : A[NodeFor(<<b, k, r>>)] = Wrapper(f)[r].node
  BY <1>2
<1>5. ASSUME NEW r \in DOMAIN Wrapper(f), Fed(f, r) # {}, NEW i \in DOMAIN InsOf(f, r)
      PROVE  /\ E[EdgeFor(<<b, k, r, i>>)] = [source |-> NodeFor(<<b, k, FeederOf(f, r)>>), target |-> NodeFor(<<b, k, r>>)]
             /\ P[EdgeFor(<<b, k, r, i>>)] = [from |-> i - 1, to |-> i - 1]
  <2>1. PICK x : x = EdgeFor(<<b, k, r, i>>)
    OBVIOUS
  <2>2. x \in edges /\ WireOf(x) = <<r, i>>
    BY <1>3, <1>5, <2>1
  <2> HIDE DEF WireOf, edges
  <2>3. E[x] = Ends(<<r, i>>) /\ P[x] = Ports(<<r, i>>)
    BY <2>2
  <2> QED BY <2>1, <2>3
<1>6. DOMAIN A = nodes /\ DOMAIN E = edges /\ DOMAIN P = edges /\ E = [e \in DOMAIN E |-> E[e]]
  OBVIOUS
<1>7. Added(f, b, k, A, E, P)
  BY <1>4, <1>5, <1>6 DEF Added
<1> HIDE DEF A, E, P
<1> QED BY <1>1, <1>7

\* The edges of a node, by their ends.
LEMMA EdgesByEnds ==
    ASSUME NEW p, WellKept(p.graph), NEW n \in p.graph.nodes
    PROVE  /\ EdgesInto(p, n) = {e \in DOMAIN p.graph.edges : p.graph.edges[e].target = n}
           /\ EdgesFrom(p, n) = {e \in DOMAIN p.graph.edges : p.graph.edges[e].source = n}
<1>1. n \in DOMAIN p.graph.incoming /\ n \in DOMAIN p.graph.outgoing
  BY DEF WellKept, EdgesKept, IndexExact
<1>2. p.graph.incoming[n] \in [EdgeId -> Nat] /\ p.graph.outgoing[n] \in [EdgeId -> Nat]
  BY <1>1 DEF WellKept, IsGraph, IsMap, EdgeList
<1>3. DOMAIN p.graph.edges \subseteq EdgeId
  BY DEF WellKept, IsGraph, IsMap
<1>4. \A e \in EdgeId :
        /\ p.graph.outgoing[n][e] = IF e \in DOMAIN p.graph.edges /\ p.graph.edges[e].source = n THEN 1 ELSE 0
        /\ p.graph.incoming[n][e] = IF e \in DOMAIN p.graph.edges /\ p.graph.edges[e].target = n THEN 1 ELSE 0
  BY DEF WellKept, EdgesKept, IndexExact
<1>5. DOMAIN p.graph.incoming[n] = EdgeId /\ DOMAIN p.graph.outgoing[n] = EdgeId
  BY <1>2
<1> QED BY <1>1, <1>3, <1>4, <1>5 DEF EdgesInto, EdgesFrom, Listed

\* A program over a well-kept graph, with valid ports.
Founded(p) ==
    /\ p = [graph |-> p.graph, attr |-> p.attr, ports |-> p.ports,
            kindOf |-> p.kindOf, constrained |-> p.constrained]
    /\ WellKept(p.graph) /\ BadPorts(p) = {}
    /\ DOMAIN p.attr = p.graph.nodes /\ DOMAIN p.ports = DOMAIN p.graph.edges

\* What is drawn for the function is not in the graph.
Fresh(p, b, k) ==
    /\ \A r \in Roles : NodeFor(<<b, k, r>>) \notin p.graph.nodes
    /\ \A r, i : <<b, k, r, i>> \in EdgeKeys => EdgeFor(<<b, k, r, i>>) \notin DOMAIN p.graph.edges

\* The edges of the new function are edges between its nodes.
LEMMA AddedEdges ==
    ASSUME NEW f \in Wrappable, NEW b \in Bridger, NEW k \in Turns, NEW A, NEW E, NEW P, Added(f, b, k, A, E, P)
    PROVE  /\ IsMap(E, EdgeId, Edge) /\ DOMAIN A \subseteq NodeId
           /\ \A e \in DOMAIN E : {E[e].source, E[e].target} \subseteq DOMAIN A
           /\ \A e \in DOMAIN E : \E r \in DOMAIN Wrapper(f) : Fed(f, r) # {} /\ \E i \in DOMAIN InsOf(f, r) :
                 e = EdgeFor(<<b, k, r, i>>)
<1>1. ASSUME NEW e \in DOMAIN E
      PROVE  \E r \in DOMAIN Wrapper(f) : Fed(f, r) # {} /\ \E i \in DOMAIN InsOf(f, r) : e = EdgeFor(<<b, k, r, i>>)
  <2>1. PICK w \in Wires(f) : e = EdgeFor(<<b, k, w[1], w[2]>>)
    BY <1>1 DEF Added
  <2> QED BY <2>1, WiresAre
<1>2. \A r \in DOMAIN Wrapper(f) : NodeFor(<<b, k, r>>) \in NodeId /\ NodeFor(<<b, k, r>>) \in DOMAIN A
  BY DrawnDiffer, WrapperShape DEF Added
<1>3. ASSUME NEW e \in DOMAIN E
      PROVE  e \in EdgeId /\ E[e] \in Edge /\ {E[e].source, E[e].target} \subseteq DOMAIN A
  <2>1. PICK r \in DOMAIN Wrapper(f) : Fed(f, r) # {} /\ \E i \in DOMAIN InsOf(f, r) : e = EdgeFor(<<b, k, r, i>>)
    BY <1>1
  <2>2. PICK i \in DOMAIN InsOf(f, r) : e = EdgeFor(<<b, k, r, i>>)
    BY <2>1
  <2>3. e \in EdgeId
    <3>1. <<b, k, r, i>> \in EdgeKeys
      BY <2>1, WiresDrawn
    <3> QED BY <2>2, <3>1, DrawAssumption
  <2>4. E[e] = [source |-> NodeFor(<<b, k, FeederOf(f, r)>>), target |-> NodeFor(<<b, k, r>>)]
    BY <2>1, <2>2 DEF Added
  <2>5. FeederOf(f, r) \in DOMAIN Wrapper(f)
    BY <2>1, WrapperFeeds
  <2> QED BY <1>2, <2>3, <2>4, <2>5 DEF Edge
<1>4. DOMAIN A \subseteq NodeId
  BY <1>2 DEF Added
<1>5. IsMap(E, EdgeId, Edge)
  <2>1. E = [e \in DOMAIN E |-> E[e]]
    BY DEF Added
  <2> QED BY <1>3, <2>1 DEF IsMap
<1> QED BY <1>1, <1>3, <1>4, <1>5

\* A function is wrapped in a program.
Grows(p, q, f, b, k, A, E, P) ==
    /\ f \in Wrappable /\ b \in Bridger /\ k \in Turns /\ Added(f, b, k, A, E, P)
    /\ Founded(p) /\ Fresh(p, b, k) /\ q = Grown(p, A, E, P)

\* The grown graph is well kept, and is what it was together with what is new.
LEMMA GrownParts ==
    ASSUME NEW p, NEW q, NEW f, NEW b, NEW k, NEW A, NEW E, NEW P, Grows(p, q, f, b, k, A, E, P)
    PROVE  /\ q = [graph |-> q.graph, attr |-> q.attr, ports |-> q.ports,
                   kindOf |-> q.kindOf, constrained |-> q.constrained]
           /\ WellKept(q.graph)
           /\ q.graph.nodes = p.graph.nodes \cup DOMAIN A /\ q.graph.edges = p.graph.edges ++ E
           /\ q.attr = p.attr ++ A /\ q.ports = p.ports ++ P
           /\ DOMAIN A \cap p.graph.nodes = {} /\ DOMAIN E \cap DOMAIN p.graph.edges = {}
<1>0. /\ f \in Wrappable /\ b \in Bridger /\ k \in Turns /\ Added(f, b, k, A, E, P)
      /\ Founded(p) /\ Fresh(p, b, k) /\ q = Grown(p, A, E, P)
  BY DEF Grows
<1> DEFINE h == WithNodes(p.graph, DOMAIN A)
<1>1. /\ q = [graph |-> WithEdges(h, E), attr |-> p.attr ++ A, ports |-> p.ports ++ P,
             kindOf |-> p.kindOf, constrained |-> p.constrained]
  BY <1>0 DEF Founded, Grown
<1>2. WellKept(p.graph)
  BY <1>0 DEF Founded
<1>3. DOMAIN A \cap p.graph.nodes = {}
  <2> SUFFICES ASSUME NEW n \in DOMAIN A PROVE n \notin p.graph.nodes
    OBVIOUS
  <2>1. PICK r \in DOMAIN Wrapper(f) : n = NodeFor(<<b, k, r>>)
    BY <1>0 DEF Added
  <2>2. r \in Roles
    BY WrapperShape
  <2> QED BY <1>0, <2>1, <2>2 DEF Fresh
<1>4. DOMAIN E \cap DOMAIN p.graph.edges = {}
  <2> SUFFICES ASSUME NEW e \in DOMAIN E PROVE e \notin DOMAIN p.graph.edges
    OBVIOUS
  <2>1. PICK r \in DOMAIN Wrapper(f) : Fed(f, r) # {} /\ \E i \in DOMAIN InsOf(f, r) : e = EdgeFor(<<b, k, r, i>>)
    BY <1>0, AddedEdges
  <2>2. PICK i \in DOMAIN InsOf(f, r) : e = EdgeFor(<<b, k, r, i>>)
    BY <2>1
  <2>3. <<b, k, r, i>> \in EdgeKeys
    BY <1>0, <2>1, WiresDrawn
  <2> QED BY <1>0, <2>2, <2>3 DEF Fresh
<1>5. WellKept(h) /\ h.nodes = p.graph.nodes \cup DOMAIN A /\ h.edges = p.graph.edges
  <2>1. DOMAIN A \subseteq NodeId
    BY <1>0, AddedEdges
  <2>2. IsGraph(h) /\ EdgesKept(h) /\ RegionsKept(h)
    BY <1>2, <1>3, <2>1, WithNodesKept, WithNodesRegions DEF WellKept
  <2> QED BY <1>2, <2>2 DEF WellKept, WithNodes, IsGraph
<1> HIDE DEF h
<1>6. CanTake(h, E) /\ IsMap(E, EdgeId, Edge)
  BY <1>0, <1>4, <1>5, AddedEdges DEF CanTake
<1>7. WellKept(WithEdges(h, E))
  BY <1>5, <1>6, WithEdgesKept, WithEdgesRegions DEF WellKept
<1>8. WithEdges(h, E).nodes = h.nodes /\ WithEdges(h, E).edges = h.edges ++ E
  BY <1>5 DEF WithEdges, WellKept, IsGraph
<1> QED BY <1>1, <1>3, <1>4, <1>5, <1>7, <1>8

\* What is old stays, with the same edges.
LEMMA OldNodes ==
    ASSUME NEW p, NEW q, NEW f, NEW b, NEW k, NEW A, NEW E, NEW P, Grows(p, q, f, b, k, A, E, P)
    PROVE  /\ \A n \in p.graph.nodes :
                /\ n \in q.graph.nodes /\ q.attr[n] = p.attr[n]
                /\ EdgesInto(q, n) = EdgesInto(p, n) /\ EdgesFrom(q, n) = EdgesFrom(p, n)
           /\ \A e \in DOMAIN p.graph.edges :
                /\ q.graph.edges[e] = p.graph.edges[e] /\ q.ports[e] = p.ports[e]
                /\ {p.graph.edges[e].source, p.graph.edges[e].target} \subseteq p.graph.nodes
<1>0. /\ f \in Wrappable /\ b \in Bridger /\ k \in Turns /\ Added(f, b, k, A, E, P)
      /\ Founded(p) /\ Fresh(p, b, k) /\ q = Grown(p, A, E, P)
  BY DEF Grows
<1>1. /\ WellKept(q.graph) /\ WellKept(p.graph)
      /\ q.graph.nodes = p.graph.nodes \cup DOMAIN A /\ q.graph.edges = p.graph.edges ++ E
      /\ q.attr = p.attr ++ A /\ q.ports = p.ports ++ P
      /\ DOMAIN A \cap p.graph.nodes = {} /\ DOMAIN E \cap DOMAIN p.graph.edges = {}
      /\ DOMAIN p.attr = p.graph.nodes /\ DOMAIN p.ports = DOMAIN p.graph.edges /\ DOMAIN P = DOMAIN E
  <2>1. DOMAIN p.attr = p.graph.nodes /\ DOMAIN p.ports = DOMAIN p.graph.edges /\ DOMAIN P = DOMAIN E
        /\ WellKept(p.graph)
    BY <1>0 DEF Founded, Added
  <2> QED BY <2>1, GrownParts
<1>2. ASSUME NEW e \in DOMAIN p.graph.edges
      PROVE  /\ q.graph.edges[e] = p.graph.edges[e] /\ q.ports[e] = p.ports[e]
             /\ {p.graph.edges[e].source, p.graph.edges[e].target} \subseteq p.graph.nodes
  BY <1>1 DEF ++, WellKept, EdgesKept, EdgesAnchored
<1>3. ASSUME NEW n \in p.graph.nodes
      PROVE  /\ n \in q.graph.nodes /\ q.attr[n] = p.attr[n]
             /\ EdgesInto(q, n) = EdgesInto(p, n) /\ EdgesFrom(q, n) = EdgesFrom(p, n)
  <2>1. n \in q.graph.nodes /\ q.attr[n] = p.attr[n]
    BY <1>1 DEF ++
  <2>2. \A e \in DOMAIN E : e \in DOMAIN q.graph.edges /\ q.graph.edges[e] = E[e] /\ E[e].source # n /\ E[e].target # n
    BY <1>0, <1>1, AddedEdges DEF ++
  <2>3. DOMAIN q.graph.edges = DOMAIN p.graph.edges \cup DOMAIN E
    BY <1>1 DEF ++
  <2>4. /\ EdgesInto(q, n) = {e \in DOMAIN q.graph.edges : q.graph.edges[e].target = n}
        /\ EdgesFrom(q, n) = {e \in DOMAIN q.graph.edges : q.graph.edges[e].source = n}
        /\ EdgesInto(p, n) = {e \in DOMAIN p.graph.edges : p.graph.edges[e].target = n}
        /\ EdgesFrom(p, n) = {e \in DOMAIN p.graph.edges : p.graph.edges[e].source = n}
    BY <1>1, <2>1, EdgesByEnds
  <2> QED BY <1>2, <2>1, <2>2, <2>3, <2>4
<1> QED BY <1>2, <1>3

\* What is new.
LEMMA NewNodes ==
    ASSUME NEW p, NEW q, NEW f, NEW b, NEW k, NEW A, NEW E, NEW P, Grows(p, q, f, b, k, A, E, P)
    PROVE  /\ \A r \in DOMAIN Wrapper(f) :
                NodeFor(<<b, k, r>>) \in q.graph.nodes /\ q.attr[NodeFor(<<b, k, r>>)] = Wrapper(f)[r].node
           /\ \A r \in DOMAIN Wrapper(f) : Fed(f, r) # {} => \A i \in DOMAIN InsOf(f, r) :
                /\ EdgeFor(<<b, k, r, i>>) \in DOMAIN q.graph.edges
                /\ q.graph.edges[EdgeFor(<<b, k, r, i>>)] =
                      [source |-> NodeFor(<<b, k, FeederOf(f, r)>>), target |-> NodeFor(<<b, k, r>>)]
                /\ q.ports[EdgeFor(<<b, k, r, i>>)] = [from |-> i - 1, to |-> i - 1]
<1>0. /\ f \in Wrappable /\ b \in Bridger /\ k \in Turns /\ Added(f, b, k, A, E, P)
      /\ Founded(p) /\ Fresh(p, b, k) /\ q = Grown(p, A, E, P)
  BY DEF Grows
<1>1. /\ q.graph.nodes = p.graph.nodes \cup DOMAIN A /\ q.graph.edges = p.graph.edges ++ E
      /\ q.attr = p.attr ++ A /\ q.ports = p.ports ++ P /\ DOMAIN P = DOMAIN E
  <2>1. DOMAIN P = DOMAIN E
    BY <1>0 DEF Added
  <2> QED BY <2>1, GrownParts
<1>2. ASSUME NEW r \in DOMAIN Wrapper(f)
      PROVE  NodeFor(<<b, k, r>>) \in q.graph.nodes /\ q.attr[NodeFor(<<b, k, r>>)] = Wrapper(f)[r].node
  <2>1. NodeFor(<<b, k, r>>) \in DOMAIN A /\ A[NodeFor(<<b, k, r>>)] = Wrapper(f)[r].node
    BY <1>0 DEF Added
  <2> QED BY <1>1, <2>1 DEF ++
<1>3. ASSUME NEW r \in DOMAIN Wrapper(f), Fed(f, r) # {}, NEW i \in DOMAIN InsOf(f, r)
      PROVE  /\ EdgeFor(<<b, k, r, i>>) \in DOMAIN q.graph.edges
             /\ q.graph.edges[EdgeFor(<<b, k, r, i>>)] =
                   [source |-> NodeFor(<<b, k, FeederOf(f, r)>>), target |-> NodeFor(<<b, k, r>>)]
             /\ q.ports[EdgeFor(<<b, k, r, i>>)] = [from |-> i - 1, to |-> i - 1]
  <2>1. <<r, i>> \in Wires(f)
    BY <1>0, <1>3, WiresDrawn
  <2>2. EdgeFor(<<b, k, <<r, i>>[1], <<r, i>>[2]>>) = EdgeFor(<<b, k, r, i>>)
    OBVIOUS
  <2>3. EdgeFor(<<b, k, r, i>>) \in DOMAIN E
    BY <1>0, <2>1, <2>2 DEF Added
  <2>4. /\ E[EdgeFor(<<b, k, r, i>>)] = [source |-> NodeFor(<<b, k, FeederOf(f, r)>>), target |-> NodeFor(<<b, k, r>>)]
        /\ P[EdgeFor(<<b, k, r, i>>)] = [from |-> i - 1, to |-> i - 1]
    BY <1>0, <1>3 DEF Added
  <2> QED BY <1>1, <2>3, <2>4 DEF ++
<1> QED BY <1>2, <1>3

\* An added edge joins the ports of the same number.
LEMMA NewEdge ==
    ASSUME NEW p, NEW q, NEW f, NEW b, NEW k, NEW A, NEW E, NEW P, Grows(p, q, f, b, k, A, E, P),
           NEW r \in DOMAIN Wrapper(f), Fed(f, r) # {}, NEW i \in DOMAIN InsOf(f, r), NEW e, e = EdgeFor(<<b, k, r, i>>)
    PROVE  /\ e \in DOMAIN q.graph.edges
           /\ q.graph.edges[e].source = NodeFor(<<b, k, FeederOf(f, r)>>)
           /\ q.graph.edges[e].target = NodeFor(<<b, k, r>>)
           /\ q.ports[e].from = i - 1 /\ q.ports[e].to = i - 1
<1>1. /\ e \in DOMAIN q.graph.edges
      /\ q.graph.edges[e] = [source |-> NodeFor(<<b, k, FeederOf(f, r)>>), target |-> NodeFor(<<b, k, r>>)]
      /\ q.ports[e] = [from |-> i - 1, to |-> i - 1]
  BY NewNodes
<1> QED BY <1>1

\* Every edge of the grown graph is old, or feeds a node of the function.
LEMMA EdgesOldOrNew ==
    ASSUME NEW p, NEW q, NEW f, NEW b, NEW k, NEW A, NEW E, NEW P, Grows(p, q, f, b, k, A, E, P), NEW e \in DOMAIN q.graph.edges
    PROVE  \/ e \in DOMAIN p.graph.edges
           \/ \E r \in DOMAIN Wrapper(f) : Fed(f, r) # {} /\ \E i \in DOMAIN InsOf(f, r) : e = EdgeFor(<<b, k, r, i>>)
<1>0. /\ f \in Wrappable /\ b \in Bridger /\ k \in Turns /\ Added(f, b, k, A, E, P)
      /\ Founded(p) /\ Fresh(p, b, k) /\ q = Grown(p, A, E, P)
  BY DEF Grows
<1>1. DOMAIN q.graph.edges = DOMAIN p.graph.edges \cup DOMAIN E
  <2>1. q.graph.edges = p.graph.edges ++ E
    BY GrownParts
  <2> QED BY <2>1 DEF ++
<1>2. \A x \in DOMAIN E : \E r \in DOMAIN Wrapper(f) :
         Fed(f, r) # {} /\ \E i \in DOMAIN InsOf(f, r) : x = EdgeFor(<<b, k, r, i>>)
  BY <1>0, AddedEdges
<1> QED BY <1>1, <1>2

\* The ports of the new edges are those of equal places.
LEMMA GrownFounded ==
    ASSUME NEW p, NEW q, NEW f, NEW b, NEW k, NEW A, NEW E, NEW P, Grows(p, q, f, b, k, A, E, P)
    PROVE  Founded(q)
<1>0. /\ f \in Wrappable /\ b \in Bridger /\ k \in Turns /\ Added(f, b, k, A, E, P)
      /\ Founded(p) /\ Fresh(p, b, k) /\ q = Grown(p, A, E, P)
  BY DEF Grows
<1>1. /\ q = [graph |-> q.graph, attr |-> q.attr, ports |-> q.ports,
              kindOf |-> q.kindOf, constrained |-> q.constrained]
      /\ WellKept(q.graph)
      /\ q.graph.nodes = p.graph.nodes \cup DOMAIN A /\ q.graph.edges = p.graph.edges ++ E
      /\ q.attr = p.attr ++ A /\ q.ports = p.ports ++ P
  BY GrownParts
<1>2. DOMAIN q.attr = q.graph.nodes /\ DOMAIN q.ports = DOMAIN q.graph.edges
  BY <1>0, <1>1 DEF Founded, Added, ++
<1>3. ASSUME NEW e \in DOMAIN p.graph.edges
      PROVE  e \notin BadPorts(q)
  <2>1. e \notin BadPorts(p)
    BY <1>0 DEF Founded
  <2>2. /\ q.graph.edges[e] = p.graph.edges[e] /\ q.ports[e] = p.ports[e]
        /\ q.attr[p.graph.edges[e].source] = p.attr[p.graph.edges[e].source]
        /\ q.attr[p.graph.edges[e].target] = p.attr[p.graph.edges[e].target]
    BY OldNodes
  <2>3. SourceType(q, e) = SourceType(p, e) /\ TargetType(q, e) = TargetType(p, e)
    BY <2>2 DEF SourceType, TargetType, Ins, Outs
  <2> QED BY <2>1, <2>2, <2>3 DEF BadPorts
<1>4. ASSUME NEW r \in DOMAIN Wrapper(f), Fed(f, r) # {}, NEW i \in DOMAIN InsOf(f, r),
             NEW e, e = EdgeFor(<<b, k, r, i>>)
      PROVE  e \notin BadPorts(q)
  <2>1. /\ q.graph.edges[e].source = NodeFor(<<b, k, FeederOf(f, r)>>)
        /\ q.graph.edges[e].target = NodeFor(<<b, k, r>>)
        /\ q.ports[e].from = i - 1 /\ q.ports[e].to = i - 1
    BY <1>4, NewEdge
  <2>2. /\ FeederOf(f, r) \in DOMAIN Wrapper(f) /\ OutsOf(f, FeederOf(f, r)) = InsOf(f, r)
        /\ i \in Nat /\ InsOf(f, r)[i] # None
    BY <1>0, <1>4, WrapperFeeds
  <2>3. /\ q.attr[q.graph.edges[e].source] = Wrapper(f)[FeederOf(f, r)].node
        /\ q.attr[q.graph.edges[e].target] = Wrapper(f)[r].node
    BY <2>1, <2>2, NewNodes
  <2>4. q.attr[q.graph.edges[e].source].sig # None => SourceType(q, e) = InsOf(f, r)[i]
    BY <2>1, <2>2, <2>3 DEF SourceType, Outs, OutsOf
  <2>5. q.attr[q.graph.edges[e].target].sig # None => TargetType(q, e) = InsOf(f, r)[i]
    BY <2>1, <2>2, <2>3 DEF TargetType, Ins, InsOf
  <2> QED BY <2>2, <2>4, <2>5 DEF BadPorts
<1>5. BadPorts(q) = {}
  <2>1. \A e \in BadPorts(q) : e \in DOMAIN q.graph.edges
    BY DEF BadPorts
  <2>2. \A e \in DOMAIN q.graph.edges : e \in DOMAIN p.graph.edges
           \/ \E r \in DOMAIN Wrapper(f) : Fed(f, r) # {} /\ \E i \in DOMAIN InsOf(f, r) : e = EdgeFor(<<b, k, r, i>>)
    BY EdgesOldOrNew
  <2> QED BY <1>3, <1>4, <2>1, <2>2
<1> QED BY <1>1, <1>2, <1>5 DEF Founded

\* Nothing is added to what guards an old call.
LEMMA OldGuarded ==
    ASSUME NEW p, NEW q, NEW f, NEW b, NEW k, NEW A, NEW E, NEW P, Grows(p, q, f, b, k, A, E, P),
           NEW n \in p.graph.nodes, Guarded(p, n)
    PROVE  Guarded(q, n)
<1>1. Founded(p) /\ WellKept(p.graph)
  BY DEF Grows, Founded
<1>2. /\ \A m \in p.graph.nodes :
           /\ m \in q.graph.nodes /\ q.attr[m] = p.attr[m]
           /\ EdgesInto(q, m) = EdgesInto(p, m) /\ EdgesFrom(q, m) = EdgesFrom(p, m)
      /\ \A e \in DOMAIN p.graph.edges : q.graph.edges[e] = p.graph.edges[e] /\ q.ports[e] = p.ports[e]
  BY OldNodes
<1>3. \A m \in p.graph.nodes : EdgesInto(p, m) \subseteq DOMAIN p.graph.edges /\ EdgesFrom(p, m) \subseteq DOMAIN p.graph.edges
  BY <1>1, EdgesByEnds
<1>4. Ins(q, n) = Ins(p, n) /\ Outs(q, n) = Outs(p, n)
  BY <1>2 DEF Ins, Outs
<1>5. ASSUME NEW m, AllFrom(p, n, m) PROVE AllFrom(q, n, m)
  <2> SUFFICES ASSUME NEW i \in DOMAIN Ins(q, n)
               PROVE  \E e \in EdgesInto(q, n) :
                         /\ {x \in EdgesInto(q, n) : q.ports[x].to = i - 1} = {e}
                         /\ q.graph.edges[e].source = m /\ q.ports[e].from = i - 1
    BY DEF AllFrom
  <2>1. PICK e \in EdgesInto(p, n) :
               /\ {x \in EdgesInto(p, n) : p.ports[x].to = i - 1} = {e}
               /\ p.graph.edges[e].source = m /\ p.ports[e].from = i - 1
    BY <1>4, <1>5 DEF AllFrom
  <2>2. {x \in EdgesInto(q, n) : q.ports[x].to = i - 1} = {x \in EdgesInto(p, n) : p.ports[x].to = i - 1}
    BY <1>2, <1>3
  <2> QED BY <1>2, <1>3, <2>1, <2>2
<1>6. ASSUME NEW m \in p.graph.nodes PROVE Receivers(q, m) = Receivers(p, m)
  BY <1>2, <1>3 DEF Receivers
<1>7. \A kind : OfKind(p, kind) \subseteq OfKind(q, kind) /\ OfKind(p, kind) \subseteq p.graph.nodes
  BY <1>2 DEF OfKind
<1> QED BY <1>2, <1>4, <1>5, <1>6, <1>7 DEF Guarded

\* A fed node has its inputs from its feeder, place for place.
LEMMA FedAll ==
    ASSUME NEW p, NEW q, NEW f, NEW b, NEW k, NEW A, NEW E, NEW P, Grows(p, q, f, b, k, A, E, P),
           NEW t \in DOMAIN Wrapper(f), Fed(f, t) # {}
    PROVE  AllFrom(q, NodeFor(<<b, k, t>>), NodeFor(<<b, k, FeederOf(f, t)>>))
<1>0. /\ f \in Wrappable /\ b \in Bridger /\ k \in Turns /\ Added(f, b, k, A, E, P)
      /\ Founded(p) /\ Fresh(p, b, k) /\ q = Grown(p, A, E, P)
  BY DEF Grows
<1> DEFINE n == NodeFor(<<b, k, t>>)
           m == NodeFor(<<b, k, FeederOf(f, t)>>)
<1>1. WellKept(q.graph) /\ n \in q.graph.nodes /\ q.attr[n] = Wrapper(f)[t].node
  BY GrownParts, NewNodes
<1>2. EdgesInto(q, n) = {e \in DOMAIN q.graph.edges : q.graph.edges[e].target = n}
  BY <1>1, EdgesByEnds
<1>3. DOMAIN Ins(q, n) \subseteq DOMAIN InsOf(f, t)
  <2>1. DOMAIN <<>> = {}
    OBVIOUS
  <2> QED BY <1>1, <2>1 DEF Ins, InsOf
<1>4. ASSUME NEW x \in EdgesInto(q, n)
      PROVE  \E j \in DOMAIN InsOf(f, t) : x = EdgeFor(<<b, k, t, j>>)
  <2>1. x \in DOMAIN q.graph.edges /\ q.graph.edges[x].target = n
    BY <1>2
  <2>2. CASE x \in DOMAIN p.graph.edges
    <3>1. n \in p.graph.nodes
      BY <2>1, <2>2, OldNodes
    <3> QED BY <1>0, <3>1, WrapperShape DEF Fresh
  <2>3. CASE \E r \in DOMAIN Wrapper(f) : Fed(f, r) # {} /\ \E i \in DOMAIN InsOf(f, r) : x = EdgeFor(<<b, k, r, i>>)
    <3>1. PICK r \in DOMAIN Wrapper(f) : Fed(f, r) # {} /\ \E i \in DOMAIN InsOf(f, r) : x = EdgeFor(<<b, k, r, i>>)
      BY <2>3
    <3>2. PICK i \in DOMAIN InsOf(f, r) : x = EdgeFor(<<b, k, r, i>>)
      BY <3>1
    <3>3. /\ q.graph.edges[x].source = NodeFor(<<b, k, FeederOf(f, r)>>)
          /\ q.graph.edges[x].target = NodeFor(<<b, k, r>>)
      BY <3>1, <3>2, NewEdge
    <3>4. NodeFor(<<b, k, r>>) = NodeFor(<<b, k, t>>)
      BY <2>1, <3>3
    <3>5. r = t
      BY <1>0, <3>4, DrawnDiffer, WrapperShape
    <3> QED BY <3>2, <3>5
  <2> QED BY <2>1, <2>2, <2>3, EdgesOldOrNew
<1>5. ASSUME NEW i \in DOMAIN InsOf(f, t)
      PROVE  \E e \in EdgesInto(q, n) : /\ {x \in EdgesInto(q, n) : q.ports[x].to = i - 1} = {e}
                                        /\ q.graph.edges[e].source = m /\ q.ports[e].from = i - 1
  <2>1. ASSUME NEW j \in DOMAIN InsOf(f, t), NEW x, x = EdgeFor(<<b, k, t, j>>)
        PROVE  /\ x \in EdgesInto(q, n) /\ q.graph.edges[x].source = m
               /\ q.ports[x].from = j - 1 /\ q.ports[x].to = j - 1
    BY <1>2, <2>1, NewEdge
  <2>2. DOMAIN InsOf(f, t) \subseteq Nat
    BY <1>0, WrapperFeeds
  <2>3. PICK e : e = EdgeFor(<<b, k, t, i>>)
    OBVIOUS
  <2>4. e \in EdgesInto(q, n) /\ q.graph.edges[e].source = m /\ q.ports[e].from = i - 1 /\ q.ports[e].to = i - 1
    BY <2>1, <2>3
  <2>5. ASSUME NEW x \in EdgesInto(q, n), q.ports[x].to = i - 1 PROVE x = e
    <3>1. PICK j \in DOMAIN InsOf(f, t) : x = EdgeFor(<<b, k, t, j>>)
      BY <1>4
    <3>2. q.ports[x].to = j - 1
      BY <2>1, <3>1
    <3>3. j = i
      BY <2>2, <2>5, <3>2
    <3> QED BY <2>3, <3>1, <3>3
  <2> QED BY <2>4, <2>5
<1> QED BY <1>3, <1>5 DEF AllFrom

\* What one node is fed by goes there and nowhere else.
OnlyTo(f, s, t) == \A r \in DOMAIN Wrapper(f) : Fed(f, r) # {} /\ FeederOf(f, r) = s <=> r = t

\* The node that only one other is fed by is received by that one only.
LEMMA FeedsOne ==
    ASSUME NEW p, NEW q, NEW f, NEW b, NEW k, NEW A, NEW E, NEW P, Grows(p, q, f, b, k, A, E, P),
           NEW s \in DOMAIN Wrapper(f), NEW t \in DOMAIN Wrapper(f), NEW i \in DOMAIN InsOf(f, t), OnlyTo(f, s, t)
    PROVE  Receivers(q, NodeFor(<<b, k, s>>)) = {NodeFor(<<b, k, t>>)}
<1>0. /\ f \in Wrappable /\ b \in Bridger /\ k \in Turns /\ Added(f, b, k, A, E, P)
      /\ Founded(p) /\ Fresh(p, b, k) /\ q = Grown(p, A, E, P)
  BY DEF Grows
<1> DEFINE n == NodeFor(<<b, k, s>>)
           m == NodeFor(<<b, k, t>>)
<1>1. WellKept(q.graph) /\ n \in q.graph.nodes
  BY GrownParts, NewNodes
<1>2. EdgesFrom(q, n) = {e \in DOMAIN q.graph.edges : q.graph.edges[e].source = n}
  BY <1>1, EdgesByEnds
<1>3. ASSUME NEW x \in EdgesFrom(q, n) PROVE q.graph.edges[x].target = m
  <2>1. x \in DOMAIN q.graph.edges /\ q.graph.edges[x].source = n
    BY <1>2
  <2>2. CASE x \in DOMAIN p.graph.edges
    <3>1. n \in p.graph.nodes
      BY <2>1, <2>2, OldNodes
    <3> QED BY <1>0, <3>1, WrapperShape DEF Fresh
  <2>3. CASE \E r \in DOMAIN Wrapper(f) : Fed(f, r) # {} /\ \E j \in DOMAIN InsOf(f, r) : x = EdgeFor(<<b, k, r, j>>)
    <3>1. PICK r \in DOMAIN Wrapper(f) : Fed(f, r) # {} /\ \E j \in DOMAIN InsOf(f, r) : x = EdgeFor(<<b, k, r, j>>)
      BY <2>3
    <3>2. PICK j \in DOMAIN InsOf(f, r) : x = EdgeFor(<<b, k, r, j>>)
      BY <3>1
    <3>3. /\ q.graph.edges[x].source = NodeFor(<<b, k, FeederOf(f, r)>>)
          /\ q.graph.edges[x].target = NodeFor(<<b, k, r>>)
      BY <3>1, <3>2, NewEdge
    <3>4. NodeFor(<<b, k, FeederOf(f, r)>>) = NodeFor(<<b, k, s>>)
      BY <2>1, <3>3
    <3>5. FeederOf(f, r) \in DOMAIN Wrapper(f)
      BY <1>0, <3>1, WrapperFeeds
    <3>6. FeederOf(f, r) = s
      BY <1>0, <3>4, <3>5, DrawnDiffer, WrapperShape
    <3> QED BY <3>1, <3>3, <3>6 DEF OnlyTo
  <2> QED BY <2>1, <2>2, <2>3, EdgesOldOrNew
<1>4. EdgeFor(<<b, k, t, i>>) \in EdgesFrom(q, n)
  <2>1. PICK e : e = EdgeFor(<<b, k, t, i>>)
    OBVIOUS
  <2>2. Fed(f, t) # {} /\ FeederOf(f, t) = s
    BY DEF OnlyTo
  <2>3. Fed(f, t) # {} /\ e = EdgeFor(<<b, k, t, i>>)
    BY <2>1, <2>2
  <2>4. /\ e \in DOMAIN q.graph.edges
        /\ q.graph.edges[e].source = NodeFor(<<b, k, FeederOf(f, t)>>)
        /\ q.graph.edges[e].target = NodeFor(<<b, k, t>>)
        /\ q.ports[e].from = i - 1 /\ q.ports[e].to = i - 1
    BY <2>3, NewEdge
  <2> QED BY <1>2, <2>1, <2>2, <2>4
<1> QED BY <1>3, <1>4 DEF Receivers

\* The new call is guarded.
LEMMA NewGuarded ==
    ASSUME NEW p, NEW q, NEW f, NEW b, NEW k, NEW A, NEW E, NEW P, Grows(p, q, f, b, k, A, E, P),
           Checked(f.trust)
    PROVE  Guarded(q, NodeFor(<<b, k, "call">>))
<1>0. /\ f \in Wrappable /\ b \in Bridger /\ k \in Turns /\ Added(f, b, k, A, E, P)
      /\ Founded(p) /\ Fresh(p, b, k) /\ q = Grown(p, A, E, P)
  BY DEF Grows
<1> DEFINE n == NodeFor(<<b, k, "call">>)
<1>1. /\ "call" \in DOMAIN Wrapper(f) /\ "pre" \in DOMAIN Wrapper(f)
      /\ Wrapper(f)["pre"].node.kind = "Verify" /\ OutsOf(f, "call") = Given(f) /\ Wrapper(f)["call"].node.value = f
  <2>1. /\ "call" \in DOMAIN Wrapper(f)
        /\ "pre" \in DOMAIN Wrapper(f) <=> Checked(f.trust)
        /\ "pre" \in DOMAIN Wrapper(f) => Around(f, "pre", "Verify", Taken(f), Taken(f)) /\ Fed(f, "pre") = {}
        /\ Around(f, "call", "FFICall", Taken(f), Given(f))
    BY WrapperShape
  <2>2. Wrapper(f)["call"].node.value = f
    BY <2>1, WrapperCalls
  <2> QED BY <2>1, <2>2 DEF Around
<1>2. \A r \in DOMAIN Wrapper(f) :
         NodeFor(<<b, k, r>>) \in OfKind(q, Wrapper(f)[r].node.kind) /\ q.attr[NodeFor(<<b, k, r>>)] = Wrapper(f)[r].node
  BY NewNodes DEF OfKind
<1>3. \E m \in OfKind(q, "Verify") : AllFrom(q, n, m)
  <2>1. Fed(f, "call") # {} /\ FeederOf(f, "call") = "pre"
    BY <1>0, WrapperFeeds
  <2>2. AllFrom(q, n, NodeFor(<<b, k, "pre">>))
    BY <1>1, <2>1, FedAll
  <2> QED BY <1>1, <1>2, <2>2
<1>4. ASSUME Outs(q, n) # <<>>
      PROVE  \E m \in OfKind(q, "Verify") :
                /\ Receivers(q, n) = {m}
                /\ q.attr[n].value.trust = "unsafe" => \E a \in OfKind(q, "Assume") : Receivers(q, m) = {a}
  <2>1. Given(f) # <<>>
    BY <1>1, <1>2, <1>4 DEF Outs, OutsOf
  <2>2. "post" \in DOMAIN Wrapper(f) /\ Wrapper(f)["post"].node.kind = "Verify" /\ InsOf(f, "post") = Given(f)
    BY <2>1, WrapperShape DEF Around
  <2>3. 1 \in DOMAIN Given(f)
    BY <1>0, <2>1, FunctionShape
  <2>4. Receivers(q, n) = {NodeFor(<<b, k, "post">>)}
    <3>1. OnlyTo(f, "call", "post")
      BY <1>0, <2>1, WrapperFeeds DEF OnlyTo
    <3> QED BY <1>1, <2>2, <2>3, <3>1, FeedsOne
  <2>5. ASSUME f.trust = "unsafe"
        PROVE  \E a \in OfKind(q, "Assume") : Receivers(q, NodeFor(<<b, k, "post">>)) = {a}
    <3>1. "assume" \in DOMAIN Wrapper(f) /\ Wrapper(f)["assume"].node.kind = "Assume" /\ InsOf(f, "assume") = Given(f)
      BY <2>1, <2>5, WrapperShape DEF Around
    <3>2. OnlyTo(f, "post", "assume")
      BY <1>0, <2>1, <2>5, WrapperFeeds DEF OnlyTo
    <3>3. Receivers(q, NodeFor(<<b, k, "post">>)) = {NodeFor(<<b, k, "assume">>)}
      BY <2>2, <2>3, <3>1, <3>2, FeedsOne
    <3> QED BY <1>2, <3>1, <3>3
  <2>6. q.attr[n].value.trust = f.trust
    BY <1>1, <1>2
  <2> QED BY <1>2, <2>2, <2>4, <2>5, <2>6
<1> QED BY <1>3, <1>4 DEF Guarded

\* What is drawn for another function stays out of the graph.
LEMMA StaysFresh ==
    ASSUME NEW p, NEW q, NEW f, NEW b, NEW k, NEW A, NEW E, NEW P, Grows(p, q, f, b, k, A, E, P),
           NEW l \in Turns, l # k, Fresh(p, b, l)
    PROVE  Fresh(q, b, l)
<1>0. f \in Wrappable /\ b \in Bridger /\ k \in Turns /\ Added(f, b, k, A, E, P)
  BY DEF Grows
<1>1. ASSUME NEW r \in Roles PROVE NodeFor(<<b, l, r>>) \notin q.graph.nodes
  <2>1. ASSUME NodeFor(<<b, l, r>>) \in DOMAIN A PROVE FALSE
    <3>1. PICK s \in DOMAIN Wrapper(f) : NodeFor(<<b, l, r>>) = NodeFor(<<b, k, s>>)
      BY <1>0, <2>1 DEF Added
    <3>2. s \in Roles
      BY WrapperShape
    <3> QED BY <1>0, <3>1, <3>2, DrawnDiffer
  <2>2. q.graph.nodes = p.graph.nodes \cup DOMAIN A
    BY GrownParts
  <2> QED BY <2>1, <2>2 DEF Fresh
<1>2. ASSUME NEW r, NEW i, <<b, l, r, i>> \in EdgeKeys, EdgeFor(<<b, l, r, i>>) \in DOMAIN q.graph.edges PROVE FALSE
  <2>1. EdgeFor(<<b, l, r, i>>) \notin DOMAIN p.graph.edges
    BY <1>2 DEF Fresh
  <2>2. PICK s \in DOMAIN Wrapper(f) : Fed(f, s) # {} /\ \E j \in DOMAIN InsOf(f, s) : EdgeFor(<<b, l, r, i>>) = EdgeFor(<<b, k, s, j>>)
    BY <1>2, <2>1, EdgesOldOrNew
  <2>3. PICK j \in DOMAIN InsOf(f, s) : EdgeFor(<<b, l, r, i>>) = EdgeFor(<<b, k, s, j>>)
    BY <2>2
  <2>4. <<b, k, s, j>> \in EdgeKeys
    BY <1>0, <2>2, WiresDrawn
  <2> QED BY <1>0, <1>2, <2>3, <2>4, DrawnDiffer
<1> QED BY <1>1, <1>2 DEF Fresh

\* A process that is somewhere, with functions left and a graph: the graph is one
\* that builds, its checked calls are guarded, and nothing is in it of what is
\* yet to be wrapped.
Guarding(b, now, rest, p) ==
    /\ rest \in Seq(Wrappable) /\ Len(rest) \in Turns \cup {0}
    /\ now = "idle" => p = Blank
    /\ \A k \in Turns : k <= Len(rest) => Fresh(p, b, k)
    /\ Founded(p)
    /\ \A n \in Calls(p) : Checked(p.attr[n].value.trust) => Guarded(p, n)
GuardInv == \A b \in Bridger : Guarding(b, doing[b], left[b], made[b])

\* Functions are counted from 1, down to 0.
LEMMA TurnsAreNumbers ==
    ASSUME NEW k \in Turns
    PROVE  k \in Nat \ {0} /\ k - 1 \in Turns \cup {0}
<1>1. PICK d \in Declarations : k \in DOMAIN d
  BY DEF Turns
<1>2. d \in Seq(Range(d))
  BY DeclarationAssumption
<1>3. PICK n \in Nat : DOMAIN d = 1..n
  BY <1>2, LenProperties
<1>4. k \in 1..n /\ (k - 1 = 0 \/ k - 1 \in 1..n)
  BY <1>1, <1>3
<1> QED BY <1>3, <1>4 DEF Turns

\* Nothing is in the empty graph.
LEMMA BlankGuarding ==
    ASSUME NEW b \in Bridger, NEW now, NEW rest \in Seq(Wrappable), Len(rest) \in Turns \cup {0}
    PROVE  Guarding(b, now, rest, Blank)
<1>1. /\ Blank.graph = EmptyGraph /\ Blank.attr = EmptyMap /\ Blank.ports = EmptyMap
      /\ Blank = [graph |-> Blank.graph, attr |-> Blank.attr, ports |-> Blank.ports,
                  kindOf |-> Blank.kindOf, constrained |-> Blank.constrained]
  BY DEF Blank
<1>2. EmptyGraph.nodes = {} /\ DOMAIN EmptyGraph.edges = {} /\ DOMAIN EmptyMap = {}
  BY DEF EmptyGraph, EmptyMap
<1>3. WellKept(EmptyGraph)
  BY EmptyGraphKept, EmptyRegions DEF WellKept
<1>4. Founded(Blank)
  BY <1>1, <1>2, <1>3 DEF Founded, BadPorts
<1>5. \A k \in Turns : Fresh(Blank, b, k)
  BY <1>1, <1>2 DEF Fresh
<1>6. Calls(Blank) = {}
  BY <1>1, <1>2 DEF Calls, OfKind
<1> QED BY <1>4, <1>5, <1>6 DEF Guarding

\* A function whose type does not bridge is passed over.
LEMMA ShorterGuarding ==
    ASSUME NEW b \in Bridger, NEW now, NEW rest, rest # <<>>, NEW p, Guarding(b, now, rest, p)
    PROVE  Guarding(b, now, Tail(rest), p)
<1>1. rest \in Seq(Wrappable) /\ Len(rest) \in Turns \cup {0}
  BY DEF Guarding
<1>2. now = "idle" => p = Blank
  BY DEF Guarding
<1>3. \A k \in Turns : k <= Len(rest) => Fresh(p, b, k)
  BY DEF Guarding
<1>4. Founded(p)
  BY DEF Guarding
<1>5. \A n \in Calls(p) : Checked(p.attr[n].value.trust) => Guarded(p, n)
  BY DEF Guarding
<1>6. Tail(rest) \in Seq(Wrappable) /\ Len(Tail(rest)) = Len(rest) - 1 /\ Len(rest) \in Nat \ {0}
  BY <1>1, HeadTailProperties, EmptySeq
<1>7. Len(Tail(rest)) \in Turns \cup {0}
  BY <1>1, <1>6, TurnsAreNumbers
<1>8. \A k \in Turns : k <= Len(Tail(rest)) => Fresh(p, b, k)
  <2> SUFFICES ASSUME NEW k \in Turns, k <= Len(Tail(rest)) PROVE Fresh(p, b, k)
    OBVIOUS
  <2>1. k \in Nat
    BY TurnsAreNumbers
  <2>2. k <= Len(rest)
    BY <1>6, <2>1
  <2> QED BY <1>3, <2>2
<1>9. Tail(rest) \in Seq(Wrappable)
  BY <1>6
<1> QED BY <1>9, <1>2, <1>4, <1>5, <1>7, <1>8 DEF Guarding

\* One more function is wrapped.
LEMMA WrapGuarding ==
    ASSUME NEW b \in Bridger, NEW rest, rest # <<>>, NEW p, Guarding(b, "bridging", rest, p)
    PROVE  Guarding(b, "bridging", Tail(rest), WithFunction(p, rest[1], b, Len(rest)))
<1> DEFINE f == rest[1]
           k == Len(rest)
           q == WithFunction(p, f, b, k)
<1>1. /\ rest \in Seq(Wrappable) /\ k \in Turns \cup {0} /\ Founded(p)
      /\ \A l \in Turns : l <= k => Fresh(p, b, l)
      /\ \A n \in Calls(p) : Checked(p.attr[n].value.trust) => Guarded(p, n)
  BY DEF Guarding
<1>2. k \in Nat \ {0} /\ f \in Wrappable /\ Tail(rest) \in Seq(Wrappable) /\ Len(Tail(rest)) = k - 1
  BY <1>1, LenProperties, EmptySeq, ElementOfSeq, HeadTailProperties
<1>3. k \in Turns /\ k - 1 \in Turns \cup {0}
  BY <1>1, <1>2, TurnsAreNumbers
<1> HIDE DEF f, k
<1>4. PICK A, E, P : Added(f, b, k, A, E, P) /\ q = Grown(p, A, E, P)
  BY <1>2, <1>3, WithFunctionAdds
<1> HIDE DEF q
<1>5. Grows(p, q, f, b, k, A, E, P)
  BY <1>1, <1>2, <1>3, <1>4 DEF Grows
<1>6. Founded(q)
  BY <1>5, GrownFounded
<1>7. ASSUME NEW l \in Turns, l <= k - 1 PROVE Fresh(q, b, l)
  <2>1. l \in Nat
    BY TurnsAreNumbers
  <2>2. l <= k /\ l # k
    BY <1>2, <1>7, <2>1
  <2> QED BY <1>1, <1>5, <2>2, StaysFresh
<1>8. ASSUME NEW n \in Calls(q), Checked(q.attr[n].value.trust) PROVE Guarded(q, n)
  <2>1. n \in q.graph.nodes /\ q.attr[n].kind = "FFICall"
    BY <1>8 DEF Calls, OfKind
  <2>2. CASE n \in p.graph.nodes
    <3>1. q.attr[n] = p.attr[n]
      BY <1>5, <2>2, OldNodes
    <3>2. n \in Calls(p) /\ Checked(p.attr[n].value.trust)
      BY <1>8, <2>1, <2>2, <3>1 DEF Calls, OfKind
    <3> QED BY <1>1, <1>5, <2>2, <3>2, OldGuarded
  <2>3. CASE n \notin p.graph.nodes
    <3>1. n \in DOMAIN A
      BY <1>5, <2>1, <2>3, GrownParts
    <3>2. PICK r \in DOMAIN Wrapper(f) : n = NodeFor(<<b, k, r>>)
      BY <1>4, <3>1 DEF Added
    <3>3. q.attr[n] = Wrapper(f)[r].node
      BY <1>5, <3>2, NewNodes
    <3>4. r = "call" /\ Checked(f.trust)
      BY <1>8, <2>1, <3>2, <3>3, WrapperCalls
    <3> QED BY <1>5, <3>2, <3>4, NewGuarded
  <2> QED BY <2>2, <2>3
<1>9. Guarding(b, "bridging", Tail(rest), q)
  BY <1>2, <1>3, <1>6, <1>7, <1>8 DEF Guarding
<1> QED BY <1>9 DEF q, f, k

\* At first nothing is wrapped.
LEMMA GuardStart == ForeignInit => GuardInv
<1> SUFFICES ASSUME ForeignInit, NEW b \in Bridger PROVE Guarding(b, doing[b], left[b], made[b])
  BY DEF GuardInv
<1>1. left[b] = <<>> /\ made[b] = Blank /\ <<>> \in Seq(Wrappable) /\ Len(<<>>) = 0
  BY EmptySeq DEF ForeignInit
<1> QED BY <1>1, BlankGuarding

\* Every step keeps the guards.
LEMMA GuardStep == BridgeInv /\ GuardInv /\ [ForeignNext]_foreignVars => GuardInv'
<1> SUFFICES ASSUME BridgeInv, GuardInv, [ForeignNext]_foreignVars, NEW b \in Bridger
             PROVE  Guarding(b, doing'[b], left'[b], made'[b])
  BY DEF GuardInv
<1>1. Guarding(b, doing[b], left[b], made[b]) /\ BridgeTypes
  BY DEF GuardInv, BridgeInv
<1>2. ASSUME left'[b] = left[b], made'[b] = made[b], doing'[b] # "idle" \/ doing'[b] = doing[b]
      PROVE  Guarding(b, doing'[b], left'[b], made'[b])
  BY <1>1, <1>2 DEF Guarding
<1>3. CASE UNCHANGED foreignVars
  BY <1>2, <1>3 DEF foreignVars
<1>4. ASSUME NEW p \in Bridger, NEW d \in Declarations, NEW policy \in Policies, Declare(p, d, policy)
      PROVE  Guarding(b, doing'[b], left'[b], made'[b])
  <2>1. doing[p] = "idle" /\ left' = [left EXCEPT ![p] = d] /\ made' = made
    BY <1>4 DEF Declare
  <2>2. CASE p = b
    <3>1. left'[b] = d /\ made'[b] = Blank
      BY <1>1, <2>1, <2>2 DEF Guarding, BridgeTypes
    <3>2. d \in Seq(Range(d)) /\ Range(d) \subseteq Wrappable
      BY DeclarationAssumption DEF Wrappable
    <3>3. d \in Seq(Wrappable)
      BY <3>2, SeqMonotonic
    <3>4. Len(d) \in Turns \cup {0}
      <4>1. PICK n \in Nat : Len(d) = n /\ DOMAIN d = 1..n
        BY <3>3, LenProperties
      <4>2. n = 0 \/ n \in DOMAIN d
        BY <4>1
      <4> QED BY <4>1, <4>2 DEF Turns
    <3> QED BY <3>1, <3>3, <3>4, BlankGuarding
  <2>3. CASE p # b
    <3>1. doing'[b] = doing[b] /\ left'[b] = left[b] /\ made'[b] = made[b]
      BY <1>1, <1>4, <2>1, <2>3 DEF Declare, Turn, BridgeTypes
    <3> QED BY <1>2, <3>1
  <2> QED BY <2>2, <2>3
<1>5. ASSUME NEW p \in Bridger, Wrap(p)
      PROVE  Guarding(b, doing'[b], left'[b], made'[b])
  <2>1. CASE p # b
    <3>1. doing'[b] = doing[b] /\ left'[b] = left[b] /\ made'[b] = made[b]
      BY <1>1, <1>5, <2>1 DEF Wrap, Turn, BridgeTypes
    <3> QED BY <1>2, <3>1
  <2>2. CASE p = b
    <3>1. doing[b] = "bridging" /\ left[b] # <<>>
      BY <1>5, <2>2 DEF Wrap
    <3>2. CASE left' = [left EXCEPT ![b] = Tail(@)] /\ UNCHANGED <<doing, made>>
      <4>1. left'[b] = Tail(left[b]) /\ made'[b] = made[b] /\ doing'[b] = doing[b]
        BY <1>1, <3>2 DEF BridgeTypes
      <4>2. Guarding(b, doing[b], Tail(left[b]), made[b])
        BY <1>1, <3>1, ShorterGuarding
      <4> QED BY <4>1, <4>2
    <3>3. CASE /\ made' = [made EXCEPT ![b] = WithFunction(@, left[b][1], b, Len(left[b]))]
               /\ left' = [left EXCEPT ![b] = Tail(@)] /\ UNCHANGED doing
      <4>1. /\ made'[b] = WithFunction(made[b], left[b][1], b, Len(left[b])) /\ left'[b] = Tail(left[b])
            /\ doing'[b] = "bridging"
        BY <1>1, <3>1, <3>3 DEF BridgeTypes
      <4>2. Guarding(b, "bridging", left[b], made[b])
        BY <1>1, <3>1
      <4> QED BY <3>1, <4>1, <4>2, WrapGuarding
    <3>4. CASE Turn(b, "failed") /\ UNCHANGED <<made, left>>
      <4>1. doing'[b] = "failed" /\ left'[b] = left[b] /\ made'[b] = made[b]
        BY <1>1, <3>4 DEF Turn, BridgeTypes
      <4> QED BY <1>2, <4>1
    <3> QED BY <1>5, <2>2, <3>2, <3>3, <3>4 DEF Wrap
  <2> QED BY <2>1, <2>2
<1>6. ASSUME NEW p \in Bridger, Open(p) \/ Write(p) \/ CutShort(p)
      PROVE  Guarding(b, doing'[b], left'[b], made'[b])
  <2>1. left'[b] = left[b] /\ made'[b] = made[b]
    BY <1>6 DEF Open, Write, CutShort
  <2>2. doing'[b] # "idle" \/ doing'[b] = doing[b]
    BY <1>1, <1>6 DEF Open, Write, CutShort, Turn, BridgeTypes
  <2> QED BY <1>2, <2>1, <2>2
<1> QED BY <1>3, <1>4, <1>5, <1>6 DEF ForeignNext

\* Whatever was wrapped before and however the command ends, the graph would pass
\* validate, and every wrapped call is guarded unless its function is verified
\* (bridge_from_c.rs).
THEOREM GuardsAlwaysInPlace == ForeignSpec => []GuardsInPlace
<1>1. GuardInv => GuardsInPlace
  <2> SUFFICES ASSUME GuardInv, NEW b \in Bridger
               PROVE  /\ WellFormed(made[b])
                      /\ \A n \in Calls(made[b]) : Checked(made[b].attr[n].value.trust) => Guarded(made[b], n)
    BY DEF GuardsInPlace
  <2>1. /\ Founded(made[b])
        /\ \A n \in Calls(made[b]) : Checked(made[b].attr[n].value.trust) => Guarded(made[b], n)
    BY DEF GuardInv, Guarding
  <2>2. WellKept(made[b].graph) /\ BadPorts(made[b]) = {}
    BY <2>1 DEF Founded
  <2> QED BY <2>1, <2>2, KeptIsValid DEF WellFormed
<1> QED BY <1>1, BridgeStart, BridgeStep, GuardStart, GuardStep, PTL DEF ForeignSpec

-----------------------------------------------------------------------------
(* Canonicalization *)

\* Every node has a representative: a node of its content that stands for itself.
Stands(p, r) ==
    /\ r \in [p.graph.nodes -> p.graph.nodes]
    /\ \A n \in p.graph.nodes : ContentOf(p, r[n]) = ContentOf(p, n) /\ r[r[n]] = r[n]

\* What has been made of the program p, whose nodes r represents, is w.
Canonicalized(p, r, w) ==
    /\ w = [graph |-> w.graph, attr |-> w.attr, ports |-> p.ports,
            kindOf |-> w.kindOf, constrained |-> p.constrained]
    /\ WellKept(w.graph)
    /\ w.graph.nodes = {n \in p.graph.nodes : r[n] = n}
    /\ w.graph.edges = [e \in DOMAIN p.graph.edges |-> [source |-> r[p.graph.edges[e].source],
                                                        target |-> r[p.graph.edges[e].target]]]
    /\ w.attr = [n \in w.graph.nodes |-> p.attr[n]]
    /\ DOMAIN w.kindOf = DOMAIN w.graph.regions
    /\ p.constrained \subseteq DOMAIN w.graph.regions

\* What SourceAssumption says of each program.
IsProgram(p) ==
    /\ p = [graph |-> p.graph, attr |-> p.attr, ports |-> p.ports,
            kindOf |-> p.kindOf, constrained |-> p.constrained]
    /\ WellKept(p.graph) /\ IsFiniteSet(p.graph.nodes) /\ BadPorts(p) = {}
    /\ DOMAIN p.attr = p.graph.nodes /\ DOMAIN p.ports = DOMAIN p.graph.edges
    /\ DOMAIN p.kindOf = DOMAIN p.graph.regions /\ p.constrained \subseteq DOMAIN p.graph.regions

LEMMA SourceIsProgram ==
    ASSUME NEW s \in SourceFile PROVE IsProgram(ProgramOf[s])
BY SourceAssumption DEF IsProgram, WellKept

\* The first of a group stands for all of it.
LEMMA RepresentativesStand ==
    ASSUME NEW p, NEW r \in Representatives(p) PROVE Stands(p, r)
<1>1. PICK T \in SUBSET p.graph.nodes :
         /\ \A n \in p.graph.nodes : \E m \in T : T \cap Duplicates(p, n) = {m}
         /\ r = [n \in p.graph.nodes |-> CHOOSE m \in T : m \in Duplicates(p, n)]
  BY DEF Representatives
<1>2. ASSUME NEW n \in p.graph.nodes
      PROVE  r[n] \in T /\ r[n] \in Duplicates(p, n)
  <2>1. \E m \in T : m \in Duplicates(p, n)
    BY <1>1
  <2> QED BY <1>1, <2>1
<1>3. ASSUME NEW n \in p.graph.nodes
      PROVE  r[n] \in p.graph.nodes /\ ContentOf(p, r[n]) = ContentOf(p, n)
  BY <1>2 DEF Duplicates
<1>4. ASSUME NEW n \in p.graph.nodes
      PROVE  r[r[n]] = r[n]
  <2>1. r[n] \in p.graph.nodes /\ Duplicates(p, r[n]) = Duplicates(p, n)
    BY <1>3 DEF Duplicates
  <2>2. r[r[n]] \in T \cap Duplicates(p, n) /\ r[n] \in T \cap Duplicates(p, n)
    BY <1>2, <2>1
  <2> QED BY <1>1, <2>2
<1> QED BY <1>1, <1>3, <1>4 DEF Stands

\* Moving the edges to other nodes of the graph keeps it well kept.
LEMMA RewiredKept ==
    ASSUME NEW g, WellKept(g), NEW r \in [g.nodes -> g.nodes]
    PROVE  WellKept(Rewired(g, r))
<1> DEFINE h == Rewired(g, r)
           moved == {e \in DOMAIN g.edges :
                       \E n \in {g.edges[e].source, g.edges[e].target} : r[n] # n}
<1>1. /\ h.nodes = g.nodes /\ h.regions = g.regions /\ h.nodeRegion = g.nodeRegion
      /\ h.regionChildren = g.regionChildren /\ h.regionParent = g.regionParent
      /\ h.edges = [e \in DOMAIN g.edges |-> [source |-> r[g.edges[e].source], target |-> r[g.edges[e].target]]]
      /\ h.outgoing = [n \in DOMAIN g.outgoing |-> [e \in EdgeId |->
             IF e \notin moved THEN g.outgoing[n][e] ELSE IF r[g.edges[e].source] = n THEN 1 ELSE 0]]
      /\ h.incoming = [n \in DOMAIN g.incoming |-> [e \in EdgeId |->
             IF e \notin moved THEN g.incoming[n][e] ELSE IF r[g.edges[e].target] = n THEN 1 ELSE 0]]
  BY DEF Rewired, WellKept, IsGraph
<1>2. \A e \in DOMAIN g.edges : {g.edges[e].source, g.edges[e].target} \subseteq g.nodes
  BY DEF WellKept, EdgesKept, EdgesAnchored
<1>3. h \in [nodes    : SUBSET NodeId, edges : {h.edges}, regions : {h.regions},
              outgoing : {h.outgoing},  incoming : {h.incoming},
              nodeRegion : {h.nodeRegion}, regionChildren : {h.regionChildren},
              regionParent : {h.regionParent}]
  BY DEF Rewired, WellKept, IsGraph
<1> HIDE DEF h
<1>4. IsGraph(h)
  <2>1. IsMap(h.edges, EdgeId, Edge)
    BY <1>1, <1>2 DEF WellKept, IsGraph, IsMap, Edge
  <2>2. IsMap(h.outgoing, NodeId, EdgeList) /\ IsMap(h.incoming, NodeId, EdgeList)
    BY <1>1 DEF WellKept, IsGraph, IsMap, EdgeList
  <2> QED BY <1>1, <1>3, <2>1, <2>2 DEF WellKept, IsGraph
<1>5. EdgesAnchored(h) /\ ChildrenMirrored(h)
  BY <1>1, <1>2 DEF WellKept, EdgesKept, EdgesAnchored, ChildrenMirrored
<1>6. IndexExact(h)
  <2>1. DOMAIN h.outgoing = h.nodes /\ DOMAIN h.incoming = h.nodes
    BY <1>1 DEF WellKept, EdgesKept, IndexExact
  <2>2. ASSUME NEW n \in h.nodes, NEW e \in EdgeId
        PROVE  /\ h.outgoing[n][e] = IF e \in DOMAIN h.edges /\ h.edges[e].source = n THEN 1 ELSE 0
               /\ h.incoming[n][e] = IF e \in DOMAIN h.edges /\ h.edges[e].target = n THEN 1 ELSE 0
    BY <1>1, <1>2 DEF WellKept, EdgesKept, IndexExact
  <2> QED BY <2>1, <2>2 DEF IndexExact
<1>7. RegionsKept(h)
  BY <1>1 DEF WellKept, RegionsKept, ParentMirrored, HomeExact, Forest
<1> QED BY <1>4, <1>5, <1>6, <1>7 DEF WellKept, EdgesKept, h

\* Reducing a program changes every part but its ports.
LEMMA ReducedParts ==
    ASSUME NEW w, w = [graph |-> w.graph, attr |-> w.attr, ports |-> w.ports,
                       kindOf |-> w.kindOf, constrained |-> w.constrained],
           NEW k, w.constrained \subseteq DOMAIN k.regions
    PROVE  Reduced(w, k) = [graph |-> k, attr |-> [n \in k.nodes |-> w.attr[n]], ports |-> w.ports,
                            kindOf |-> [c \in DOMAIN k.regions |-> w.kindOf[c]],
                            constrained |-> w.constrained]
<1>1. PICK g, a, b, c, d : w = [graph |-> g, attr |-> a, ports |-> b, kindOf |-> c, constrained |-> d]
  OBVIOUS
<1>2. w.attr = a /\ w.ports = b /\ w.kindOf = c /\ w.constrained = d
  BY <1>1
<1>3. PICK A, C, D : A = Restrict(a, k.nodes) /\ C = Restrict(c, DOMAIN k.regions) /\ D = d \cap DOMAIN k.regions
  OBVIOUS
<1>4. Reduced(w, k) = [w EXCEPT !.graph = k, !.attr = A, !.kindOf = C, !.constrained = D]
  BY <1>2, <1>3 DEF Reduced
<1>5. Reduced(w, k) = [graph |-> k, attr |-> A, ports |-> b, kindOf |-> C, constrained |-> D]
  BY <1>1, <1>4
<1>6. D = d
  BY <1>2, <1>3
<1> QED BY <1>2, <1>3, <1>5, <1>6 DEF Restrict

\* A duplicate has no edge any more when it goes.
LEMMA MergeCanonicalizes ==
    ASSUME NEW p, IsProgram(p), NEW r, Stands(p, r)
    PROVE  Canonicalized(p, r, Merge(p, r))
<1> DEFINE g == p.graph
           h == Rewired(g, r)
           gone == {n \in g.nodes : r[n] # n}
           k == WithoutNodes(h, gone)
<1>1. WellKept(g) /\ r \in [g.nodes -> g.nodes] /\ gone \subseteq NodeId
  BY DEF IsProgram, Stands, WellKept, IsGraph
<1>2. WellKept(h)
  BY <1>1, RewiredKept
<1>3. WellKept(k)
  BY <1>1, <1>2, WithoutNodesKept, WithoutNodesRegions DEF WellKept
<1>4. /\ h.nodes = g.nodes /\ h.regions = g.regions
      /\ h.edges = [e \in DOMAIN g.edges |-> [source |-> r[g.edges[e].source], target |-> r[g.edges[e].target]]]
  BY <1>1 DEF Rewired, WellKept, IsGraph
<1>5. \A e \in DOMAIN h.edges : h.edges[e].source \notin gone /\ h.edges[e].target \notin gone
  <2>1. \A e \in DOMAIN g.edges : g.edges[e].source \in g.nodes /\ g.edges[e].target \in g.nodes
    BY <1>1 DEF WellKept, EdgesKept, EdgesAnchored
  <2>2. \A n \in g.nodes : r[n] \notin gone
    BY DEF Stands
  <2>3. \A e \in DOMAIN h.edges : /\ e \in DOMAIN g.edges
                                 /\ h.edges[e].source = r[g.edges[e].source]
                                 /\ h.edges[e].target = r[g.edges[e].target]
    BY <1>4
  <2> HIDE DEF h, gone
  <2> QED BY <2>1, <2>2, <2>3
<1>6. k.nodes = {n \in g.nodes : r[n] = n} /\ k.edges = h.edges /\ DOMAIN k.regions = DOMAIN g.regions
  <2>1. {e \in DOMAIN h.edges : \E n \in gone :
                   \/ n \in DOMAIN h.outgoing /\ h.outgoing[n][e] > 0
                   \/ n \in DOMAIN h.incoming /\ h.incoming[n][e] > 0} = {}
    BY <1>2, <1>5 DEF WellKept, EdgesKept, IndexExact, IsGraph, IsMap
  <2>2. k.edges = Without(h.edges, {})
    BY <2>1 DEF WithoutNodes
  <2>3. k.edges = h.edges
    BY <2>2, <1>4 DEF Without, Restrict
  <2> QED BY <1>4, <2>3 DEF WithoutNodes
<1> HIDE DEF h, k
<1>7. Merge(p, r) = Reduced(p, k)
  BY DEF Merge, h, k
<1>8. Merge(p, r) = [graph |-> k, attr |-> [n \in k.nodes |-> p.attr[n]], ports |-> p.ports,
                     kindOf |-> [c \in DOMAIN k.regions |-> p.kindOf[c]], constrained |-> p.constrained]
  BY <1>6, <1>7, ReducedParts DEF IsProgram
<1> QED BY <1>3, <1>4, <1>6, <1>8 DEF Canonicalized, IsProgram

\* A region that is dissolved takes no node and no edge with it.
LEMMA DissolvedCanonicalizes ==
    ASSUME NEW p, NEW r, NEW w, Canonicalized(p, r, w),
           NEW q \in DOMAIN w.graph.regions, q \notin p.constrained
    PROVE  /\ Canonicalized(p, r, Dissolved(w, q))
           /\ DOMAIN Dissolved(w, q).graph.regions = DOMAIN w.graph.regions \ {q}
<1> DEFINE k == WithoutRegion(w.graph, q)
<1>1. WellKept(w.graph)
  BY DEF Canonicalized
<1>2. WellKept(k)
  BY <1>1, WithoutRegionKept, WithoutRegionRegions DEF WellKept
<1>3. k.nodes = w.graph.nodes /\ k.edges = w.graph.edges /\ DOMAIN k.regions = DOMAIN w.graph.regions \ {q}
  BY <1>1 DEF WithoutRegion, WellKept, IsGraph
<1> HIDE DEF k
<1>4. Dissolved(w, q) = Reduced(w, k)
  BY DEF Dissolved, k
<1>5. /\ w = [graph |-> w.graph, attr |-> w.attr, ports |-> w.ports,
              kindOf |-> w.kindOf, constrained |-> w.constrained]
      /\ w.ports = p.ports /\ w.constrained = p.constrained /\ w.constrained \subseteq DOMAIN k.regions
  BY <1>1, <1>3 DEF Canonicalized
<1>6. Dissolved(w, q) = [graph |-> k, attr |-> [n \in k.nodes |-> w.attr[n]], ports |-> w.ports,
                          kindOf |-> [c \in DOMAIN k.regions |-> w.kindOf[c]],
                          constrained |-> w.constrained]
  BY <1>4, <1>5, ReducedParts
<1>7. w.graph.nodes \subseteq p.graph.nodes /\ w.attr = [n \in w.graph.nodes |-> p.attr[n]]
  BY DEF Canonicalized
<1> QED BY <1>2, <1>3, <1>5, <1>6, <1>7 DEF Canonicalized

\* Nor does one that is flattened.
LEMMA FlattenedCanonicalizes ==
    ASSUME NEW p, NEW r, NEW w, Canonicalized(p, r, w), NEW q \in Flattenable(w)
    PROVE  Canonicalized(p, r, Flattened(w, q))
<1> DEFINE k == InlinedRegion(w.graph, q)
<1>1. WellKept(w.graph) /\ q \in DOMAIN w.graph.regions /\ q \notin p.constrained
  BY DEF Canonicalized, Flattenable, WellKept, RegionsKept, ParentMirrored
<1>2. WellKept(k)
  BY <1>1, InlinedRegionKept, InlinedRegionRegions DEF WellKept
<1>3. k.nodes = w.graph.nodes /\ k.edges = w.graph.edges /\ DOMAIN k.regions = DOMAIN w.graph.regions \ {q}
  BY <1>1 DEF InlinedRegion, WellKept, IsGraph
<1> HIDE DEF k
<1>4. Flattened(w, q) = Reduced(w, k)
  BY DEF Flattened, k
<1>5. /\ w = [graph |-> w.graph, attr |-> w.attr, ports |-> w.ports,
              kindOf |-> w.kindOf, constrained |-> w.constrained]
      /\ w.ports = p.ports /\ w.constrained = p.constrained /\ w.constrained \subseteq DOMAIN k.regions
  BY <1>1, <1>3 DEF Canonicalized
<1>6. Flattened(w, q) = [graph |-> k, attr |-> [n \in k.nodes |-> w.attr[n]], ports |-> w.ports,
                          kindOf |-> [c \in DOMAIN k.regions |-> w.kindOf[c]],
                          constrained |-> w.constrained]
  BY <1>4, <1>5, ReducedParts
<1>7. w.graph.nodes \subseteq p.graph.nodes /\ w.attr = [n \in w.graph.nodes |-> p.attr[n]]
  BY DEF Canonicalized
<1> QED BY <1>2, <1>3, <1>5, <1>6, <1>7 DEF Canonicalized

\* An edge keeps its ports, and both its ends their signatures.
LEMMA CanonicalizedPorts ==
    ASSUME NEW p, IsProgram(p), NEW r, Stands(p, r), NEW w, Canonicalized(p, r, w)
    PROVE  BadPorts(w) = {}
<1> SUFFICES ASSUME NEW e \in DOMAIN w.graph.edges, e \in BadPorts(w)
             PROVE  FALSE
  BY DEF BadPorts
<1> DEFINE a == p.graph.edges[e].source
           b == p.graph.edges[e].target
<1>1. e \in DOMAIN p.graph.edges /\ a \in p.graph.nodes /\ b \in p.graph.nodes
  BY DEF Canonicalized, IsProgram, WellKept, EdgesKept, EdgesAnchored
<1>2. w.graph.edges[e].source = r[a] /\ w.graph.edges[e].target = r[b] /\ w.ports = p.ports
  BY <1>1 DEF Canonicalized
<1>3. w.attr[r[a]].sig = p.attr[a].sig /\ w.attr[r[b]].sig = p.attr[b].sig
  BY <1>1 DEF Stands, ContentOf, Canonicalized
<1>4. Outs(w, r[a]) = Outs(p, a) /\ Ins(w, r[b]) = Ins(p, b)
  BY <1>3 DEF Outs, Ins
<1>5. SourceType(w, e) = SourceType(p, e) /\ TargetType(w, e) = TargetType(p, e)
  BY <1>2, <1>4 DEF SourceType, TargetType
<1>6. e \in BadPorts(p)
  BY <1>1, <1>2, <1>3, <1>5 DEF BadPorts
<1> QED BY <1>6 DEF IsProgram

-----------------------------------------------------------------------------
(* The build *)

\* Where a build stands.
Control ==
    /\ main \in SourceFile \cup {Unreadable} /\ decisions \in FirstDecisions \cup OtherDecisions
    /\ out # None => DOMAIN out \subseteq {"main.ll", "main.o", "main.ld", "main"}
    /\ edits \in 0..MaxEdits /\ count \in 0..MaxBuilds
    /\ status \in Statuses /\ (status \notin Ended => platforms # <<>> /\ request \in Request)
    /\ request # None => request \in Request

\* No build verifies under more than this.
Lenient == profile \in {"development", "integration"}

\* What it has of its program.
Loaded ==
    \/ origin = None /\ work = NoProgram /\ trivial = {}
    \/ /\ origin \in SourceFile
       /\ Stands(Original, group) /\ Canonicalized(Original, group, work)
       /\ trivial \subseteq DOMAIN work.graph.regions \ work.constrained

\* Nodes get their values along the order.
Ordered ==
    /\ order = <<>> \/ order \in [1..Cardinality(work.graph.nodes) -> work.graph.nodes]
    /\ DOMAIN values \subseteq ToSet(order)
    /\ status \in {"resolved", "ready", "loaded", "verified"} => order = <<>>

\* What is there once the object was written is of this build, for the
\* platform it is at; so is the executable once that was linked.
MadeHere ==
    /\ status = "emitted" => request.mode = "executable"
    /\ status \in {"emitted", "written", "built", "ok"} /\ request.mode \in {"object", "executable"} /\ out # None =>
         /\ "main.o" \in DOMAIN out => out["main.o"] = Stamp
         /\ status # "emitted" /\ request.mode = "executable" /\ "main" \in DOMAIN out => out["main"] = Stamp

BuildInv == Control /\ Lenient /\ Loaded /\ Ordered /\ MadeHere

\* The files of the project and the standing of the build.
LEMMA ControlStep ==
    ASSUME BuildInv, BuildNext PROVE Control'
<1> USE BuildAssumption DEF BuildInv, Control, Statuses, Ended
<1>1. CASE \E q \in Request : StartBuild(q)
  BY <1>1 DEF StartBuild, files
<1>2. CASE ReadDecisions
  BY <1>2 DEF ReadDecisions, Stop, files
<1>3. CASE CannotBuild
  BY <1>3 DEF CannotBuild, Stop, files
<1>4. CASE LoadProgram
  BY <1>4 DEF LoadProgram, EmptyMap
<1>5. CASE InlineTrivial \/ Flatten \/ Verify
  BY <1>5 DEF InlineTrivial, Flatten, Verify, files
<1>6. CASE Schedule
  BY <1>6 DEF Schedule, Stop, files
<1>7. CASE \E n \in work.graph.nodes : Lower(n)
  BY <1>7 DEF Lower, Stop, files
<1>8. CASE Emit
  BY <1>8 DEF Emit, Put, Going, EmitFile, ++, One
<1>9. CASE Link
  BY <1>9 DEF Link, Has, Going, ++, One
<1>10. CASE PostVerify
  BY <1>10 DEF PostVerify, Stop, files, Going
<1>11. CASE NextPlatform
  BY <1>11 DEF NextPlatform, files
<1>12. CASE Edit \/ Clean
  BY <1>12 DEF Edit, Clean, process
<1> QED BY <1>1, <1>2, <1>3, <1>4, <1>5, <1>6, <1>7, <1>8, <1>9, <1>10, <1>11, <1>12 DEF BuildNext, BuildStep

\* The gate's profile is set when the decisions are read.
LEMMA LenientStep ==
    ASSUME BuildInv, BuildNext PROVE Lenient'
<1>1. CASE \E q \in Request : StartBuild(q)
  BY <1>1 DEF StartBuild, Lenient
<1>2. CASE ReadDecisions
  BY <1>2 DEF ReadDecisions, Stop, BuildInv, Lenient, MayBuild, Ready, VerificationMode, ProfileFor, DecisionAware
<1>3. CASE profile' = profile
  BY <1>3 DEF BuildInv, Lenient
<1> QED
  BY <1>1, <1>2, <1>3 DEF BuildNext, BuildStep, CannotBuild, Stop, LoadProgram, InlineTrivial, Flatten,
     Verify, Schedule, Lower, Emit, Going, Link, PostVerify, NextPlatform, Edit, Clean, process

\* The program that is worked on is read, canonicalized bit by bit, and forgotten.
LEMMA LoadedStep ==
    ASSUME BuildInv, BuildNext PROVE Loaded'
<1>1. CASE Forget
  BY <1>1 DEF Forget, Loaded
<1>2. CASE UNCHANGED <<origin, group, work, trivial>>
  BY <1>2 DEF BuildInv, Loaded, Original
<1>3. CASE LoadProgram
  <2>1. origin' = main /\ main \in SourceFile
    BY <1>3 DEF LoadProgram, BuildInv, Control
  <2>2. PICK r \in Representatives(ProgramOf[main]) :
           /\ group' = r /\ work' = Merge(ProgramOf[main], r) /\ trivial' = Trivials(Merge(ProgramOf[main], r))
    BY <1>3 DEF LoadProgram
  <2>3. Stands(ProgramOf[main], r) /\ Canonicalized(ProgramOf[main], r, Merge(ProgramOf[main], r))
    BY <2>1, SourceIsProgram, RepresentativesStand, MergeCanonicalizes
  <2> QED BY <2>1, <2>2, <2>3 DEF Loaded, Original, Trivials, Canonicalized
<1>4. CASE InlineTrivial
  <2>1. PICK r \in trivial : work' = Dissolved(work, r) /\ trivial' = trivial \ {r}
    BY <1>4 DEF InlineTrivial
  <2>2. /\ origin \in SourceFile /\ Stands(Original, group) /\ Canonicalized(Original, group, work)
        /\ trivial \subseteq DOMAIN work.graph.regions \ work.constrained
    BY <2>1 DEF BuildInv, Loaded
  <2>3. r \in DOMAIN work.graph.regions /\ r \notin Original.constrained /\ work.constrained = Original.constrained
    BY <2>1, <2>2 DEF Canonicalized
  <2>4. /\ Canonicalized(Original, group, Dissolved(work, r))
        /\ DOMAIN Dissolved(work, r).graph.regions = DOMAIN work.graph.regions \ {r}
    BY <2>2, <2>3, DissolvedCanonicalizes
  <2>5. Dissolved(work, r).constrained = Original.constrained
    BY <2>4 DEF Canonicalized
  <2>6. UNCHANGED <<origin, group>>
    BY <1>4 DEF InlineTrivial
  <2> QED BY <2>1, <2>2, <2>3, <2>4, <2>5, <2>6 DEF Loaded, Original
<1>5. CASE Flatten
  <2>1. PICK r \in Flattenable(work) : work' = Flattened(work, r)
    BY <1>5 DEF Flatten
  <2>2. UNCHANGED <<origin, group, trivial>> /\ trivial = {}
    BY <1>5 DEF Flatten
  <2>3. CASE work = NoProgram
    BY <2>3, <2>1 DEF NoProgram, Flattenable, EmptyGraph, EmptyMap
  <2>4. CASE origin \in SourceFile /\ Stands(Original, group) /\ Canonicalized(Original, group, work)
    <3>1. Canonicalized(Original, group, Flattened(work, r))
      BY <2>1, <2>4, FlattenedCanonicalizes
    <3> QED BY <2>1, <2>2, <2>4, <3>1 DEF Loaded, Original
  <2> QED BY <2>3, <2>4 DEF BuildInv, Loaded
<1>6. CASE \/ \E q \in Request : StartBuild(q)
           \/ ReadDecisions \/ CannotBuild \/ Verify \/ Schedule \/ (\E n \in work.graph.nodes : Lower(n))
           \/ Emit \/ Link \/ PostVerify \/ NextPlatform \/ Edit \/ Clean
  BY <1>6, <1>1, <1>2 DEF StartBuild, ReadDecisions, CannotBuild, Verify, Schedule, Lower, Emit, Stop, Going,
     Link, PostVerify, NextPlatform, Edit, Clean, process
<1> QED BY <1>3, <1>4, <1>5, <1>6 DEF BuildNext, BuildStep

\* There are as many places in the order as there are nodes.
LEMMA OrderPlaces ==
    ASSUME BuildInv
    PROVE  /\ order \in Seq(work.graph.nodes) /\ IsFiniteSet(ToSet(order))
           /\ IsFiniteSet(DOMAIN values) /\ ToSet(order) \subseteq work.graph.nodes
<1>1. IsFiniteSet(work.graph.nodes)
  <2>1. CASE work = NoProgram
    BY <2>1, FS_EmptySet DEF NoProgram, EmptyGraph
  <2>2. CASE origin \in SourceFile /\ Canonicalized(Original, group, work)
    <3>1. IsFiniteSet(Original.graph.nodes)
      BY <2>2, SourceIsProgram DEF IsProgram, Original
    <3> QED BY <2>2, <3>1, FS_Subset DEF Canonicalized
  <2> QED BY <2>1, <2>2 DEF BuildInv, Loaded
<1>2. Cardinality(work.graph.nodes) \in Nat
  BY <1>1, FS_CardinalityType
<1>3. order \in Seq(work.graph.nodes)
  <2>1. CASE order = <<>>
    BY <2>1
  <2>2. CASE order \in [1..Cardinality(work.graph.nodes) -> work.graph.nodes]
    <3>1. PICK k \in Nat : k = Cardinality(work.graph.nodes)
      BY <1>2
    <3>2. order \in [1..k -> work.graph.nodes]
      BY <2>2, <3>1
    <3> QED BY <3>2
  <2> QED BY <2>1, <2>2 DEF BuildInv, Ordered
<1>4. ToSet(order) \subseteq work.graph.nodes
  BY <1>3 DEF ToSet
<1> QED BY <1>1, <1>3, <1>4, FS_Subset DEF BuildInv, Ordered

\* A node is given its value at its place.
LEMMA OrderedStep ==
    ASSUME BuildInv, BuildNext PROVE Ordered'
<1>1. CASE Forget
  BY <1>1 DEF Forget, Ordered, EmptyMap
<1>2. CASE UNCHANGED <<work, order, values>> /\ (order = <<>> \/ status' \notin {"resolved", "ready", "loaded", "verified"})
  BY <1>2 DEF BuildInv, Ordered
<1>3. CASE LoadProgram \/ InlineTrivial \/ Flatten
  BY <1>3 DEF LoadProgram, InlineTrivial, Flatten, BuildInv, Ordered
<1>4. ASSUME NEW o \in Orders(work), order' = o, UNCHANGED <<work, values>>, status = "verified",
             status' \in {"built", "lowering"}
      PROVE  Ordered'
  BY <1>4 DEF Orders, BuildInv, Ordered, ToSet
<1>5. ASSUME NEW n \in work.graph.nodes, Lower(n)
      PROVE  Ordered'
  <2>1. CASE Forget
    BY <2>1, <1>1
  <2>2. CASE /\ \E v : values' = values ++ One(n, v)
             /\ UNCHANGED <<work, order, status>>
    <3>1. /\ Cardinality(DOMAIN values) \in Nat /\ Len(order) \in Nat /\ DOMAIN order = 1..Len(order)
          /\ Cardinality(DOMAIN values) < Len(order) /\ n = order[Cardinality(DOMAIN values) + 1]
      BY <1>5, OrderPlaces, FS_CardinalityType DEF Lower
    <3>2. n \in ToSet(order)
      BY <3>1 DEF ToSet
    <3> QED BY <2>2, <3>2, <1>5 DEF BuildInv, Ordered, ++, One, Lower
  <2> QED BY <1>5, <2>1, <2>2 DEF Lower, Stop
<1>6. CASE Schedule
  BY <1>6, <1>1, <1>4 DEF Schedule, Stop
<1>7. CASE \/ \E q \in Request : StartBuild(q)
           \/ ReadDecisions \/ CannotBuild \/ Verify
           \/ Emit \/ Link \/ PostVerify \/ NextPlatform \/ Edit \/ Clean
  BY <1>7, <1>1, <1>2 DEF StartBuild, ReadDecisions, CannotBuild, Verify, Emit, Stop, Going,
     Link, PostVerify, NextPlatform, Edit, Clean, process, BuildInv, Ordered
<1> QED BY <1>3, <1>5, <1>6, <1>7 DEF BuildNext, BuildStep

\* The object of another build or platform is written over before it is linked.
LEMMA MadeHereStep ==
    ASSUME BuildInv, BuildNext PROVE MadeHere'
<1>1. CASE status' \in {"failed", "panicked", "resolved", "ready", "loaded", "verified", "lowering"}
  BY <1>1 DEF MadeHere
<1>2. CASE /\ UNCHANGED <<request, count, platforms, origin>> /\ out' \in {None, out}
           /\ \/ status' = status
              \/ status \in {"written", "built"} /\ status' \in {"built", "ok"}
  BY <1>2 DEF BuildInv, MadeHere, Stamp, Platform1
<1>3. CASE Schedule
  BY <1>3, <1>1 DEF Schedule, Stop, MadeHere
<1>4. CASE Emit
  <2>1. CASE status' = "failed"
    BY <2>1, <1>1
  <2>2. CASE /\ out # None /\ Put(EmitFile)
             /\ Going(IF request.mode = "executable" THEN "emitted" ELSE "written")
    <3>1. Stamp' = Stamp /\ request' = request
      BY <2>2 DEF Going, Stamp, Platform1
    <3>2. request.mode \in {"object", "executable"} => EmitFile = "main.o"
      BY DEF EmitFile
    <3> QED BY <2>2, <3>1, <3>2 DEF Put, Going, ++, One, MadeHere
  <2> QED BY <1>4, <2>1, <2>2 DEF Emit
<1>5. CASE Link
  <2>1. CASE status' = "failed"
    BY <2>1, <1>1
  <2>2. CASE status' # "failed"
    <3>1. /\ Has("main.o") /\ status' = "written"
          /\ UNCHANGED <<count, request, platforms, origin>> /\ status = "emitted"
      BY <1>5, <2>2 DEF Link, Going
    <3>2. Stamp' = Stamp /\ request' = request
      BY <3>1 DEF Stamp, Platform1
    <3>3. out # None /\ "main.o" \in DOMAIN out /\ request.mode = "executable" /\ out["main.o"] = Stamp
      BY <3>1 DEF Has, BuildInv, MadeHere
    <3>4. out' \in {out ++ One("main", out["main.o"]), (out ++ One("main.ld", Stamp)) ++ One("main", out["main.o"])}
      BY <1>5, <2>2 DEF Link
    <3>5. out'["main.o"] = Stamp /\ out'["main"] = Stamp
      BY <3>3, <3>4 DEF ++, One
    <3> QED BY <3>1, <3>2, <3>3, <3>5 DEF MadeHere
  <2> QED BY <2>1, <2>2
<1>6. CASE \/ \E q \in Request : StartBuild(q)
           \/ ReadDecisions \/ CannotBuild \/ LoadProgram \/ InlineTrivial \/ Flatten \/ Verify
           \/ (\E n \in work.graph.nodes : Lower(n)) /\ status = "lowering"
  BY <1>6, <1>1 DEF StartBuild, ReadDecisions, CannotBuild, LoadProgram, InlineTrivial, Flatten, Verify, Lower, Stop
<1>7. CASE PostVerify \/ NextPlatform \/ Edit \/ Clean
  BY <1>7, <1>1, <1>2 DEF PostVerify, NextPlatform, Edit, Clean, process, files, Stop, Going
<1> QED BY <1>3, <1>4, <1>5, <1>6, <1>7 DEF BuildNext, BuildStep

\* The invariant of a build.
LEMMA BuildInvariant == BuildSpec => []BuildInv
<1>1. BuildInit => BuildInv
  BY BuildAssumption DEF BuildInit, BuildInv, Control, Lenient, Loaded, Ordered, MadeHere, Statuses, Ended, EmptyMap
<1>2. BuildInv /\ [BuildNext]_buildVars => BuildInv'
  <2>1. BuildInv /\ BuildNext => BuildInv'
    BY ControlStep, LenientStep, LoadedStep, OrderedStep, MadeHereStep DEF BuildInv
  <2>2. BuildInv /\ UNCHANGED buildVars => BuildInv'
    BY DEF buildVars, files, process, BuildInv, Control, Lenient, Loaded, Original, Ordered, MadeHere, Stamp, Platform1
  <2> QED BY <2>1, <2>2
<1> QED BY <1>1, <1>2, PTL DEF BuildSpec

\* What canonicalization makes of a program (canonicalize.rs) is a well-kept
\* graph with every dependency of the program between the nodes that stand for
\* its ends; no node was merged across a region and no constraint was lost.
THEOREM DependenciesAlwaysKept == BuildSpec => [](BuildTypeOK /\ DependenciesKept)
<1>1. BuildInv => BuildTypeOK
  <2> SUFFICES ASSUME BuildInv PROVE BuildTypeOK
    OBVIOUS
  <2>1. /\ IsGraph(work.graph) /\ DOMAIN work.attr = work.graph.nodes
        /\ DOMAIN work.ports = DOMAIN work.graph.edges /\ DOMAIN work.kindOf = DOMAIN work.graph.regions
        /\ trivial \subseteq DOMAIN work.graph.regions
    <3>1. CASE work = NoProgram /\ trivial = {}
      BY <3>1, EmptyGraphKept DEF NoProgram, EmptyGraph, EmptyMap
    <3>2. CASE /\ origin \in SourceFile /\ Canonicalized(Original, group, work)
               /\ trivial \subseteq DOMAIN work.graph.regions \ work.constrained
      <4>1. IsProgram(Original)
        BY <3>2, SourceIsProgram DEF Original
      <4> QED BY <3>2, <4>1 DEF Canonicalized, IsProgram, WellKept
    <3> QED BY <3>1, <3>2 DEF BuildInv, Loaded
  <2>2. DOMAIN values \subseteq ToSet(order) /\ ToSet(order) \subseteq work.graph.nodes
    BY OrderPlaces DEF BuildInv, Ordered
  <2> QED BY <2>1, <2>2 DEF BuildTypeOK, BuildInv, Control, Lenient, Profiles
<1>2. BuildInv => DependenciesKept
  <2> SUFFICES ASSUME BuildInv, origin # None
               PROVE  DependenciesKept
    BY DEF DependenciesKept
  <2>1. IsProgram(Original) /\ Stands(Original, group) /\ Canonicalized(Original, group, work)
    BY SourceIsProgram DEF BuildInv, Loaded, Original
  <2>2. BadPorts(work) = {}
    BY <2>1, CanonicalizedPorts
  <2>3. \A n \in Original.graph.nodes : HomeOf(Original, n) = HomeOf(Original, group[n])
    BY <2>1 DEF Stands, ContentOf
  <2> QED BY <2>1, <2>2, <2>3 DEF DependenciesKept, Canonicalized, WellKept
<1> QED BY <1>1, <1>2, BuildInvariant, PTL

\* A build that says it succeeded left its own artifacts (build.rs, emit.rs),
\* whatever was edited, torn or cleaned meanwhile, and no build that has read a
\* conflict gets to its gate (bridge.rs).
THEOREM ArtifactsAlwaysCurrent == BuildSpec => [](ArtifactsCurrent /\ ConflictsBlock)
<1>1. BuildInv => ArtifactsCurrent /\ ConflictsBlock
  BY DEF BuildInv, MadeHere, Lenient, ArtifactsCurrent, ConflictsBlock
<1> QED BY <1>1, BuildInvariant, PTL

-----------------------------------------------------------------------------
(* The heaviest chain *)

\* The most that was found for a predecessor before a place.
BestBefore(w, p, o, k) == Max({0} \cup {w[j] : j \in FedFrom(p, o, k)})

\* What is found along an order, each weight from those before it, are numbers.
LEMMA PathWeightsFound ==
    ASSUME NEW S, NEW o \in Seq(S), NEW own \in [S -> Nat], NEW p
    PROVE  /\ PathWeights(p, o, own) \in [DOMAIN o -> Nat]
           /\ \A k \in DOMAIN o : PathWeights(p, o, own)[k] = 
                own[o[k]] + BestBefore(PathWeights(p, o, own), p, o, k)
<1> DEFINE w == PathWeights(p, o, own)
<1>a. PICK N \in Nat : N = Len(o) /\ DOMAIN o = 1..N
  OBVIOUS
<1>b. \A k \in 1..N : own[o[k]] \in Nat
  BY <1>a
<1>c. \A k \in 1..N : FedFrom(p, o, k) \subseteq 1..(k - 1)
  BY DEF FedFrom
<1> HIDE DEF w
<1> DEFINE Best(f, k) == Max({0} \cup {f[j] : j \in FedFrom(p, o, k)})
           Upto(m, f) == f \in [1..m -> Nat] /\ \A k \in 1..m : f[k] = own[o[k]] + Best(f, k)
           Bad == {m \in 0..N : ~ \E f : Upto(m, f)}
<1>0. ASSUME NEW m \in 0..N, NEW f \in [1..m -> Nat], NEW k \in 1..N, k - 1 <= m
      PROVE  Best(f, k) \in Nat
  <2>1. FedFrom(p, o, k) \subseteq 1..m /\ m \in Nat
    BY <1>0, <1>c
  <2> QED BY <2>1, MaxFound
<1>1. Bad = {}
  <2> SUFFICES ASSUME Bad # {} PROVE FALSE
    OBVIOUS
  <2>1. PICK m \in Bad : \A i \in Bad : m <= i
    <3> HIDE DEF Upto
    <3> QED BY LeastExists
  <2>2. m # 0
    <3>1. Upto(0, [k \in 1..0 |-> 0])
      OBVIOUS
    <3> HIDE DEF Upto
    <3> QED BY <2>1, <3>1
  <2>3. m \in 1..N /\ m - 1 \in 0..N /\ m - 1 \notin Bad
    <3>1. m \in 1..N /\ m - 1 \in 0..N /\ ~(m <= m - 1)
      BY <2>1, <2>2
    <3> HIDE DEF Upto, Bad
    <3> QED BY <2>1, <3>1
  <2>4. PICK f : Upto(m - 1, f)
    <3> HIDE DEF Upto
    <3> QED BY <2>3
  <2> DEFINE g == [k \in 1..m |-> IF k = m THEN own[o[m]] + Best(f, m) ELSE f[k]]
  <2>5. \A k \in 1..m : Best(g, k) = Best(f, k)
    <3> SUFFICES ASSUME NEW k \in 1..m
                 PROVE  {g[j] : j \in FedFrom(p, o, k)} = {f[j] : j \in FedFrom(p, o, k)}
      OBVIOUS
    <3>1. \A j \in FedFrom(p, o, k) : j \in 1..m /\ j # m
      <4>1. k \in 1..N /\ FedFrom(p, o, k) \subseteq 1..(k - 1)
        BY <1>c, <2>3
      <4> QED BY <2>3, <4>1
    <3>2. \A j \in FedFrom(p, o, k) : g[j] = f[j]
      BY <3>1
    <3> HIDE DEF g
    <3> QED BY <3>2
  <2>6. Upto(m, g)
    <3>1. f \in [1..(m - 1) -> Nat] /\ \A k \in 1..(m - 1) : f[k] = own[o[k]] + Best(f, k)
      BY <2>4
    <3>2. own[o[m]] \in Nat /\ Best(f, m) \in Nat
      <4> HIDE DEF Best
      <4>1. m - 1 <= m - 1 /\ own[o[m]] \in Nat
        BY <1>b, <2>3
      <4> QED BY <1>0, <2>3, <3>1, <4>1
    <3> HIDE DEF Best
    <3>3. g \in [1..m -> Nat] /\ g[m] = own[o[m]] + Best(f, m) /\ \A k \in 1..(m - 1) : g[k] = f[k]
      BY <2>3, <3>1, <3>2
    <3> HIDE DEF g
    <3>4. ASSUME NEW k \in 1..m PROVE g[k] = own[o[k]] + Best(g, k)
      <4>1. CASE k = m
        BY <2>5, <3>3, <4>1
      <4>2. CASE k # m
        <5>1. k \in 1..(m - 1)
          BY <2>3, <4>2
        <5> QED BY <2>5, <3>1, <3>3, <5>1
      <4> QED BY <4>1, <4>2
    <3> QED BY <3>3, <3>4
  <2> HIDE DEF Upto, g
  <2> QED BY <2>1, <2>6
<1>2. PICK f : Upto(N, f)
  <2> HIDE DEF Upto
  <2>1. N \in 0..N
    OBVIOUS
  <2> QED BY <1>1, <2>1
<1>3. f = [k \in DOMAIN o |-> own[o[k]] + Best(f, k)]
  <2> HIDE DEF Best
  <2> QED BY <1>a, <1>2
<1>4. w = [k \in DOMAIN o |-> own[o[k]] + Best(w, k)]
  BY <1>3 DEF PathWeights, w
<1>5. DOMAIN w = 1..N /\ \A k \in 1..N : w[k] = own[o[k]] + Best(w, k)
  <2> DEFINE r == [k \in DOMAIN o |-> own[o[k]] + Best(w, k)]
  <2>1. w = r
    BY <1>4
  <2> HIDE DEF Best
  <2>2. DOMAIN r = 1..N /\ \A k \in 1..N : r[k] = own[o[k]] + Best(w, k)
    BY <1>a
  <2> HIDE DEF r
  <2> QED BY <2>1, <2>2
<1> DEFINE Off == {k \in 1..N : w[k] \notin Nat}
<1>6. Off = {}
  <2> SUFFICES ASSUME Off # {} PROVE FALSE
    OBVIOUS
  <2>1. PICK k \in Off : \A i \in Off : k <= i
    <3>1. Off \subseteq 0..N
      OBVIOUS
    <3> HIDE DEF Off
    <3> QED BY <3>1, LeastExists
  <2>2. k \in 1..N /\ k - 1 \in Nat
    BY <2>1
  <2>3. ASSUME NEW j \in 1..(k - 1) PROVE w[j] \in Nat
    <3>1. j \in 1..N /\ ~(k <= j)
      BY <2>2
    <3> QED BY <2>1, <3>1
  <2> DEFINE v == [j \in 1..(k - 1) |-> w[j]]
  <2>4. v \in [1..(k - 1) -> Nat] /\ FedFrom(p, o, k) \subseteq 1..(k - 1)
    BY <1>c, <2>2, <2>3
  <2>5. {v[j] : j \in FedFrom(p, o, k)} = {w[j] : j \in FedFrom(p, o, k)}
    BY <2>4
  <2>6. Best(v, k) \in Nat
    <3> HIDE DEF v
    <3> QED BY <2>2, <2>4, MaxFound
  <2>7. Best(w, k) = Best(v, k)
    BY <2>5
  <2>8. own[o[k]] \in Nat /\ w[k] = own[o[k]] + Best(w, k)
    BY <1>b, <1>5, <2>2
  <2> HIDE DEF Best
  <2> QED BY <2>1, <2>6, <2>7, <2>8
<1>7. w \in [1..N -> Nat]
  <2> HIDE DEF Best
  <2>1. \A k \in 1..N : w[k] \in Nat
    BY <1>6
  <2> QED BY <1>a, <1>4, <2>1
<1> HIDE DEF Best
<1>8. w \in [DOMAIN o -> Nat] /\ \A k \in DOMAIN o : w[k] = own[o[k]] + Best(w, k)
  BY <1>a, <1>5, <1>7
<1> QED BY <1>8 DEF Best, w, BestBefore

\* What a chain weighs is a number, nothing for no places, and a place that is
\* added adds what its node weighs.
LEMMA ChainWeights ==
    ASSUME NEW S, NEW o \in Seq(S), NEW own \in [S -> Nat]
    PROVE  /\ ChainWeight(o, {}, own) = 0
           /\ \A K \in SUBSET DOMAIN o : ChainWeight(o, K, own) \in Nat
           /\ \A K \in SUBSET DOMAIN o : \A k \in DOMAIN o \ K :
                ChainWeight(o, K \cup {k}, own) = ChainWeight(o, K, own) + own[o[k]]
<1>1. PICK N \in Nat : N = Len(o) /\ DOMAIN o = 1..N
  OBVIOUS
<1> DEFINE T(K) == [k \in DOMAIN o |-> IF k \in K THEN own[o[k]] ELSE 0]
<1>2. ASSUME NEW K PROVE T(K) \in [1..N -> Nat] /\ ChainWeight(o, K, own) = Total(T(K))
  BY <1>1 DEF ChainWeight
<1>3. ASSUME NEW K PROVE ChainWeight(o, K, own) \in Nat
  <2>1. PICK t \in [1..N -> Nat] : ChainWeight(o, K, own) = Total(t)
    BY <1>2
  <2> QED BY <2>1, TotalType
<1>4. ChainWeight(o, {}, own) = 0
  <2>1. \A k \in 1..N : T({})[k] = 0
    BY <1>1
  <2> HIDE DEF T
  <2> QED BY <1>2, <2>1, TotalNone
<1>5. ASSUME NEW K \in SUBSET DOMAIN o, NEW k \in DOMAIN o \ K
      PROVE  ChainWeight(o, K \cup {k}, own) = ChainWeight(o, K, own) + own[o[k]]
  <2>1. PICK d \in Nat : d = own[o[k]]
    BY <1>1
  <2>2. /\ T(K \cup {k})[k] = T(K)[k] + d
        /\ \A j \in 1..N : j # k => T(K \cup {k})[j] = T(K)[j]
    BY <1>1, <2>1
  <2>3. PICK t \in [1..N -> Nat], u \in [1..N -> Nat] : t = T(K) /\ u = T(K \cup {k})
    BY <1>2
  <2> HIDE DEF T
  <2>4. k \in 1..N /\ Raised(t, u, k, d)
    BY <1>1, <2>2, <2>3 DEF Raised
  <2>6. t \in Seq(Nat) /\ u \in Seq(Nat) /\ Len(t) = N /\ Len(u) = N
    OBVIOUS
  <2>5. Total(u) = Total(t) + d
    BY <2>4, <2>6, TotalMore
  <2> QED BY <1>2, <2>1, <2>3, <2>5
<1> QED BY <1>3, <1>4, <1>5

\* What a chain is.
LEMMA ChainsAre ==
    ASSUME NEW p, NEW o, NEW K
    PROVE  K \in Chains(p, o) <=>
             /\ K \in SUBSET DOMAIN o /\ K # {}
             /\ \A j, k \in K : j < k /\ K \cap ((j + 1)..(k - 1)) = {} =>
                  o[j] \in Predecessors(p, o[k])
BY DEF Chains

\* No chain that ends at a place is heavier than what is found there.
LEMMA ChainsBounded ==
    ASSUME NEW S, NEW o \in Seq(S), NEW own \in [S -> Nat], NEW p,
           NEW K \in Chains(p, o), NEW k \in K, \A j \in K : j <= k
    PROVE  ChainWeight(o, K, own) <= PathWeights(p, o, own)[k]
<1>1. PICK N \in Nat : N = Len(o) /\ DOMAIN o = 1..N
  OBVIOUS
<1>2. PICK w \in [1..N -> Nat] : w = PathWeights(p, o, own)
  BY <1>1, PathWeightsFound
<1>3. \A n \in 1..N : w[n] = own[o[n]] + BestBefore(w, p, o, n)
  BY <1>1, <1>2, PathWeightsFound
<1> DEFINE EndsAt(C, n) == C \in Chains(p, o) /\ n \in C /\ \A j \in C : j <= n
           Bad == {n \in 1..N : \E C : EndsAt(C, n) /\ ~(ChainWeight(o, C, own) <= w[n])}
<1>4. Bad = {}
  <2> SUFFICES ASSUME Bad # {} PROVE FALSE
    OBVIOUS
  <2>1. PICK n \in Bad : \A i \in Bad : n <= i
    <3>1. Bad \subseteq 0..N
      OBVIOUS
    <3> HIDE DEF Bad
    <3> QED BY <3>1, LeastExists
  <2>2. PICK C : EndsAt(C, n) /\ ~(ChainWeight(o, C, own) <= w[n])
    BY <2>1
  <2>3. n \in 1..N /\ C \subseteq 1..N /\ C # {}
    BY <1>1, <2>1, <2>2 DEF Chains
  <2> DEFINE B == C \ {n}
  <2>4. /\ B \in SUBSET DOMAIN o /\ n \in DOMAIN o \ B /\ B \cup {n} = C
        /\ B \subseteq 1..(n - 1)
    BY <1>1, <2>2, <2>3
  <2> HIDE DEF B
  <2>5. ChainWeight(o, C, own) = ChainWeight(o, B, own) + own[o[n]] /\ ChainWeight(o, B, own) \in Nat
    BY <2>4, ChainWeights
  <2>6. n - 1 \in Nat /\ FedFrom(p, o, n) \subseteq 1..N /\ own[o[n]] \in Nat
    BY <1>1, <2>3 DEF FedFrom
  <2>7. PICK best \in Nat : /\ best = Max({0} \cup {w[j] : j \in FedFrom(p, o, n)})
                            /\ \A j \in FedFrom(p, o, n) : w[j] <= best
    BY <2>6, MaxFound
  <2>8. ChainWeight(o, B, own) <= best
    <3>1. CASE B = {}
      BY <2>7, <3>1, ChainWeights
    <3>2. CASE B # {}
      <4>1. PICK m \in B : \A j \in B : j <= m
        BY <2>4, <2>6, <3>2, LastPlace
      <4>2. m \in 1..N /\ m < n /\ m \in 1..(n - 1)
        BY <2>3, <2>4, <4>1
      <4>3. EndsAt(B, m)
        <5>1. ASSUME NEW i \in B, NEW j \in B, j < i, B \cap ((j + 1)..(i - 1)) = {}
              PROVE  o[j] \in Predecessors(p, o[i])
          <6>1. C \cap ((j + 1)..(i - 1)) = {}
            BY <2>3, <2>4, <5>1
          <6>2. i \in C /\ j \in C
            BY <2>4
          <6>3. \A i_ \in C : \A j_ \in C : j_ < i_ /\ C \cap ((j_ + 1)..(i_ - 1)) = {} =>
                   o[j_] \in Predecessors(p, o[i_])
            BY <2>2 DEF Chains
          <6> QED BY <5>1, <6>1, <6>2, <6>3
        <5>2. B \in SUBSET DOMAIN o /\ B # {}
          BY <2>4, <3>2
        <5>3. \A i \in B : \A j \in B : j < i /\ B \cap ((j + 1)..(i - 1)) = {} =>
                 o[j] \in Predecessors(p, o[i])
          BY <5>1
        <5>4. B \in Chains(p, o)
          BY <5>2, <5>3, ChainsAre
        <5> QED BY <4>1, <5>4
      <4>4. ~(n <= m) /\ m \notin Bad
        BY <2>1, <2>3, <4>2
      <4>5. ChainWeight(o, B, own) <= w[m]
        BY <4>2, <4>3, <4>4
      <4>6. m \in FedFrom(p, o, n)
        <5>1. C \cap ((m + 1)..(n - 1)) = {}
          BY <2>3, <2>4, <4>1, <4>2
        <5>2. o[m] \in Predecessors(p, o[n])
          BY <2>2, <2>4, <4>1, <4>2, <5>1 DEF Chains
        <5> QED BY <4>2, <5>2 DEF FedFrom
      <4>7. w[m] \in Nat /\ w[m] <= best
        BY <2>7, <4>2, <4>6
      <4> QED BY <2>5, <4>5, <4>7
    <3> QED BY <3>1, <3>2
  <2>9. w[n] = own[o[n]] + best
    BY <1>3, <2>3, <2>7 DEF BestBefore
  <2> QED BY <2>2, <2>5, <2>6, <2>8, <2>9
<1>5. k \in 1..N /\ EndsAt(K, k)
  BY <1>1 DEF Chains
<1> HIDE DEF EndsAt
<1> QED BY <1>2, <1>4, <1>5

\* There is a chain to every place as heavy as what is found there.
LEMMA ChainsReach ==
    ASSUME NEW S, NEW o \in Seq(S), NEW own \in [S -> Nat], NEW p, NEW k \in DOMAIN o
    PROVE  \E K \in Chains(p, o) : ChainWeight(o, K, own) = PathWeights(p, o, own)[k]
<1>1. PICK N \in Nat : N = Len(o) /\ DOMAIN o = 1..N
  OBVIOUS
<1>2. PICK w \in [1..N -> Nat] : w = PathWeights(p, o, own)
  BY <1>1, PathWeightsFound
<1>3. \A n \in 1..N : w[n] = own[o[n]] + BestBefore(w, p, o, n)
  BY <1>1, <1>2, PathWeightsFound
<1> DEFINE Reaches(C, n) == /\ C \in Chains(p, o) /\ n \in C /\ \A j \in C : j <= n
                            /\ ChainWeight(o, C, own) = w[n]
           Bad == {n \in 1..N : ~ \E C : Reaches(C, n)}
<1>4. Bad = {}
  <2> SUFFICES ASSUME Bad # {} PROVE FALSE
    OBVIOUS
  <2>1. PICK n \in Bad : \A i \in Bad : n <= i
    <3>1. Bad \subseteq 0..N
      OBVIOUS
    <3> HIDE DEF Bad
    <3> QED BY <3>1, LeastExists
  <2>2. n \in 1..N
    BY <2>1
  <2>3. FedFrom(p, o, n) \subseteq 1..N /\ own[o[n]] \in Nat
    BY <1>1, <2>2 DEF FedFrom
  <2>4. PICK best \in Nat : /\ best = BestBefore(w, p, o, n)
                            /\ best = 0 \/ \E j \in FedFrom(p, o, n) : best = w[j]
    BY <2>3, MaxFound DEF BestBefore
  <2>5. w[n] = own[o[n]] + best
    BY <1>3, <2>2, <2>4
  <2>6. CASE best = 0
    <3>1. {n} \in Chains(p, o)
      <4>1. PICK K_ : K_ = {n}
        OBVIOUS
      <4>2. K_ \in SUBSET DOMAIN o /\ K_ # {}
        BY <1>1, <2>2, <4>1
      <4>3. \A j, i \in K_ : ~(j < i)
        BY <2>2, <4>1
      <4>4. K_ \in Chains(p, o)
        BY <4>2, <4>3, ChainsAre
      <4> QED BY <4>1, <4>4
    <3>2. ChainWeight(o, {n}, own) = 0 + own[o[n]]
      <4>1. PICK B : B = {}
        OBVIOUS
      <4>2. B \in SUBSET DOMAIN o /\ n \in DOMAIN o \ B
        BY <1>1, <2>2, <4>1
      <4>3. ChainWeight(o, B \cup {n}, own) = ChainWeight(o, B, own) + own[o[n]]
        BY <4>2, ChainWeights
      <4>4. ChainWeight(o, B, own) = 0 /\ B \cup {n} = {n}
        BY <4>1, ChainWeights
      <4> QED BY <4>3, <4>4
    <3>3. Reaches({n}, n)
      BY <2>2, <2>3, <2>5, <2>6, <3>1, <3>2
    <3> HIDE DEF Reaches
    <3> QED BY <2>1, <3>3
  <2>7. CASE \E j \in FedFrom(p, o, n) : best = w[j]
    <3>1. PICK m \in FedFrom(p, o, n) : best = w[m]
      BY <2>7
    <3>2. m \in 1..N /\ m < n /\ o[m] \in Predecessors(p, o[n])
      BY <2>2, <3>1 DEF FedFrom
    <3>3. m \notin Bad
      <4>1. ~(n <= m)
        BY <2>2, <3>2
      <4> HIDE DEF Bad
      <4> QED BY <2>1, <4>1
    <3>4. PICK B : Reaches(B, m)
      <4> HIDE DEF Reaches
      <4> QED BY <3>2, <3>3
    <3>5. B \in SUBSET DOMAIN o /\ n \in DOMAIN o \ B /\ \A j \in B : j \in 1..N /\ j <= m
      BY <1>1, <2>2, <3>2, <3>4, ChainsAre
    <3> DEFINE C == B \cup {n}
    <3>6. ChainWeight(o, C, own) = w[n]
      <4>1. ChainWeight(o, C, own) = ChainWeight(o, B, own) + own[o[n]]
        BY <3>5, ChainWeights
      <4> QED BY <2>3, <2>5, <3>1, <3>4, <4>1
    <3>7. C \in Chains(p, o)
      <4>1. ASSUME NEW i \in C, NEW j \in C, j < i, C \cap ((j + 1)..(i - 1)) = {}
            PROVE  o[j] \in Predecessors(p, o[i])
        <5>1. CASE i \in B
          <6>1. j \in B
            BY <2>2, <3>2, <3>5, <4>1, <5>1
          <6>2. B \cap ((j + 1)..(i - 1)) = {}
            BY <4>1
          <6> QED BY <3>4, <4>1, <5>1, <6>1, <6>2, ChainsAre
        <5>2. CASE i = n
          <6>1. j \in B /\ j <= m /\ j \in 1..N
            BY <2>2, <3>5, <4>1, <5>2
          <6>2. m \in B /\ (j # m => m \in C \cap ((j + 1)..(i - 1)))
            BY <2>2, <3>2, <3>4, <5>2, <6>1
          <6>3. j = m
            BY <4>1, <6>2
          <6> QED BY <3>2, <5>2, <6>3
        <5> QED BY <5>1, <5>2
      <4>2. \A j, i \in C : j < i /\ C \cap ((j + 1)..(i - 1)) = {} => o[j] \in Predecessors(p, o[i])
        BY <4>1
      <4>3. C \in SUBSET DOMAIN o /\ C # {}
        BY <3>5
      <4> HIDE DEF C
      <4> QED BY <4>2, <4>3, ChainsAre
    <3>8. Reaches(C, n)
      BY <2>2, <3>2, <3>5, <3>6, <3>7
    <3> HIDE DEF Reaches
    <3> QED BY <2>1, <3>8
  <2> QED BY <2>4, <2>6, <2>7
<1>5. \E C : Reaches(C, k)
  <2> HIDE DEF Reaches
  <2> QED BY <1>1, <1>4
<1> QED BY <1>2, <1>5

\* What is found along an order, wherever it is the most, is the heaviest chain.
LEMMA HeaviestIsChain ==
    ASSUME NEW S, NEW o \in Seq(S), o # <<>>, NEW own \in [S -> Nat], NEW p
    PROVE  /\ HeaviestPath(p, o, own) \in {ChainWeight(o, K, own) : K \in Chains(p, o)}
           /\ \A K \in Chains(p, o) : ChainWeight(o, K, own) <= HeaviestPath(p, o, own)
<1>1. PICK N \in Nat : N = Len(o) /\ DOMAIN o = 1..N
  OBVIOUS
<1>2. PICK w \in [1..N -> Nat] : w = PathWeights(p, o, own)
  BY <1>1, PathWeightsFound
<1>3. PICK peak \in Nat : /\ peak = HeaviestPath(p, o, own)
                          /\ \A j \in 1..N : w[j] <= peak
                          /\ peak = 0 \/ \E j \in 1..N : peak = w[j]
  <2>1. PICK I : I = 1..N
    OBVIOUS
  <2>2. HeaviestPath(p, o, own) = Max({0} \cup {w[j] : j \in I})
    BY <1>1, <1>2, <2>1 DEF HeaviestPath
  <2>3. I \subseteq 1..N
    BY <2>1
  <2>4. /\ HeaviestPath(p, o, own) \in Nat
        /\ \A j \in I : w[j] <= HeaviestPath(p, o, own)
        /\ \/ HeaviestPath(p, o, own) = 0
           \/ \E j \in I : HeaviestPath(p, o, own) = w[j]
    BY <2>2, <2>3, MaxFound
  <2> QED BY <2>1, <2>4
<1>4. \E K \in Chains(p, o) : ChainWeight(o, K, own) = peak
  <2>1. PICK k \in 1..N : peak = w[k]
    <3>1. CASE peak = 0
      <4>1. N # 0
        BY <1>1
      <4>2. 1 \in 1..N
        BY <4>1
      <4>3. w[1] \in Nat /\ w[1] <= peak
        BY <1>3, <4>2
      <4> QED BY <3>1, <4>2, <4>3
    <3> QED BY <1>3, <3>1
  <2>2. k \in DOMAIN o
    BY <1>1
  <2>3. \E K \in Chains(p, o) : ChainWeight(o, K, own) = PathWeights(p, o, own)[k]
    BY <2>2, ChainsReach
  <2> QED BY <1>2, <2>1, <2>3
<1>5. ASSUME NEW K \in Chains(p, o) PROVE ChainWeight(o, K, own) <= peak
  <2>1. K \subseteq 1..N /\ K # {} /\ ChainWeight(o, K, own) \in Nat
    BY <1>1, ChainsAre, ChainWeights
  <2>2. PICK k \in K : \A j \in K : j <= k
    BY <2>1, LastPlace
  <2>3. ChainWeight(o, K, own) <= w[k]
    BY <1>2, <2>2, ChainsBounded
  <2>4. k \in 1..N /\ w[k] \in Nat /\ w[k] <= peak
    BY <1>3, <2>1, <2>2
  <2> QED BY <2>1, <2>3, <2>4
<1> QED BY <1>3, <1>4, <1>5

\* The nodes of a working program are of a source program, and so is what they
\* weigh: a number.
LEMMA FramesAreNumbers ==
    ASSUME BuildInv, order # <<>>, NEW word \in WordSizes
    PROVE  [n \in work.graph.nodes |-> FrameOf(work.attr[n], word)] \in [work.graph.nodes -> Nat]
<1>1. work # NoProgram
  <2> SUFFICES ASSUME work = NoProgram PROVE FALSE
    OBVIOUS
  <2>1. work.graph.nodes = {}
    BY DEF NoProgram, EmptyGraph
  <2>2. order \in Seq({})
    BY <2>1, OrderPlaces
  <2> QED BY <2>2
<1>2. origin \in SourceFile /\ Canonicalized(Original, group, work)
  BY <1>1 DEF BuildInv, Loaded
<1>3. ASSUME NEW n \in work.graph.nodes PROVE FrameOf(work.attr[n], word) \in Nat
  <2>1. n \in Original.graph.nodes /\ work.attr[n] = Original.attr[n]
    BY <1>2 DEF Canonicalized
  <2> QED BY <1>2, <2>1, FrameAssumption DEF Original
<1> QED BY <1>3

\* What the resource check holds against the platform's memory (layout.rs,
\* compute_peak_stack) is the heaviest chain of frames in the program, although
\* it goes through an order of the nodes and never looks at chains.
THEOREM PeakAlwaysHeaviestChain == BuildSpec => []PeakIsHeaviestChain
<1>1. BuildInv => PeakIsHeaviestChain
  <2> SUFFICES ASSUME BuildInv, order # <<>>, NEW word \in WordSizes
               PROVE  LET own == [n \in work.graph.nodes |-> FrameOf(work.attr[n], word)]
                      IN /\ HeaviestPath(work, order, own)
                              \in {ChainWeight(order, K, own) : K \in Chains(work, order)}
                         /\ \A K \in Chains(work, order) :
                              ChainWeight(order, K, own) <= HeaviestPath(work, order, own)
    BY DEF PeakIsHeaviestChain
  <2> DEFINE own == [n \in work.graph.nodes |-> FrameOf(work.attr[n], word)]
  <2>1. own \in [work.graph.nodes -> Nat] /\ order \in Seq(work.graph.nodes)
    BY FramesAreNumbers, OrderPlaces
  <2> HIDE DEF own
  <2>2. /\ HeaviestPath(work, order, own) \in {ChainWeight(order, K, own) : K \in Chains(work, order)}
        /\ \A K \in Chains(work, order) : ChainWeight(order, K, own) <= HeaviestPath(work, order, own)
    BY <2>1, HeaviestIsChain
  <2> QED BY <2>2 DEF own
<1> QED BY <1>1, BuildInvariant, PTL
=============================================================================
