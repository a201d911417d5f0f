------------------------------- MODULE Builder -------------------------------
(***************************************************************************)
(* GraphBuilder (crates/torc-core/src/builder.rs): the client's way to make *)
(* a graph.  It owns the graph until build or into_graph hands it over, and *)
(* keeps a stack of the regions that were begun and not yet ended: a region *)
(* is added to the graph only when it ends, with the nodes added meanwhile. *)
(*                                                                         *)
(* A node's kind, signature, contract and annotations are one member of    *)
(* Prototype.  The ports of an edge are kept beside the graph.             *)
(***************************************************************************)
EXTENDS GraphOps, Sequences

CONSTANTS BuilderNode, BuilderEdge, BuilderRegion,  \* bound: the ids it draws
          Prototype,   \* what a node can be
          Variants,    \* the pairs of prototypes with one kind and signature
          Port,        \* port numbers, from 0
          Arity,       \* prototype -> how many ports its signature has, or None
          RegionKind,  \* Sequential, Parallel, ...
          MaxDepth     \* bound: regions open at once

ASSUME DepthAssumption ==
    /\ MaxDepth \in Nat
    /\ BuilderNode \subseteq NodeId /\ BuilderEdge \subseteq EdgeId /\ BuilderRegion \subseteq RegionId
ASSUME ArityAssumption ==
    /\ Port \subseteq Nat
    /\ Arity \in [Prototype -> [ins : Nat, outs : Nat] \cup {None}]

VARIABLES graph,       \* the graph under construction
          proto,       \* node -> what it is
          ports,       \* edge -> the two ports it joins
          kindOf,      \* region -> its kind
          constrained, \* the regions that carry a constraint
          stack,       \* region_stack: the open regions, the innermost last
          phase        \* "building", "built", "rejected" or "taken"

builderVars == <<graph, proto, ports, kindOf, constrained, stack, phase>>

PortPair == [from : Port, to : Port]
Frame    == [kind : RegionKind, children : SUBSET NodeId, inner : SUBSET RegionId]

BuilderInit ==
    /\ graph = EmptyGraph /\ proto = EmptyMap /\ ports = EmptyMap
    /\ kindOf = EmptyMap /\ constrained = {}
    /\ stack = <<>> /\ phase = "building"

\* Fault: a node belongs to every region that is open around it.
AddBuilderNode_AllFrames(n, t) ==
    /\ phase = "building" /\ n \notin graph.nodes
    /\ graph' = WithNode(graph, n)
    /\ proto' = proto ++ One(n, t)
    /\ stack' = [i \in DOMAIN stack |-> [stack[i] EXCEPT !.children = @ \cup {n}]]
    /\ UNCHANGED <<ports, kindOf, constrained, phase>>

\* add_node, add_typed_node, add_full_node: the UUID is new.
AddBuilderNode(n, t) ==
    /\ phase = "building" /\ n \notin graph.nodes
    /\ graph' = WithNode(graph, n)
    /\ proto' = proto ++ One(n, t)
    /\ stack' = IF stack = <<>> THEN stack
                ELSE [stack EXCEPT ![Len(stack)].children = @ \cup {n}]
    /\ UNCHANGED <<ports, kindOf, constrained, phase>>

\* annotate, set_contract, set_provenance: a node may be changed at any time.
Amend(n, t) ==
    /\ phase = "building" /\ n \in graph.nodes /\ <<proto[n], t>> \in Variants
    /\ proto' = [proto EXCEPT ![n] = t]
    /\ UNCHANGED <<graph, ports, kindOf, constrained, stack, phase>>

\* connect and its variants: nothing is said about ports or types, and a
\* dangling end is an error that changes nothing.
Connect(e, s, t, pp) ==
    LET E == One(e, [source |-> s, target |-> t]) IN
    /\ phase = "building" /\ CanTake(graph, E)
    /\ graph' = WithEdges(graph, E)
    /\ ports' = ports ++ One(e, pp)
    /\ UNCHANGED <<proto, kindOf, constrained, stack, phase>>

BeginRegion(k) ==
    /\ phase = "building" /\ Len(stack) < MaxDepth
    /\ stack' = Append(stack, [kind |-> k, children |-> {}, inner |-> {}])
    /\ UNCHANGED <<graph, proto, ports, kindOf, constrained, phase>>

\* end_region with nothing open is an error that changes nothing.
EndRegion(r) ==
    LET top   == stack[Len(stack)]
        below == SubSeq(stack, 1, Len(stack) - 1)
    IN /\ phase = "building" /\ stack # <<>> /\ r \notin DOMAIN graph.regions
       /\ graph' = WithParent(WithRegion(graph, r, top.children, None), top.inner, r)
       /\ kindOf' = kindOf ++ One(r, top.kind)
       /\ stack' = IF below = <<>> THEN below
                   ELSE [below EXCEPT ![Len(below)].inner = @ \cup {r}]
       /\ UNCHANGED <<proto, ports, constrained, phase>>

AddRegionConstraint(r) ==
    /\ phase = "building" /\ r \in DOMAIN graph.regions
    /\ constrained' = constrained \cup {r}
    /\ UNCHANGED <<graph, proto, ports, kindOf, stack, phase>>

\* The edges that use a port the signature of their node does not have.
BadPort(e) ==
    LET out == Arity[proto[graph.edges[e].source]]
        in  == Arity[proto[graph.edges[e].target]]
    IN \/ out # None /\ ports[e].from >= out.outs
       \/ in # None /\ ports[e].to >= in.ins

\* build checks that nothing dangles and the ports, into_graph checks nothing.
\* Neither looks at the regions still open: they are dropped.
Finish ==
    LET valid == Validates(graph) /\ \A e \in DOMAIN graph.edges : ~BadPort(e)
    IN /\ phase = "building"
       /\ phase' \in {IF valid THEN "built" ELSE "rejected", "taken"}
       /\ UNCHANGED <<graph, proto, ports, kindOf, constrained, stack>>

BuilderNext ==
    \/ \E n \in BuilderNode, t \in Prototype : AddBuilderNode(n, t) \/ Amend(n, t)
    \/ \E e \in BuilderEdge, s, t \in BuilderNode, pp \in PortPair : Connect(e, s, t, pp)
    \/ \E k \in RegionKind : BeginRegion(k)
    \/ \E r \in BuilderRegion : EndRegion(r) \/ AddRegionConstraint(r)
    \/ Finish

BuilderSpec == BuilderInit /\ [][BuilderNext]_builderVars

-----------------------------------------------------------------------------
BuilderTypeOK ==
    /\ IsGraph(graph)
    /\ proto \in [graph.nodes -> Prototype]
    /\ ports \in [DOMAIN graph.edges -> PortPair]
    /\ kindOf \in [DOMAIN graph.regions -> RegionKind]
    /\ constrained \subseteq DOMAIN graph.regions
    /\ stack \in Seq(Frame)
    /\ phase \in {"building", "built", "rejected", "taken"}

\* The open regions share no node and no inner region with each other, and
\* what they hold is not housed yet: so ending one can take nothing from
\* another, whatever the nesting.
FramesDisjoint ==
    \A i \in DOMAIN stack :
       /\ stack[i].children \subseteq graph.nodes \ DOMAIN graph.nodeRegion
       /\ \A r \in stack[i].inner : r \in DOMAIN graph.regions /\ graph.regions[r].parent = None
       /\ \A j \in DOMAIN stack \ {i} :
            /\ stack[i].children \cap stack[j].children = {}
            /\ stack[i].inner \cap stack[j].inner = {}

\* A builder's graph is well kept at every moment, and build refuses it for a
\* port out of range only.
BuilderSound ==
    /\ EdgesKept(graph) /\ RegionsKept(graph) /\ FramesDisjoint
    /\ phase = "built" => \A e \in DOMAIN graph.edges : ~BadPort(e)
    /\ phase = "rejected" => \E e \in DOMAIN graph.edges : BadPort(e)

Frames(n) == {i \in DOMAIN stack : n \in stack[i].children}

\* A node that was added inside a region stays in it: it is on that open
\* region's list until the region ends and then for good in the region, and
\* the regions of two nodes are never merged.
NodesStayHoused ==
    \A n \in graph.nodes :
       /\ n \in DOMAIN graph.nodeRegion =>
            n \in DOMAIN graph'.nodeRegion /\ graph'.nodeRegion[n] = graph.nodeRegion[n]
       /\ Frames(n) # {} => \/ Frames(n)' = Frames(n)
                            \/ /\ n \in DOMAIN graph'.nodeRegion
                               /\ graph'.nodeRegion[n] \notin DOMAIN graph.regions

\* Seen through its graph, a builder is a disciplined client of the container:
\* it only takes those steps of TorcGraph!DisciplinedNext that never reuse a
\* region id, never put a node into two regions and give every region its
\* parent once.  So what holds for every disciplined client holds for it.
Container == INSTANCE TorcGraph WITH Others <- {}, MaxWires <- 0, MaxCopies <- 1
ClientStep ==
    \/ \E n \in BuilderNode : Container!AddNode(n)
    \/ \E e \in BuilderEdge, s, t \in BuilderNode : Container!AddEdge(e, s, t)
    \/ \E r \in BuilderRegion, C \in SUBSET BuilderNode, K \in SUBSET BuilderRegion :
         Container!AddFreshRegion(r, C, K)
DisciplinedClient == ClientStep \/ UNCHANGED graph

\* The builder is a disciplined client of the container, no node leaves a region
\* it was added to, be that still open or ended, and the graph that it hands out
\* is well kept however its client nested regions and calls (builder.rs).
BuilderKeeps == [][BuilderSound' /\ NodesStayHoused /\ DisciplinedClient]_builderVars
=============================================================================
