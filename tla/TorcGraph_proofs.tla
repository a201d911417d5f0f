-------------------------- MODULE TorcGraph_proofs --------------------------
(***************************************************************************)
(* The indexes of the graph container are exact after every operation,     *)
(* whatever the client does.  For a client that makes regions the way      *)
(* GraphBuilder does, a node is in the list of exactly the region the node *)
(* index names and the regions are a forest; so validate accepts every     *)
(* graph, and the indexed graph implements the plain store of GraphStore.  *)
(***************************************************************************)
EXTENDS TorcGraph, GraphLemmas, FiniteSetTheorems

(* Edges *)

EdgeInv == TypeOK /\ IndexesExact

\* The edges that replace_subgraph recreates join nodes that are there.
LEMMA RewiredFits ==
    ASSUME EdgeInv, NEW o \in Others, NEW old, old \subseteq graph.nodes,
           NEW moved \in [Crossing(graph, old) -> o.nodes],
           NEW fresh \in Injection(Crossing(graph, old), EdgeId),
           \A e \in DOMAIN fresh : fresh[e] \notin DOMAIN graph.edges \cup DOMAIN o.edges
    PROVE  /\ IsMap(Rewired(old, moved, fresh), EdgeId, Edge)
           /\ CanTake(Merged(WithoutNodes(graph, old), o), Rewired(old, moved, fresh))
<1> DEFINE X == Crossing(graph, old)
           R == Rewired(old, moved, fresh)
           Back(f) == CHOOSE x \in X : fresh[x] = f
<1>1. fresh \in [X -> EdgeId]
  BY DEF Injection
<1>2. X \subseteq DOMAIN graph.edges /\ \A e \in X : graph.edges[e] \in Edge
  BY DEF Crossing, EdgeInv, TypeOK, IsGraph, IsMap
<1>3. IsGraph(o)
  BY OthersAssumption
<1>4. DOMAIN R = {fresh[e] : e \in X}
  BY <1>1 DEF Rewired
<1>5. ASSUME NEW f \in DOMAIN R
      PROVE  /\ R[f] \in Edge
             /\ {R[f].source, R[f].target} \subseteq (graph.nodes \ old) \cup o.nodes
  <2>1. Back(f) \in X /\ fresh[Back(f)] = f
    BY <1>4, <1>5
  <2> DEFINE e == Back(f)
  <2>2. R[f] = IF graph.edges[e].source \in old
               THEN [graph.edges[e] EXCEPT !.source = moved[e]]
               ELSE [graph.edges[e] EXCEPT !.target = moved[e]]
    BY <1>1, <1>4, <1>5 DEF Rewired
  <2> HIDE DEF e
  <2>3. e \in X /\ moved[e] \in o.nodes /\ graph.edges[e] \in Edge
    BY <2>1, <1>2 DEF e
  <2>4. {graph.edges[e].source, graph.edges[e].target} \subseteq graph.nodes
    BY <2>3, <1>2 DEF EdgeInv, IndexesExact, EdgesKept, EdgesAnchored
  <2>5. (graph.edges[e].source \in old) # (graph.edges[e].target \in old)
    BY <2>3 DEF Crossing
  <2>6. o.nodes \subseteq NodeId
    BY <1>3 DEF IsGraph
  <2> HIDE DEF R, X
  <2> QED BY <2>2, <2>3, <2>4, <2>5, <2>6 DEF Edge
<1>6. IsMap(R, EdgeId, Edge)
  <2>1. R = [f \in DOMAIN R |-> R[f]]
    BY DEF Rewired
  <2>2. DOMAIN R \subseteq EdgeId
    BY <1>1, <1>4
  <2> HIDE DEF R
  <2> QED BY <1>5, <2>1, <2>2 DEF IsMap
<1>7. CanTake(Merged(WithoutNodes(graph, old), o), R)
  <2>1. DOMAIN R \cap (DOMAIN graph.edges \cup DOMAIN o.edges) = {}
    BY <1>1, <1>4
  <2>2. /\ DOMAIN Merged(WithoutNodes(graph, old), o).edges
            \subseteq DOMAIN graph.edges \cup DOMAIN o.edges
        /\ Merged(WithoutNodes(graph, old), o).nodes = (graph.nodes \ old) \cup o.nodes
    BY DEF Merged, WithoutNodes, Without, Restrict, ++
  <2> QED BY <1>5, <2>1, <2>2 DEF CanTake
<1> QED BY <1>6, <1>7

\* Every call that both clients can make keeps the indexes exact.
LEMMA CommonKept ==
    ASSUME EdgeInv, Common
    PROVE  EdgeInv'
<1> USE DEF EdgeInv, TypeOK, IndexesExact
<1>1. ASSUME NEW n \in NodeId, AddNode(n) PROVE EdgeInv'
  BY <1>1, WithNodeKept DEF AddNode
<1>2. ASSUME NEW n \in NodeId, RemoveNode(n) PROVE EdgeInv'
  BY <1>2, WithoutNodesKept DEF RemoveNode
<1>3. ASSUME NEW e \in EdgeId, NEW s \in NodeId, NEW t \in NodeId, AddEdge(e, s, t)
      PROVE  EdgeInv'
  <2>1. IsMap(One(e, [source |-> s, target |-> t]), EdgeId, Edge)
    BY DEF IsMap, One, Edge
  <2> QED BY <1>3, <2>1, WithEdgesKept DEF AddEdge
<1>4. ASSUME NEW e \in EdgeId, RemoveEdge(e) PROVE EdgeInv'
  BY <1>4, WithoutEdgeKept DEF RemoveEdge
<1>5. ASSUME NEW r \in RegionId, RemoveRegion(r) PROVE EdgeInv'
  BY <1>5, WithoutRegionKept DEF RemoveRegion
<1>6. ASSUME NEW r \in RegionId, InlineRegion(r) PROVE EdgeInv'
  BY <1>6, InlinedRegionKept DEF InlineRegion
<1>7. ASSUME NEW o \in Others, MergeOther(o) PROVE EdgeInv'
  BY <1>7, OthersAssumption, MergedKept DEF MergeOther
<1>8. ASSUME NEW o \in Others,
             NEW E \in Wiring(graph.nodes \cup o.nodes, graph.nodes \cup o.nodes),
             Compose(o, E)
      PROVE  EdgeInv'
  <2>1. IsGraph(Merged(graph, o)) /\ EdgesKept(Merged(graph, o))
    BY <1>8, OthersAssumption, MergedKept DEF Compose
  <2>2. graph.nodes \cup o.nodes \subseteq NodeId
    BY OthersAssumption DEF IsGraph
  <2>3. IsMap(E, EdgeId, Edge)
    BY <1>8, <2>2 DEF Wiring, IsMap, Edge
  <2> QED BY <1>8, <2>1, <2>3, WithEdgesKept DEF Compose
<1>9. ASSUME NEW o \in Others, NEW old \in SUBSET NodeId, Replacing(old, o)
      PROVE  EdgeInv'
  <2>1. ASSUME NEW S \in SUBSET NodeId
        PROVE  IsGraph(WithoutNodes(graph, S)) /\ EdgesKept(WithoutNodes(graph, S))
    BY WithoutNodesKept
  <2>2. PICK moved \in [Crossing(graph, old) -> o.nodes] :
               \/ \E fresh \in Injection(Crossing(graph, old), EdgeId) :
                     ReplaceSubgraph(old, o, moved, fresh)
               \/ ReplaceSubgraphFails(old, o, moved)
    BY <1>9 DEF Replacing
  <2>3. CASE ReplaceSubgraphFails(old, o, moved)
    BY <2>1, <2>3 DEF ReplaceSubgraphFails
  <2>4. ASSUME NEW fresh \in Injection(Crossing(graph, old), EdgeId),
               ReplaceSubgraph(old, o, moved, fresh)
        PROVE  EdgeInv'
    <3> DEFINE rest == WithoutNodes(graph, old)
    <3>1. IsGraph(Merged(rest, o)) /\ EdgesKept(Merged(rest, o))
      BY <2>1, <2>4, OthersAssumption, MergedKept DEF ReplaceSubgraph
    <3>2. /\ IsMap(Rewired(old, moved, fresh), EdgeId, Edge)
          /\ CanTake(Merged(rest, o), Rewired(old, moved, fresh))
      BY <2>4, RewiredFits DEF ReplaceSubgraph
    <3> QED BY <2>4, <3>1, <3>2, WithEdgesKept DEF ReplaceSubgraph
  <2> QED BY <2>2, <2>3, <2>4
<1> QED BY <1>1, <1>2, <1>3, <1>4, <1>5, <1>6, <1>7, <1>8, <1>9 DEF Common

\* The graph container's adjacency indexes and child index are exact, for any
\* sets of ids, any graphs merged in, and any sequence of calls, those that
\* fail half way included.
THEOREM IndexesAlwaysExact == Spec => [](TypeOK /\ IndexesExact)
<1>1. Init => EdgeInv
  BY EmptyGraphKept DEF Init, EdgeInv, TypeOK, IndexesExact
<1>2. EdgeInv /\ [Next]_graph => EdgeInv'
  <2> SUFFICES ASSUME EdgeInv, [Next]_graph PROVE EdgeInv'
    OBVIOUS
  <2> USE DEF EdgeInv, TypeOK, IndexesExact
  <2>1. CASE Common
    BY <2>1, CommonKept
  <2>2. ASSUME NEW r \in RegionId, NEW C \in SUBSET NodeId, NEW p \in RegionId \cup {None},
               AddRegion(r, C, p)
        PROVE  EdgeInv'
    BY <2>2, WithRegionKept DEF AddRegion
  <2>3. ASSUME NEW c \in RegionId, NEW p \in RegionId, SetRegionParent(c, p)
        PROVE  EdgeInv'
    BY <2>3, WithParentKept DEF SetRegionParent
  <2>4. CASE UNCHANGED graph
    BY <2>4
  <2> QED BY <2>1, <2>2, <2>3, <2>4 DEF Next
<1> QED BY <1>1, <1>2, PTL DEF Spec, EdgeInv

-----------------------------------------------------------------------------
(* Regions *)

RegionInv == EdgeInv /\ RegionsExact

\* Every call that both clients can make keeps the regions.
LEMMA CommonRegions ==
    ASSUME RegionInv, Common
    PROVE  RegionsExact'
<1> USE DEF EdgeInv, TypeOK, IndexesExact, RegionsExact
<1>1. WellKept(graph)
  BY DEF WellKept, RegionInv
<1>2. \A o \in Others : WellKept(o)
  BY OthersAssumption, OthersDisciplined DEF WellKept
<1>3. ASSUME NEW n \in NodeId, AddNode(n) PROVE RegionsExact'
  BY <1>1, <1>3, WithNodeRegions DEF AddNode
<1>4. ASSUME NEW n \in NodeId, RemoveNode(n) PROVE RegionsExact'
  BY <1>1, <1>4, WithoutNodesRegions DEF RemoveNode
<1>5. ASSUME NEW e, NEW s, NEW t, AddEdge(e, s, t) PROVE RegionsExact'
  BY <1>1, <1>5, WithEdgesRegions DEF AddEdge
<1>6. ASSUME NEW e, RemoveEdge(e) PROVE RegionsExact'
  BY <1>1, <1>6, WithoutEdgeRegions DEF RemoveEdge
<1>7. ASSUME NEW r, RemoveRegion(r) PROVE RegionsExact'
  BY <1>1, <1>7, WithoutRegionRegions DEF RemoveRegion
<1>8. ASSUME NEW r, InlineRegion(r) PROVE RegionsExact'
  BY <1>1, <1>8, InlinedRegionRegions DEF InlineRegion
<1>9. ASSUME NEW o \in Others, MergeOther(o) PROVE RegionsExact'
  BY <1>1, <1>2, <1>9, MergedRegions DEF MergeOther
<1>10. ASSUME NEW o \in Others,
              NEW E \in Wiring(graph.nodes \cup o.nodes, graph.nodes \cup o.nodes),
              Compose(o, E)
       PROVE  RegionsExact'
  <2>1. WellKept(Merged(graph, o))
    BY <1>1, <1>2, <1>10, MergedRegions, MergedKept DEF Compose, WellKept
  <2> QED BY <1>10, <2>1, WithEdgesRegions DEF Compose
<1>11. ASSUME NEW o \in Others, NEW old \in SUBSET NodeId, Replacing(old, o)
       PROVE  RegionsExact'
  <2>1. ASSUME NEW S \in SUBSET NodeId PROVE WellKept(WithoutNodes(graph, S))
    BY <1>1, WithoutNodesKept, WithoutNodesRegions DEF WellKept
  <2>2. PICK moved \in [Crossing(graph, old) -> o.nodes] :
               \/ \E fresh \in Injection(Crossing(graph, old), EdgeId) :
                     ReplaceSubgraph(old, o, moved, fresh)
               \/ ReplaceSubgraphFails(old, o, moved)
    BY <1>11 DEF Replacing
  <2>3. CASE ReplaceSubgraphFails(old, o, moved)
    BY <2>1, <2>3 DEF ReplaceSubgraphFails, WellKept
  <2>4. ASSUME NEW fresh, ReplaceSubgraph(old, o, moved, fresh) PROVE RegionsExact'
    <3>1. WellKept(Merged(WithoutNodes(graph, old), o))
      BY <1>2, <2>1, <2>4, MergedRegions, MergedKept DEF ReplaceSubgraph, WellKept
    <3> QED BY <2>4, <3>1, WithEdgesRegions DEF ReplaceSubgraph
  <2> QED BY <2>2, <2>3, <2>4
<1> QED BY <1>3, <1>4, <1>5, <1>6, <1>7, <1>8, <1>9, <1>10, <1>11 DEF Common

\* For the disciplined client: indexes exact, one home per node, a forest of
\* regions, and a graph that validate accepts, after every call.
THEOREM RegionsAlwaysExact ==
    DisciplinedSpec => [](TypeOK /\ IndexesExact /\ RegionsExact /\ AlwaysValid /\ ExtractsWellKept)
<1>1. Init => RegionInv
  BY EmptyGraphKept, EmptyRegions DEF Init, RegionInv, EdgeInv, TypeOK, IndexesExact, RegionsExact
<1>2. RegionInv /\ [DisciplinedNext]_graph => RegionInv'
  <2> SUFFICES ASSUME RegionInv, [DisciplinedNext]_graph PROVE RegionInv'
    OBVIOUS
  <2>1. CASE Common
    BY <2>1, CommonKept, CommonRegions DEF RegionInv
  <2>2. ASSUME NEW r \in RegionId, NEW C \in SUBSET NodeId, NEW K \in SUBSET RegionId,
               AddFreshRegion(r, C, K)
        PROVE  RegionInv'
    <3> DEFINE g == WithRegion(graph, r, C, None)
    <3>1. WellKept(graph)
      BY DEF WellKept, RegionInv, EdgeInv, TypeOK, IndexesExact, RegionsExact
    <3>2. IsGraph(g) /\ EdgesKept(g)
      BY <3>1, WithRegionKept DEF WellKept
    <3>3. K \subseteq DOMAIN g.regions
      BY <2>2 DEF AddFreshRegion, WithRegion, ++
    <3>4. IsGraph(WithParent(g, K, r)) /\ EdgesKept(WithParent(g, K, r))
      BY <3>2, <3>3, WithParentKept
    <3>5. RegionsKept(WithParent(g, K, r))
      BY <2>2, <3>1, FreshRegionRegions DEF AddFreshRegion
    <3> QED BY <2>2, <3>4, <3>5
           DEF AddFreshRegion, RegionInv, EdgeInv, TypeOK, IndexesExact, RegionsExact
  <2>3. CASE UNCHANGED graph
    BY <2>3 DEF RegionInv, EdgeInv, TypeOK, IndexesExact, RegionsExact
  <2> QED BY <2>1, <2>2, <2>3 DEF DisciplinedNext
<1>3. RegionInv => TypeOK /\ IndexesExact /\ RegionsExact /\ AlwaysValid /\ ExtractsWellKept
  <2> SUFFICES ASSUME RegionInv
               PROVE  TypeOK /\ IndexesExact /\ RegionsExact /\ AlwaysValid /\ ExtractsWellKept
    OBVIOUS
  <2>1. WellKept(graph)
    BY DEF RegionInv, EdgeInv, TypeOK, IndexesExact, RegionsExact, WellKept
  <2> QED BY <2>1, KeptIsValid, ExtractedSubgraphKept, ExtractedSubgraphRegions
         DEF RegionInv, EdgeInv, AlwaysValid, ExtractsWellKept
<1> QED BY <1>1, <1>2, <1>3, PTL DEF DisciplinedSpec

-----------------------------------------------------------------------------
(* The refinement *)

\* In a well-kept graph the indexes answer what the regions say themselves.
LEMMA QueriesOfKept ==
    ASSUME NEW g, WellKept(g)
    PROVE  /\ WithinOf(g) = [r \in DOMAIN g.regions |-> g.regions[r].parent]
           /\ DOMAIN WithinOf(g) = DOMAIN g.regions
           /\ DOMAIN EndsOf(g) = DOMAIN g.edges
           /\ DOMAIN HomeOf(g) = g.nodes
BY DEF WellKept, RegionsKept, ParentMirrored, WithinOf, EndsOf, HomeOf

\* A node is new to the indexes too.
LEMMA WithNodeQueries ==
    ASSUME NEW g, WellKept(g), NEW n, n \notin g.nodes
    PROVE  LET h == WithNode(g, n)
           IN  /\ h.nodes = g.nodes \cup {n}
               /\ EndsOf(h) = EndsOf(g) /\ WithinOf(h) = WithinOf(g)
               /\ HomeOf(h) = HomeOf(g) ++ One(n, None)
<1> DEFINE h == WithNode(g, n)
<1>1. /\ h.nodes = g.nodes \cup {n} /\ h.edges = g.edges /\ h.nodeRegion = g.nodeRegion
      /\ h.regions = g.regions /\ h.regionParent = g.regionParent
  BY DEF WithNode, WellKept, IsGraph
<1>2. DOMAIN g.nodeRegion \subseteq g.nodes
  BY DEF WellKept, RegionsKept, HomeExact
<1> HIDE DEF h
<1>3. HomeOf(h) = HomeOf(g) ++ One(n, None)
  BY <1>1, <1>2 DEF HomeOf, ++, One
<1> QED BY <1>1, <1>3 DEF EndsOf, WithinOf, h

\* Only the ends of the new edges are added.
LEMMA WithEdgesQueries ==
    ASSUME NEW g, IsGraph(g), NEW E
    PROVE  LET h == WithEdges(g, E)
           IN  /\ h.nodes = g.nodes
               /\ HomeOf(h) = HomeOf(g) /\ WithinOf(h) = WithinOf(g)
               /\ EndsOf(h) = EndsOf(g) ++ [e \in DOMAIN E |-> <<E[e].source, E[e].target>>]
<1> DEFINE h == WithEdges(g, E)
<1>1. /\ h.nodes = g.nodes /\ h.edges = g.edges ++ E /\ h.nodeRegion = g.nodeRegion
      /\ h.regions = g.regions /\ h.regionParent = g.regionParent
  BY DEF WithEdges, IsGraph
<1> HIDE DEF h
<1>2. EndsOf(h) = EndsOf(g) ++ [e \in DOMAIN E |-> <<E[e].source, E[e].target>>]
  BY <1>1 DEF EndsOf, ++
<1> QED BY <1>1, <1>2 DEF HomeOf, WithinOf, h

\* An edge goes alone.
LEMMA WithoutEdgeQueries ==
    ASSUME NEW g, IsGraph(g), NEW e
    PROVE  LET h == WithoutEdge(g, e)
           IN  /\ h.nodes = g.nodes
               /\ HomeOf(h) = HomeOf(g) /\ WithinOf(h) = WithinOf(g)
               /\ EndsOf(h) = Without(EndsOf(g), {e})
<1> DEFINE h == WithoutEdge(g, e)
<1>1. /\ h.nodes = g.nodes /\ h.edges = Without(g.edges, {e}) /\ h.nodeRegion = g.nodeRegion
      /\ h.regions = g.regions /\ h.regionParent = g.regionParent
  BY DEF WithoutEdge, IsGraph
<1> HIDE DEF h
<1>2. EndsOf(h) = Without(EndsOf(g), {e})
  BY <1>1 DEF EndsOf, Without, Restrict
<1> QED BY <1>1, <1>2 DEF HomeOf, WithinOf, h

\* The edges that touch none of S.
Untouched(g, S) == {e \in DOMAIN g.edges : g.edges[e].source \notin S /\ g.edges[e].target \notin S}

\* Nodes go with exactly the edges that touch them.
LEMMA WithoutNodesQueries ==
    ASSUME NEW g, WellKept(g), NEW S
    PROVE  LET h == WithoutNodes(g, S)
           IN  /\ h.nodes = g.nodes \ S
               /\ WithinOf(h) = WithinOf(g)
               /\ HomeOf(h) = Without(HomeOf(g), S)
               /\ DOMAIN h.edges = Untouched(g, S)
               /\ EndsOf(h) = Restrict(EndsOf(g), Untouched(g, S))
<1> DEFINE h == WithoutNodes(g, S)
           gone == {e \in DOMAIN g.edges : \E n \in S :
                      \/ n \in DOMAIN g.outgoing /\ g.outgoing[n][e] > 0
                      \/ n \in DOMAIN g.incoming /\ g.incoming[n][e] > 0}
           Out == Untouched(g, S)
<1>1. /\ h.nodes = g.nodes \ S /\ h.edges = Without(g.edges, gone)
      /\ h.nodeRegion = Without(g.nodeRegion, S) /\ h.regionParent = g.regionParent
      /\ DOMAIN h.regions = DOMAIN g.regions
  BY DEF WithoutNodes
<1>2. DOMAIN g.edges \ gone = Out /\ Out \subseteq DOMAIN g.edges
  BY DEF Untouched, WellKept, IsGraph, IsMap, EdgesKept, EdgesAnchored, IndexExact
<1> HIDE DEF h, gone, Out
<1>3. WithinOf(h) = WithinOf(g)
  BY <1>1 DEF WithinOf
<1>4. HomeOf(h) = Without(HomeOf(g), S)
  BY <1>1 DEF HomeOf, Without, Restrict
<1>5. h.edges = [e \in Out |-> g.edges[e]]
  BY <1>1, <1>2 DEF Without, Restrict
<1>6. EndsOf(h) = Restrict(EndsOf(g), Out)
  BY <1>2, <1>5 DEF EndsOf, Restrict
<1> QED BY <1>1, <1>3, <1>4, <1>5, <1>6 DEF h, Out

\* A new region encloses homeless nodes and top-level regions.
LEMMA FreshRegionQueries ==
    ASSUME NEW g, WellKept(g), NEW r \in RegionId, r \notin DOMAIN g.regions,
           NEW C, C \subseteq g.nodes \ DOMAIN g.nodeRegion,
           NEW K, K \subseteq {c \in DOMAIN g.regions : g.regions[c].parent = None}
    PROVE  LET h == WithParent(WithRegion(g, r, C, None), K, r)
           IN  /\ h.nodes = g.nodes
               /\ EndsOf(h) = EndsOf(g)
               /\ HomeOf(h) = [n \in g.nodes |-> IF n \in C THEN r ELSE HomeOf(g)[n]]
               /\ WithinOf(h) = [k \in DOMAIN g.regions |-> IF k \in K THEN r ELSE WithinOf(g)[k]]
                                  ++ One(r, None)
<1> DEFINE h == WithParent(WithRegion(g, r, C, None), K, r)
<1>1. /\ h.nodes = g.nodes /\ h.edges = g.edges
      /\ h.nodeRegion = g.nodeRegion ++ [n \in C |-> r]
      /\ h.regionParent = g.regionParent ++ [c \in K |-> r]
      /\ DOMAIN h.regions = DOMAIN g.regions \cup {r}
  BY DEF WithParent, WithRegion, WellKept, IsGraph, ++, One
<1>2. r \notin K /\ r \notin DOMAIN g.regionParent
  BY DEF WellKept, RegionsKept, ParentMirrored
<1> HIDE DEF h
<1>3. HomeOf(h) = [n \in g.nodes |-> IF n \in C THEN r ELSE HomeOf(g)[n]]
  BY <1>1 DEF HomeOf, ++
<1>4. WithinOf(h) = [k \in DOMAIN g.regions |-> IF k \in K THEN r ELSE WithinOf(g)[k]]
                      ++ One(r, None)
  BY <1>1, <1>2 DEF WithinOf, ++, One
<1> QED BY <1>1, <1>3, <1>4 DEF EndsOf, h

\* A removed region leaves its children and sub-regions at the top.
LEMMA WithoutRegionQueries ==
    ASSUME NEW g, WellKept(g), NEW r \in DOMAIN g.regions
    PROVE  LET h == WithoutRegion(g, r)
           IN  /\ h.nodes = g.nodes
               /\ EndsOf(h) = EndsOf(g)
               /\ HomeOf(h) = [n \in g.nodes |-> IF HomeOf(g)[n] = r THEN None ELSE HomeOf(g)[n]]
               /\ WithinOf(h) = [k \in DOMAIN g.regions \ {r} |->
                                   IF WithinOf(g)[k] = r THEN None ELSE WithinOf(g)[k]]
<1> DEFINE h == WithoutRegion(g, r)
           subs == SubRegions(g, r)
<1>1. /\ h.nodes = g.nodes /\ h.edges = g.edges
      /\ h.nodeRegion = Without(g.nodeRegion, Listed(g.regionChildren[r]))
      /\ h.regionParent = Without(g.regionParent, subs \cup {r})
      /\ DOMAIN h.regions = DOMAIN g.regions \ {r}
  BY DEF WithoutRegion, WellKept, IsGraph
<1>2. Listed(g.regionChildren[r]) = {n \in DOMAIN g.nodeRegion : g.nodeRegion[n] = r}
  BY DEF Listed, WellKept, EdgesKept, ChildrenMirrored, RegionsKept, HomeExact, IsGraph, IsMap, NodeList
<1>3. r \in RegionId /\ r # None
  BY NoneAssumption DEF WellKept, IsGraph, IsMap
<1> HIDE DEF h
<1>4. HomeOf(h) = [n \in g.nodes |-> IF HomeOf(g)[n] = r THEN None ELSE HomeOf(g)[n]]
  BY <1>1, <1>2, <1>3 DEF HomeOf, Without, Restrict
<1>5. WithinOf(h) = [k \in DOMAIN g.regions \ {r} |->
                       IF WithinOf(g)[k] = r THEN None ELSE WithinOf(g)[k]]
  BY <1>1, <1>3 DEF WithinOf, SubRegions, Without, Restrict
<1> QED BY <1>1, <1>4, <1>5 DEF EndsOf, h

\* Inlining moves children and sub-regions to where the region was.
LEMMA InlinedRegionQueries ==
    ASSUME NEW g, WellKept(g), NEW r \in DOMAIN g.regions
    PROVE  LET h == InlinedRegion(g, r)
               up == WithinOf(g)[r]
           IN  /\ h.nodes = g.nodes
               /\ EndsOf(h) = EndsOf(g)
               /\ HomeOf(h) = [n \in g.nodes |-> IF HomeOf(g)[n] = r THEN up ELSE HomeOf(g)[n]]
               /\ WithinOf(h) = [k \in DOMAIN g.regions \ {r} |->
                                   IF WithinOf(g)[k] = r THEN up ELSE WithinOf(g)[k]]
<1> DEFINE h == InlinedRegion(g, r)
           subs == SubRegions(g, r)
           p == g.regions[r].parent
           kids == Listed(g.regions[r].children)
<1>1. /\ h.nodes = g.nodes /\ h.edges = g.edges
      /\ h.nodeRegion = IF p = None THEN Without(g.nodeRegion, kids)
                                    ELSE g.nodeRegion ++ [n \in kids |-> p]
      /\ h.regionParent = Without(IF p = None THEN Without(g.regionParent, subs)
                                  ELSE g.regionParent ++ [c \in subs |-> p], {r})
      /\ DOMAIN h.regions = DOMAIN g.regions \ {r}
  BY DEF InlinedRegion, WellKept, IsGraph
<1>2. kids = {n \in DOMAIN g.nodeRegion : g.nodeRegion[n] = r}
  BY DEF Listed, WellKept, RegionsKept, HomeExact, IsGraph, IsMap, NodeList, Region
<1>3. r # None /\ WithinOf(g)[r] = p
  BY NoneAssumption, QueriesOfKept DEF WellKept, IsGraph, IsMap
<1>4. DOMAIN g.nodeRegion \subseteq g.nodes
  BY DEF WellKept, RegionsKept, HomeExact
<1> HIDE DEF h, p, kids
<1>5. HomeOf(h) = [n \in g.nodes |-> IF HomeOf(g)[n] = r THEN p ELSE HomeOf(g)[n]]
  BY <1>1, <1>2, <1>3, <1>4 DEF HomeOf, Without, Restrict, ++
<1>6. WithinOf(h) = [k \in DOMAIN g.regions \ {r} |->
                       IF WithinOf(g)[k] = r THEN p ELSE WithinOf(g)[k]]
  <2>1. CASE p = None
    BY <1>1, <1>3, <2>1 DEF WithinOf, SubRegions, Without, Restrict
  <2>2. CASE p # None
    BY <1>1, <1>3, <2>2 DEF WithinOf, SubRegions, Without, Restrict, ++
  <2> QED BY <2>1, <2>2
<1> QED BY <1>1, <1>3, <1>5, <1>6 DEF EndsOf, h

\* Merging puts two stores side by side.
LEMMA MergedQueries ==
    ASSUME NEW g, WellKept(g), NEW o, WellKept(o), ~MergeConflict(g, o)
    PROVE  LET h == Merged(g, o)
           IN  /\ h.nodes = g.nodes \cup o.nodes
               /\ EndsOf(h) = EndsOf(g) ++ EndsOf(o)
               /\ HomeOf(h) = HomeOf(g) ++ HomeOf(o)
               /\ WithinOf(h) = WithinOf(g) ++ WithinOf(o)
<1> DEFINE h == Merged(g, o)
<1>1. /\ h.nodes = g.nodes \cup o.nodes
      /\ h.edges = g.edges ++ o.edges
      /\ h.regions = g.regions ++ o.regions
      /\ h.nodeRegion = g.nodeRegion ++ o.nodeRegion
      /\ h.regionParent = g.regionParent ++ o.regionParent
  BY DEF Merged
<1>2. /\ g.nodes \cap o.nodes = {} /\ DOMAIN g.regions \cap DOMAIN o.regions = {}
      /\ DOMAIN g.nodeRegion \subseteq g.nodes /\ DOMAIN o.nodeRegion \subseteq o.nodes
      /\ DOMAIN g.regionParent \subseteq DOMAIN g.regions
      /\ DOMAIN o.regionParent \subseteq DOMAIN o.regions
  BY DEF MergeConflict, WellKept, RegionsKept, HomeExact, ParentMirrored
<1> HIDE DEF h
<1>3. EndsOf(h) = EndsOf(g) ++ EndsOf(o)
  BY <1>1 DEF EndsOf, ++
<1>4. HomeOf(h) = HomeOf(g) ++ HomeOf(o)
  BY <1>1, <1>2 DEF HomeOf, ++
<1>5. WithinOf(h) = WithinOf(g) ++ WithinOf(o)
  BY <1>1, <1>2 DEF WithinOf, ++
<1> QED BY <1>1, <1>3, <1>4, <1>5 DEF h

\* The library that a graph is to the store.
LibraryOf(o) == [nodes |-> o.nodes, ends |-> EndsOf(o), home |-> HomeOf(o), within |-> WithinOf(o)]

\* Merging a library and wiring it up is one composition of the store.
LEMMA ComposeImplements ==
    ASSUME RegionInv, NEW o \in Others, ~MergeConflict(graph, o),
           NEW E, DOMAIN E \subseteq EdgeId, CanTake(Merged(graph, o), E),
           Cardinality(DOMAIN E) <= MaxWires,
           graph' = WithEdges(Merged(graph, o), E)
    PROVE  Store!Compose(LibraryOf(o))
<1> DEFINE h == Merged(graph, o)
           W == [e \in DOMAIN E |-> <<E[e].source, E[e].target>>]
<1>1. WellKept(graph) /\ WellKept(o)
  BY OthersAssumption, OthersDisciplined
     DEF RegionInv, EdgeInv, TypeOK, IndexesExact, RegionsExact, WellKept
<1>2. IsGraph(h)
  BY <1>1, MergedKept DEF WellKept
<1>3. /\ graph'.nodes = graph.nodes \cup o.nodes
      /\ HomeOf(graph') = HomeOf(graph) ++ HomeOf(o)
      /\ WithinOf(graph') = WithinOf(graph) ++ WithinOf(o)
      /\ EndsOf(graph') = (EndsOf(graph) ++ EndsOf(o)) ++ W
  BY <1>1, <1>2, MergedQueries, WithEdgesQueries
<1>4. /\ o.nodes \cap graph.nodes = {}
      /\ DOMAIN EndsOf(o) \cap DOMAIN EndsOf(graph) = {}
      /\ DOMAIN WithinOf(o) \cap DOMAIN WithinOf(graph) = {}
  BY <1>1, QueriesOfKept DEF MergeConflict
<1>5. h.nodes = graph.nodes \cup o.nodes /\ DOMAIN h.edges = DOMAIN graph.edges \cup DOMAIN o.edges
  BY DEF Merged, ++
<1>6. DOMAIN E \in SUBSET (EdgeId \ (DOMAIN EndsOf(graph) \cup DOMAIN EndsOf(o)))
  BY <1>1, <1>5, QueriesOfKept DEF CanTake
<1>7. \A e \in DOMAIN E : W[e] \in graph'.nodes \X graph'.nodes
  BY <1>3, <1>5 DEF CanTake
<1> HIDE DEF W
<1>8. /\ DOMAIN EndsOf(graph') = DOMAIN EndsOf(graph) \cup DOMAIN EndsOf(o) \cup DOMAIN E
      /\ \A e \in DOMAIN EndsOf(graph) : EndsOf(graph')[e] = EndsOf(graph)[e]
      /\ \A e \in DOMAIN EndsOf(o) : EndsOf(graph')[e] = EndsOf(o)[e]
      /\ \A e \in DOMAIN E : EndsOf(graph')[e] = W[e]
  BY <1>3, <1>4, <1>6 DEF ++, W
<1>9. Store!Cardinality(DOMAIN E) <= MaxWires
  BY DEF Cardinality, Store!Cardinality
<1> QED BY <1>3, <1>4, <1>6, <1>7, <1>8, <1>9
       DEF Store!Compose, Store!Regions, LibraryOf, ++, Store!++

\* Every crossing edge comes back under its new id, with the end it kept.
LEMMA ReplaceImplements ==
    ASSUME RegionInv, NEW o \in Others, NEW old, old \subseteq NodeId,
           NEW moved \in [Crossing(graph, old) -> o.nodes],
           NEW fresh \in Injection(Crossing(graph, old), EdgeId),
           ReplaceSubgraph(old, o, moved, fresh)
    PROVE  Store!Replace(old, LibraryOf(o))
<1> DEFINE rest == WithoutNodes(graph, old)
           h == Merged(rest, o)
           R == Rewired(old, moved, fresh)
           W == [e \in DOMAIN R |-> <<R[e].source, R[e].target>>]
           X == Crossing(graph, old)
           Out == Untouched(graph, old)
           ends == EndsOf(graph)
<1>1. WellKept(graph) /\ WellKept(o)
  BY OthersAssumption, OthersDisciplined
     DEF RegionInv, EdgeInv, TypeOK, IndexesExact, RegionsExact, WellKept
<1>2. WellKept(rest)
  BY <1>1, WithoutNodesKept, WithoutNodesRegions DEF WellKept
<1>3. /\ old \subseteq graph.nodes /\ ~MergeConflict(rest, o) /\ graph' = WithEdges(h, R)
      /\ \A e \in DOMAIN fresh : fresh[e] \notin DOMAIN graph.edges \cup DOMAIN o.edges
  BY DEF ReplaceSubgraph
<1>4. IsGraph(h)
  BY <1>1, <1>2, <1>3, MergedKept DEF WellKept
<1>5. /\ rest.nodes = graph.nodes \ old /\ WithinOf(rest) = WithinOf(graph)
      /\ HomeOf(rest) = Without(HomeOf(graph), old)
      /\ DOMAIN rest.edges = Out
      /\ EndsOf(rest) = Restrict(ends, Out)
  BY <1>1, WithoutNodesQueries
<1>6. /\ h.nodes = rest.nodes \cup o.nodes
      /\ HomeOf(h) = HomeOf(rest) ++ HomeOf(o)
      /\ WithinOf(h) = WithinOf(rest) ++ WithinOf(o)
      /\ EndsOf(h) = EndsOf(rest) ++ EndsOf(o)
  BY <1>1, <1>2, <1>3, MergedQueries
<1>7. /\ graph'.nodes = h.nodes /\ HomeOf(graph') = HomeOf(h) /\ WithinOf(graph') = WithinOf(h)
      /\ EndsOf(graph') = EndsOf(h) ++ W
  BY <1>3, <1>4, WithEdgesQueries
<1>8. fresh \in [X -> EdgeId] /\ DOMAIN fresh = X /\ \A a, b \in X : fresh[a] = fresh[b] => a = b
  BY DEF Injection, IsInjective
<1>9. DOMAIN ends = DOMAIN graph.edges /\ DOMAIN EndsOf(o) = DOMAIN o.edges
  BY <1>1, QueriesOfKept
<1>10. \A e \in DOMAIN graph.edges : ends[e] = <<graph.edges[e].source, graph.edges[e].target>>
  BY DEF EndsOf
<1>11. Store!Outside(old) = Out /\ X = DOMAIN ends \ (Store!Inside(old) \cup Store!Outside(old))
  <2>1. X \subseteq DOMAIN graph.edges
    BY DEF Crossing
  <2> QED BY <1>9, <1>10, <2>1 DEF Untouched, Store!Outside, Store!Inside, Crossing
<1>12. Out \cap DOMAIN o.edges = {}
  BY <1>3, <1>5 DEF MergeConflict
<1>13. DOMAIN R = {fresh[e] : e \in X}
  BY <1>8 DEF Rewired
<1>14. ASSUME NEW e \in X
       PROVE  R[fresh[e]] = IF graph.edges[e].source \in old
                            THEN [graph.edges[e] EXCEPT !.source = moved[e]]
                            ELSE [graph.edges[e] EXCEPT !.target = moved[e]]
  <2>1. (CHOOSE x \in X : fresh[x] = fresh[e]) = e
    BY <1>8
  <2> QED BY <1>8, <2>1 DEF Rewired
<1>15. ASSUME NEW e \in X, NEW i \in 1..2
       PROVE  IF ends[e][i] \in old THEN W[fresh[e]][i] \in o.nodes
                                    ELSE W[fresh[e]][i] = ends[e][i]
  <2>1. moved[e] \in o.nodes /\ e \in DOMAIN graph.edges
    BY DEF Crossing
  <2>2. graph.edges[e] \in Edge
    BY <1>1, <2>1 DEF WellKept, IsGraph, IsMap
  <2>3. (graph.edges[e].source \in old) # (graph.edges[e].target \in old)
    BY DEF Crossing
  <2>4. W[fresh[e]] = <<R[fresh[e]].source, R[fresh[e]].target>>
    BY <1>13
  <2>5. ends[e] = <<graph.edges[e].source, graph.edges[e].target>>
    BY <1>10, <2>1
  <2> HIDE DEF W, R, ends, X
  <2>6. i = 1 \/ i = 2
    OBVIOUS
  <2>7. CASE graph.edges[e].source \in old
    <3>1. R[fresh[e]].source = moved[e] /\ R[fresh[e]].target = graph.edges[e].target
      BY <1>14, <2>2, <2>7 DEF Edge
    <3> QED BY <2>1, <2>3, <2>4, <2>5, <2>6, <2>7, <3>1
  <2>8. CASE graph.edges[e].source \notin old
    <3>1. R[fresh[e]].source = graph.edges[e].source /\ R[fresh[e]].target = moved[e]
      BY <1>14, <2>2, <2>8 DEF Edge
    <3> QED BY <2>1, <2>3, <2>4, <2>5, <2>6, <2>8, <3>1
  <2> QED BY <2>7, <2>8
<1>16. DOMAIN W = DOMAIN R
  OBVIOUS
<1> HIDE DEF rest, h, R, W, Out, ends, X
<1>17. /\ DOMAIN EndsOf(graph') = Out \cup DOMAIN o.edges \cup DOMAIN R
       /\ \A e \in Out : EndsOf(graph')[e] = ends[e]
       /\ \A e \in DOMAIN o.edges : EndsOf(graph')[e] = EndsOf(o)[e]
       /\ \A f \in DOMAIN R : EndsOf(graph')[f] = W[f]
  <2>1. DOMAIN R \cap (Out \cup DOMAIN o.edges) = {}
    BY <1>3, <1>8, <1>13, <1>5 DEF Out, Untouched
  <2>2. Out \subseteq DOMAIN ends
    BY <1>9 DEF Out, Untouched
  <2> QED BY <1>5, <1>6, <1>7, <1>9, <1>12, <1>16, <2>1, <2>2 DEF ++, Restrict
<1> QED
  <2>1. /\ graph'.nodes = (graph.nodes \ old) \cup o.nodes
        /\ HomeOf(graph') = Without(HomeOf(graph), old) ++ HomeOf(o)
        /\ WithinOf(graph') = WithinOf(graph) ++ WithinOf(o)
    BY <1>5, <1>6, <1>7
  <2>2. fresh \in Injection(DOMAIN ends \ (Store!Inside(old) \cup Store!Outside(old)), EdgeId)
    BY <1>11 DEF X
  <2>3. /\ \A e \in DOMAIN fresh : fresh[e] \notin DOMAIN ends
        /\ DOMAIN EndsOf(graph') = Store!Outside(old) \cup DOMAIN EndsOf(o) \cup {fresh[e] : e \in DOMAIN fresh}
        /\ \A e \in Store!Outside(old) : EndsOf(graph')[e] = ends[e]
        /\ \A e \in DOMAIN EndsOf(o) : EndsOf(graph')[e] = EndsOf(o)[e]
    BY <1>3, <1>8, <1>9, <1>11, <1>13, <1>17
  <2>4. \A e \in DOMAIN fresh : \A i \in 1..2 :
          IF ends[e][i] \in old THEN EndsOf(graph')[fresh[e]][i] \in o.nodes
                                ELSE EndsOf(graph')[fresh[e]][i] = ends[e][i]
    BY <1>8, <1>13, <1>15, <1>17
  <2> QED BY <1>3, <2>1, <2>2, <2>3, <2>4
         DEF Store!Replace, LibraryOf, ends, ++, Store!++, Without, Store!Without, Restrict,
             Store!Restrict, Injection, Store!Injection, IsInjective, Store!IsInjective

\* A step of the disciplined client is a step of the store, or changes nothing
\* that a query of the store can tell.
LEMMA StepImplements ==
    ASSUME RegionInv, [DisciplinedNext]_graph
    PROVE  [Store!Next]_(Store!vars)
<1>1. WellKept(graph)
  BY DEF RegionInv, EdgeInv, TypeOK, IndexesExact, RegionsExact, WellKept
<1>2. IsGraph(graph) /\ graph.nodes \subseteq NodeId /\ DOMAIN graph.edges \subseteq EdgeId
      /\ DOMAIN graph.regions \subseteq RegionId /\ None \notin RegionId
  BY <1>1, NoneAssumption DEF WellKept, IsGraph, IsMap
<1>3. DOMAIN EndsOf(graph) = DOMAIN graph.edges /\ DOMAIN WithinOf(graph) = DOMAIN graph.regions
  BY <1>1, QueriesOfKept
<1> USE DEF ++, Store!++, One, Store!One, Without, Store!Without, Restrict, Store!Restrict
<1>4. ASSUME NEW n \in NodeId, AddNode(n) PROVE Store!AddNode(n)
  BY <1>1, <1>4, WithNodeQueries DEF AddNode, Store!AddNode
<1>5. ASSUME NEW e \in EdgeId, NEW s \in NodeId, NEW t \in NodeId, AddEdge(e, s, t)
      PROVE  s \in graph.nodes /\ t \in graph.nodes /\ Store!Connect(e, s, t)
  <2> DEFINE E == One(e, [source |-> s, target |-> t])
  <2>1. DOMAIN E = {e} /\ E[e] = [source |-> s, target |-> t]
    OBVIOUS
  <2>2. CanTake(graph, E) /\ graph' = WithEdges(graph, E)
    BY <1>5 DEF AddEdge
  <2>3. e \notin DOMAIN graph.edges /\ {s, t} \subseteq graph.nodes
    BY <2>1, <2>2 DEF CanTake
  <2>4. [x \in DOMAIN E |-> <<E[x].source, E[x].target>>] = One(e, <<s, t>>)
    BY <2>1
  <2> HIDE DEF E, ++, One
  <2>5. /\ graph'.nodes = graph.nodes
        /\ HomeOf(graph') = HomeOf(graph) /\ WithinOf(graph') = WithinOf(graph)
        /\ EndsOf(graph') = EndsOf(graph) ++ One(e, <<s, t>>)
    BY <1>2, <2>2, <2>4, WithEdgesQueries
  <2> QED BY <1>3, <2>3, <2>5 DEF Store!Connect, ++, One
<1>6. ASSUME NEW e \in EdgeId, RemoveEdge(e) PROVE Store!Disconnect(e)
  BY <1>2, <1>3, <1>6, WithoutEdgeQueries DEF RemoveEdge, Store!Disconnect
<1>7. ASSUME NEW S, S \subseteq graph.nodes, graph' = WithoutNodes(graph, S)
      PROVE  (\E T \in SUBSET graph.nodes : Store!Remove(T)) \/ UNCHANGED Store!vars
  <2>1. /\ graph'.nodes = graph.nodes \ S /\ WithinOf(graph') = WithinOf(graph)
        /\ HomeOf(graph') = Without(HomeOf(graph), S)
        /\ EndsOf(graph') = Restrict(EndsOf(graph), Untouched(graph, S))
    BY <1>1, <1>7, WithoutNodesQueries
  <2>2. Store!Outside(S) = Untouched(graph, S)
    BY <1>3 DEF Store!Outside, Untouched, EndsOf
  <2>3. CASE S # {}
    BY <1>7, <2>1, <2>2, <2>3 DEF Store!Remove
  <2>4. CASE S = {}
    BY <1>7, <2>1, <2>4 DEF Store!vars, Untouched, EndsOf, HomeOf
  <2> QED BY <2>3, <2>4
<1>8. ASSUME NEW r \in RegionId, RemoveRegion(r) PROVE Store!RemoveRegion(r)
  <2>1. r \in DOMAIN graph.regions /\ graph' = WithoutRegion(graph, r)
    BY <1>8 DEF RemoveRegion
  <2>2. /\ graph'.nodes = graph.nodes
        /\ EndsOf(graph') = EndsOf(graph)
        /\ HomeOf(graph') = [n \in graph.nodes |-> IF HomeOf(graph)[n] = r THEN None ELSE HomeOf(graph)[n]]
        /\ WithinOf(graph') = [k \in DOMAIN graph.regions \ {r} |->
                                 IF WithinOf(graph)[k] = r THEN None ELSE WithinOf(graph)[k]]
    BY <1>1, <2>1, WithoutRegionQueries
  <2> QED BY <1>3, <2>1, <2>2 DEF Store!RemoveRegion, Store!Dissolve, Store!Regions
<1>9. ASSUME NEW r \in RegionId, InlineRegion(r) PROVE Store!InlineRegion(r)
  <2> DEFINE up == WithinOf(graph)[r]
  <2>1. r \in DOMAIN graph.regions /\ graph' = InlinedRegion(graph, r)
    BY <1>9 DEF InlineRegion
  <2>2. /\ graph'.nodes = graph.nodes
        /\ EndsOf(graph') = EndsOf(graph)
        /\ HomeOf(graph') = [n \in graph.nodes |-> IF HomeOf(graph)[n] = r THEN up ELSE HomeOf(graph)[n]]
        /\ WithinOf(graph') = [k \in DOMAIN graph.regions \ {r} |->
                                 IF WithinOf(graph)[k] = r THEN up ELSE WithinOf(graph)[k]]
    BY <1>1, <2>1, InlinedRegionQueries
  <2> QED BY <1>3, <2>1, <2>2 DEF Store!InlineRegion, Store!Dissolve, Store!Regions
<1>10. ASSUME NEW o \in Others, MergeOther(o) PROVE Store!Compose(LibraryOf(o))
  <2>1. Merged(graph, o) = WithEdges(Merged(graph, o), EmptyMap)
    <3>1. IsGraph(Merged(graph, o))
      BY <1>1, <1>10, OthersAssumption, MergedKept DEF WellKept, MergeOther
    <3> DEFINE h == Merged(graph, o)
    <3> HIDE DEF h
    <3>2. ASSUME IsGraph(h) PROVE WithEdges(h, EmptyMap) = h
      BY <3>2 DEF WithEdges, EmptyMap, IsGraph, IsMap, EdgeList
    <3> QED BY <3>1, <3>2 DEF h
  <2>2. Cardinality(DOMAIN EmptyMap) <= MaxWires
    BY FS_EmptySet, BoundsAssumption DEF EmptyMap
  <2> QED BY <1>10, <2>1, <2>2, ComposeImplements DEF MergeOther, CanTake, EmptyMap
<1>11. ASSUME NEW o \in Others,
              NEW E \in Wiring(graph.nodes \cup o.nodes, graph.nodes \cup o.nodes),
              Compose(o, E)
       PROVE  Store!Compose(LibraryOf(o))
  <2>1. DOMAIN E \subseteq EdgeId /\ Cardinality(DOMAIN E) <= MaxWires
    BY DEF Wiring
  <2> QED BY <1>11, <2>1, ComposeImplements DEF Compose
<1>12. ASSUME NEW o \in Others, NEW old \in SUBSET NodeId, Replacing(old, o)
       PROVE  \/ \E S \in SUBSET graph.nodes : graph' = WithoutNodes(graph, S)
              \/ old \subseteq graph.nodes /\ Store!Replace(old, LibraryOf(o))
  <2>1. PICK moved \in [Crossing(graph, old) -> o.nodes] :
               \/ \E fresh \in Injection(Crossing(graph, old), EdgeId) :
                     ReplaceSubgraph(old, o, moved, fresh)
               \/ ReplaceSubgraphFails(old, o, moved)
    BY <1>12 DEF Replacing
  <2>2. CASE ReplaceSubgraphFails(old, o, moved)
    BY <2>2 DEF ReplaceSubgraphFails
  <2>3. ASSUME NEW fresh \in Injection(Crossing(graph, old), EdgeId),
               ReplaceSubgraph(old, o, moved, fresh)
        PROVE  old \subseteq graph.nodes /\ Store!Replace(old, LibraryOf(o))
    BY <2>3, ReplaceImplements DEF ReplaceSubgraph
  <2> QED BY <2>1, <2>2, <2>3
<1>13. ASSUME NEW r \in RegionId, NEW C \in SUBSET NodeId, NEW K \in SUBSET RegionId,
              AddFreshRegion(r, C, K)
       PROVE  C \subseteq graph.nodes /\ K \subseteq Store!Regions /\ Store!Enclose(r, C, K)
  <2>1. /\ r \notin DOMAIN graph.regions
        /\ C \subseteq graph.nodes \ DOMAIN graph.nodeRegion
        /\ K \subseteq {c \in DOMAIN graph.regions : graph.regions[c].parent = None}
        /\ graph' = WithParent(WithRegion(graph, r, C, None), K, r)
    BY <1>13 DEF AddFreshRegion
  <2>2. \A n \in C : HomeOf(graph)[n] = None
    BY <2>1 DEF HomeOf
  <2>3. \A k \in K : WithinOf(graph)[k] = None
    BY <1>1, <2>1, QueriesOfKept
  <2> HIDE DEF ++, One
  <2>4. /\ graph'.nodes = graph.nodes
        /\ EndsOf(graph') = EndsOf(graph)
        /\ HomeOf(graph') = [n \in graph.nodes |-> IF n \in C THEN r ELSE HomeOf(graph)[n]]
        /\ WithinOf(graph') = [k \in DOMAIN graph.regions |-> IF k \in K THEN r ELSE WithinOf(graph)[k]]
                                 ++ One(r, None)
    BY <1>1, <2>1, FreshRegionQueries
  <2> QED BY <1>3, <2>1, <2>2, <2>3, <2>4 DEF Store!Enclose, Store!Regions, ++, One
<1>14. CASE UNCHANGED graph
  BY <1>14 DEF Store!vars, EndsOf, HomeOf, WithinOf
<1> HIDE DEF ++, Store!++, One, Store!One, Without, Store!Without, Restrict, Store!Restrict
<1>15. \A o \in Others : LibraryOf(o) \in {LibraryOf(q) : q \in Others}
  OBVIOUS
<1>16. CASE DisciplinedNext
  <2>1. ASSUME NEW n \in NodeId, RemoveNode(n) PROVE [Store!Next]_(Store!vars)
    BY <2>1, <1>7 DEF RemoveNode, Store!Next
  <2>2. ASSUME NEW o \in Others, NEW old \in SUBSET NodeId, Replacing(old, o)
        PROVE  [Store!Next]_(Store!vars)
    BY <2>2, <1>7, <1>12, <1>15 DEF Store!Next, LibraryOf
  <2>3. ASSUME NEW o \in Others, Store!Compose(LibraryOf(o)) PROVE Store!Next
    BY <2>3, <1>15 DEF Store!Next, LibraryOf
  <2>4. ASSUME NEW n \in NodeId, AddNode(n) PROVE Store!Next
    BY <2>4, <1>4 DEF Store!Next
  <2>5. ASSUME NEW e \in EdgeId, NEW s \in NodeId, NEW t \in NodeId, AddEdge(e, s, t) PROVE Store!Next
    BY <2>5, <1>5 DEF Store!Next
  <2>6. ASSUME NEW e \in EdgeId, RemoveEdge(e) PROVE Store!Next
    BY <2>6, <1>6 DEF Store!Next
  <2>7. ASSUME NEW r \in RegionId, RemoveRegion(r) \/ InlineRegion(r) PROVE Store!Next
    BY <2>7, <1>8, <1>9 DEF Store!Next
  <2>8. ASSUME NEW r \in RegionId, NEW C \in SUBSET NodeId, NEW K \in SUBSET RegionId,
               AddFreshRegion(r, C, K)
        PROVE  Store!Next
    BY <2>8, <1>13 DEF Store!Next
  <2> QED BY <1>10, <1>11, <1>16, <2>1, <2>2, <2>3, <2>4, <2>5, <2>6, <2>7, <2>8
         DEF DisciplinedNext, Common
<1> QED BY <1>14, <1>16

\* The indexed graph, as its queries show it, is the plain store, for any sets
\* of ids and any graphs merged in.
THEOREM StoreImplemented == DisciplinedSpec => ImplementsStore
<1>1. Init => Store!Init
  BY DEF Init, Store!Init, EmptyGraph, EmptyMap, Store!EmptyMap, EndsOf, HomeOf, WithinOf
<1>2. RegionInv /\ [DisciplinedNext]_graph => [Store!Next]_(Store!vars)
  BY StepImplements
<1>3. DisciplinedSpec => []RegionInv
  BY RegionsAlwaysExact, PTL DEF RegionInv, EdgeInv
<1> QED BY <1>1, <1>2, <1>3, PTL DEF DisciplinedSpec, ImplementsStore, Store!Spec
=============================================================================
