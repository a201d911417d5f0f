----------------------------- MODULE GraphLemmas -----------------------------
(***************************************************************************)
(* What each operation of the graph container does to a well-kept graph:   *)
(* one lemma per operator of GraphOps for the edges and their indexes, and *)
(* one for the regions.  TorcGraph_proofs and Toolchain_proofs cite them.  *)
(***************************************************************************)
EXTENDS GraphOps, TLAPS

(* Edges and their indexes *)

\* The empty graph.
LEMMA EmptyGraphKept == IsGraph(EmptyGraph) /\ EdgesKept(EmptyGraph)
BY DEF EmptyGraph, EmptyMap, IsGraph, IsMap, EdgesKept, EdgesAnchored, IndexExact,
       ChildrenMirrored

\* A new node has two empty lists.
LEMMA WithNodeKept ==
    ASSUME NEW g, IsGraph(g), EdgesKept(g), NEW n \in NodeId, n \notin g.nodes
    PROVE  IsGraph(WithNode(g, n)) /\ EdgesKept(WithNode(g, n))
<1>1. IsGraph(WithNode(g, n))
  BY DEF WithNode, IsGraph, ++, One, IsMap, NoEdges, EdgeList
<1>2. EdgesKept(WithNode(g, n))
  BY DEF WithNode, IsGraph, ++, One, IsMap, NoEdges, EdgesKept, EdgesAnchored, IndexExact,
         ChildrenMirrored
<1> QED BY <1>1, <1>2

\* So have several.
LEMMA WithNodesKept ==
    ASSUME NEW g, IsGraph(g), EdgesKept(g), NEW S, S \subseteq NodeId, S \cap g.nodes = {}
    PROVE  IsGraph(WithNodes(g, S)) /\ EdgesKept(WithNodes(g, S))
<1>1. IsGraph(WithNodes(g, S))
  BY DEF WithNodes, IsGraph, ++, IsMap, NoEdges, EdgeList
<1>2. EdgesKept(WithNodes(g, S))
  BY DEF WithNodes, IsGraph, ++, IsMap, NoEdges, EdgesKept, EdgesAnchored, IndexExact,
         ChildrenMirrored
<1> QED BY <1>1, <1>2

\* New edges between nodes of the graph enter one list of each end.
LEMMA WithEdgesKept ==
    ASSUME NEW g, IsGraph(g), EdgesKept(g), NEW E, IsMap(E, EdgeId, Edge), CanTake(g, E)
    PROVE  IsGraph(WithEdges(g, E)) /\ EdgesKept(WithEdges(g, E))
<1> DEFINE h == WithEdges(g, E)
<1>1. IsGraph(h)
  <2>1. IsMap(h.outgoing, NodeId, EdgeList) /\ IsMap(h.incoming, NodeId, EdgeList)
    BY DEF WithEdges, IsGraph, IsMap, EdgeList
  <2>2. IsMap(h.edges, EdgeId, Edge)
    BY DEF WithEdges, IsGraph, ++, IsMap
  <2> QED BY <2>1, <2>2 DEF WithEdges, IsGraph
<1>2. EdgesAnchored(h)
  BY DEF WithEdges, CanTake, IsGraph, ++, IsMap, EdgesKept, EdgesAnchored
<1>3. IndexExact(h)
  BY DEF WithEdges, CanTake, IsGraph, ++, IsMap, EdgesKept, EdgesAnchored, IndexExact, Edge
<1>4. ChildrenMirrored(h)
  BY DEF WithEdges, IsGraph, EdgesKept, ChildrenMirrored
<1> QED BY <1>1, <1>2, <1>3, <1>4 DEF EdgesKept

\* Removing an edge empties its two list entries.
LEMMA WithoutEdgeKept ==
    ASSUME NEW g, IsGraph(g), EdgesKept(g), NEW e \in DOMAIN g.edges
    PROVE  IsGraph(WithoutEdge(g, e)) /\ EdgesKept(WithoutEdge(g, e))
<1>1. IsGraph(WithoutEdge(g, e))
  BY DEF WithoutEdge, IsGraph, Without, Restrict, IsMap, EdgeList, Edge
<1>2. EdgesKept(WithoutEdge(g, e))
  BY DEF WithoutEdge, IsGraph, Without, Restrict, IsMap, Edge, EdgeList, EdgesKept, EdgesAnchored, IndexExact, ChildrenMirrored
<1> QED BY <1>1, <1>2

\* Removing nodes takes the edges their lists hold, which are all of theirs.
LEMMA WithoutNodesKept ==
    ASSUME NEW g, IsGraph(g), EdgesKept(g), NEW S, S \subseteq NodeId
    PROVE  IsGraph(WithoutNodes(g, S)) /\ EdgesKept(WithoutNodes(g, S))
<1> DEFINE h == WithoutNodes(g, S)
<1>1. IsGraph(h)
  <2>1. IsMap(h.outgoing, NodeId, EdgeList) /\ IsMap(h.incoming, NodeId, EdgeList)
    BY DEF WithoutNodes, IsGraph, IsMap, EdgeList
  <2>2. IsMap(h.edges, EdgeId, Edge) /\ IsMap(h.nodeRegion, NodeId, RegionId)
    BY DEF WithoutNodes, IsGraph, Without, Restrict, IsMap
  <2>3. IsMap(h.regions, RegionId, Region)
    BY DEF WithoutNodes, IsGraph, IsMap, Region, NodeList
  <2>4. IsMap(h.regionChildren, RegionId, NodeList)
    BY DEF WithoutNodes, IsGraph, IsMap, NodeList
  <2> QED BY <2>1, <2>2, <2>3, <2>4 DEF WithoutNodes, IsGraph
<1>2. EdgesAnchored(h)
  BY DEF WithoutNodes, IsGraph, Without, Restrict, IsMap, Edge, EdgesKept, EdgesAnchored, IndexExact
<1>3. IndexExact(h)
  BY DEF WithoutNodes, IsGraph, Without, Restrict, IsMap, Edge, EdgesKept, EdgesAnchored, IndexExact
<1>4. ChildrenMirrored(h)
  BY DEF WithoutNodes, EdgesKept, ChildrenMirrored
<1> QED BY <1>1, <1>2, <1>3, <1>4 DEF EdgesKept

\* A region, even one that replaces another of its id, touches no edge.
LEMMA WithRegionKept ==
    ASSUME NEW g, IsGraph(g), EdgesKept(g), NEW r \in RegionId, NEW C, C \subseteq NodeId,
           NEW p \in RegionId \cup {None}
    PROVE  IsGraph(WithRegion(g, r, C, p)) /\ EdgesKept(WithRegion(g, r, C, p))
<1> DEFINE h == WithRegion(g, r, C, p)
<1>1. IsGraph(h)
  BY DEF WithRegion, IsGraph, ++, One, IsMap, Listing, Region, NodeList
<1>2. EdgesKept(h)
  BY DEF WithRegion, IsGraph, ++, One, IsMap, EdgesKept, EdgesAnchored, IndexExact, ChildrenMirrored
<1> QED BY <1>1, <1>2

\* Setting parents touches neither edges nor children.
LEMMA WithParentKept ==
    ASSUME NEW g, IsGraph(g), EdgesKept(g), NEW K, K \subseteq DOMAIN g.regions, NEW p \in RegionId
    PROVE  IsGraph(WithParent(g, K, p)) /\ EdgesKept(WithParent(g, K, p))
<1> DEFINE h == WithParent(g, K, p)
<1>1. IsGraph(h)
  BY DEF WithParent, IsGraph, ++, IsMap, Region
<1>2. EdgesKept(h)
  BY DEF WithParent, IsGraph, IsMap, Region, EdgesKept, EdgesAnchored, IndexExact, ChildrenMirrored
<1> QED BY <1>1, <1>2

\* Removing a region removes its child index with it.
LEMMA WithoutRegionKept ==
    ASSUME NEW g, IsGraph(g), EdgesKept(g), NEW r \in DOMAIN g.regions
    PROVE  IsGraph(WithoutRegion(g, r)) /\ EdgesKept(WithoutRegion(g, r))
<1> DEFINE h == WithoutRegion(g, r)
<1>1. IsGraph(h)
  BY DEF WithoutRegion, IsGraph, Without, Restrict, IsMap, Region
<1>2. EdgesKept(h)
  BY DEF WithoutRegion, IsGraph, Without, Restrict, IsMap, Region, EdgesKept, EdgesAnchored, IndexExact, ChildrenMirrored
<1> QED BY <1>1, <1>2

\* Extending a list gives a list.
LEMMA PlusType ==
    ASSUME NEW S, NEW l \in [S -> Nat], NEW m \in [S -> Nat]
    PROVE  Plus(l, m) \in [S -> Nat]
BY DEF Plus

\* Inlining extends both child lists of the parent alike.
LEMMA InlinedRegionKept ==
    ASSUME NEW g, IsGraph(g), EdgesKept(g), NEW r \in DOMAIN g.regions
    PROVE  IsGraph(InlinedRegion(g, r)) /\ EdgesKept(InlinedRegion(g, r))
<1> DEFINE h == InlinedRegion(g, r)
<1>1. IsGraph(h)
  <2>1. IsMap(h.nodeRegion, NodeId, RegionId)
    BY DEF InlinedRegion, IsGraph, Without, Restrict, ++, IsMap, Region, Listed, NodeList
  <2>2. IsMap(h.regionChildren, RegionId, NodeList)
    BY PlusType DEF InlinedRegion, IsGraph, IsMap, Region, NodeList
  <2>3. IsMap(h.regionParent, RegionId, RegionId)
    BY DEF InlinedRegion, IsGraph, Without, Restrict, ++, IsMap, Region, SubRegions
  <2>4. IsMap(h.regions, RegionId, Region)
    BY PlusType DEF InlinedRegion, IsGraph, IsMap, Region, NodeList
  <2> QED BY <2>1, <2>2, <2>3, <2>4 DEF InlinedRegion, IsGraph
<1>2. EdgesKept(h)
  BY DEF InlinedRegion, IsGraph, IsMap, Region, EdgesKept, EdgesAnchored, IndexExact, ChildrenMirrored
<1> QED BY <1>1, <1>2

\* Extending the lists of an index gives an index.
LEMMA ExtendedType ==
    ASSUME NEW K, NEW S, NEW f, NEW m, IsMap(f, K, [S -> Nat]), IsMap(m, K, [S -> Nat])
    PROVE  IsMap(Extended(f, m), K, [S -> Nat])
BY PlusType DEF Extended, IsMap

\* Merging disjoint graphs keeps the lists of both.
LEMMA MergedKept ==
    ASSUME NEW g, IsGraph(g), EdgesKept(g), NEW o, IsGraph(o), EdgesKept(o), ~MergeConflict(g, o)
    PROVE  IsGraph(Merged(g, o)) /\ EdgesKept(Merged(g, o))
<1> DEFINE h == Merged(g, o)
<1>1. IsGraph(h)
  <2>1. /\ IsMap(h.outgoing, NodeId, EdgeList) /\ IsMap(h.incoming, NodeId, EdgeList)
        /\ IsMap(h.regionChildren, RegionId, NodeList)
    BY ExtendedType DEF Merged, IsGraph, EdgeList, NodeList
  <2>2. /\ IsMap(h.edges, EdgeId, Edge) 
        /\ IsMap(h.regions, RegionId, Region) 
    BY DEF Merged, IsGraph, ++, IsMap
  <2>3. /\ IsMap(h.nodeRegion, NodeId, RegionId)
        /\ IsMap(h.regionParent, RegionId, RegionId) 
    BY DEF Merged, IsGraph, ++, IsMap
  <2> QED BY <2>1, <2>2, <2>3 DEF Merged, IsGraph
<1>2. EdgesAnchored(h)
  BY DEF Merged, IsGraph, ++, IsMap, EdgesKept, EdgesAnchored
<1>3. IndexExact(h)
  BY DEF Merged, MergeConflict, Extended, IsGraph, ++, IsMap, EdgesKept, EdgesAnchored, IndexExact, Edge
<1>4. ChildrenMirrored(h)
  BY DEF Merged, MergeConflict, Extended, IsGraph, ++, IsMap, EdgesKept, ChildrenMirrored
<1> QED BY <1>1, <1>2, <1>3, <1>4 DEF EdgesKept

-----------------------------------------------------------------------------
(* Regions *)

WellKept(g) == IsGraph(g) /\ EdgesKept(g) /\ RegionsKept(g)

\* The empty graph.
LEMMA EmptyRegions == RegionsKept(EmptyGraph)
BY DEF EmptyGraph, EmptyMap, RegionsKept, ParentMirrored, HomeExact, Forest

\* A new node is in no region.
LEMMA WithNodeRegions ==
    ASSUME NEW g, WellKept(g), NEW n \in NodeId, n \notin g.nodes
    PROVE  RegionsKept(WithNode(g, n))
BY DEF WithNode, WellKept, IsGraph, RegionsKept, ParentMirrored, HomeExact, Forest

\* Nor are several.
LEMMA WithNodesRegions ==
    ASSUME NEW g, WellKept(g), NEW S, S \subseteq NodeId, S \cap g.nodes = {}
    PROVE  RegionsKept(WithNodes(g, S))
BY DEF WithNodes, WellKept, IsGraph, RegionsKept, ParentMirrored, HomeExact, Forest

\* Edges do not touch regions.
LEMMA WithEdgesRegions ==
    ASSUME NEW g, WellKept(g), NEW E
    PROVE  RegionsKept(WithEdges(g, E))
BY DEF WithEdges, WellKept, IsGraph, RegionsKept, ParentMirrored, HomeExact, Forest

\* Edges do not touch regions.
LEMMA WithoutEdgeRegions ==
    ASSUME NEW g, WellKept(g), NEW e
    PROVE  RegionsKept(WithoutEdge(g, e))
BY DEF WithoutEdge, WellKept, IsGraph, RegionsKept, ParentMirrored, HomeExact, Forest

\* A removed node leaves the one list that holds it.
LEMMA WithoutNodesRegions ==
    ASSUME NEW g, WellKept(g), NEW S, S \subseteq NodeId
    PROVE  RegionsKept(WithoutNodes(g, S))
<1> DEFINE h == WithoutNodes(g, S)
<1>1. /\ DOMAIN h.regions = DOMAIN g.regions
      /\ \A r \in DOMAIN g.regions : h.regions[r].parent = g.regions[r].parent
      /\ h.regionParent = g.regionParent
  BY DEF WithoutNodes, WellKept, IsGraph, IsMap, Region
<1>2. ParentMirrored(h)
  BY <1>1 DEF WellKept, RegionsKept, ParentMirrored
<1>3. Forest(h)
  BY <1>1 DEF WellKept, RegionsKept, Forest
<1>4. HomeExact(h)
  BY DEF WithoutNodes, Without, Restrict, WellKept, IsGraph, IsMap, Region, RegionsKept, HomeExact
<1> QED BY <1>2, <1>3, <1>4 DEF RegionsKept

\* A new region over homeless nodes and top-level regions is a new root.
LEMMA FreshRegionRegions ==
    ASSUME NEW g, WellKept(g), NEW r \in RegionId, r \notin DOMAIN g.regions,
           NEW C, C \subseteq g.nodes \ DOMAIN g.nodeRegion,
           NEW K, K \subseteq {c \in DOMAIN g.regions : g.regions[c].parent = None}
    PROVE  RegionsKept(WithParent(WithRegion(g, r, C, None), K, r))
<1> DEFINE h == WithParent(WithRegion(g, r, C, None), K, r)
<1>1. /\ DOMAIN h.regions = DOMAIN g.regions \cup {r}
      /\ h.regions[r] = [children |-> Listing(C), parent |-> None]
      /\ \A c \in K : h.regions[c].parent = r
      /\ \A c \in DOMAIN g.regions \ K : h.regions[c].parent = g.regions[c].parent
      /\ \A c \in DOMAIN g.regions : h.regions[c].children = g.regions[c].children
      /\ h.nodes = g.nodes
  BY DEF WithParent, WithRegion, WellKept, IsGraph, IsMap, Region, ++, One
<1>2. h.regionParent = g.regionParent ++ [c \in K |-> r]
  BY DEF WithParent, WithRegion, WellKept, IsGraph
<1>3. h.nodeRegion = g.nodeRegion ++ [n \in C |-> r]
  BY DEF WithParent, WithRegion, WellKept, IsGraph
<1> HIDE DEF h
<1>4. ParentMirrored(h)
  BY <1>1, <1>2, NoneAssumption DEF WellKept, RegionsKept, ParentMirrored, ++
<1>5. HomeExact(h)
  BY <1>1, <1>3 DEF WellKept, IsGraph, RegionsKept, HomeExact, ++, Listing
<1>6. Forest(h)
  <2>1. ASSUME NEW D \in SUBSET DOMAIN h.regions, D # {} 
        PROVE  \E c \in D : h.regions[c].parent \notin D
    <3>1. CASE r \in D
      BY <3>1, <1>1, NoneAssumption DEF WellKept, IsGraph, IsMap
    <3>2. CASE r \notin D
      <4>1. PICK c \in D : g.regions[c].parent \notin D
        BY <3>2, <2>1, <1>1 DEF WellKept, RegionsKept, Forest
      <4> QED BY <4>1, <3>2, <1>1
    <3> QED BY <3>1, <3>2
  <2>2. \A c \in DOMAIN h.regions : h.regions[c].parent \in DOMAIN h.regions \cup {None}
    BY <1>1 DEF WellKept, RegionsKept, Forest
  <2> QED BY <2>1, <2>2 DEF Forest
<1> QED BY <1>4, <1>5, <1>6, h = WithParent(WithRegion(g, r, C, None), K, r) DEF RegionsKept, h

\* The children and sub-regions of a removed region become top-level.
LEMMA WithoutRegionRegions ==
    ASSUME NEW g, WellKept(g), NEW r \in DOMAIN g.regions
    PROVE  RegionsKept(WithoutRegion(g, r))
<1> DEFINE h == WithoutRegion(g, r)
           subs == SubRegions(g, r)
<1>1. /\ DOMAIN h.regions = DOMAIN g.regions \ {r}
      /\ \A c \in DOMAIN g.regions \ {r} :
           /\ h.regions[c].children = g.regions[c].children
           /\ h.regions[c].parent = IF c \in subs THEN None ELSE g.regions[c].parent
      /\ h.nodes = g.nodes
  BY DEF WithoutRegion, WellKept, IsGraph, IsMap, Region
<1>2. h.regionParent = Without(g.regionParent, subs \cup {r})
  BY DEF WithoutRegion, WellKept, IsGraph
<1>3. h.nodeRegion = Without(g.nodeRegion, Listed(g.regionChildren[r]))
  BY DEF WithoutRegion, WellKept, IsGraph
<1>4. subs = {c \in DOMAIN g.regions : g.regions[c].parent = r}
  BY NoneAssumption DEF SubRegions, WellKept, RegionsKept, ParentMirrored, IsGraph, IsMap
<1>5. Listed(g.regionChildren[r]) = {n \in DOMAIN g.nodeRegion : g.nodeRegion[n] = r}
  BY DEF Listed, WellKept, EdgesKept, ChildrenMirrored, RegionsKept, HomeExact, IsGraph, IsMap, NodeList
<1> HIDE DEF h, subs
<1>6. ParentMirrored(h)
  BY <1>1, <1>2, <1>4 DEF WellKept, RegionsKept, ParentMirrored, Without, Restrict
<1>7. HomeExact(h)
  BY <1>1, <1>3, <1>5 DEF WellKept, RegionsKept, HomeExact, Without, Restrict, IsGraph, IsMap
<1>8. Forest(h)
  <2>1. \A c \in DOMAIN h.regions : h.regions[c].parent \in DOMAIN h.regions \cup {None}
    BY <1>1, <1>4 DEF WellKept, RegionsKept, Forest
  <2>2. ASSUME NEW D \in SUBSET DOMAIN h.regions, D # {}
        PROVE  \E c \in D : h.regions[c].parent \notin D
    <3>1. PICK c \in D : g.regions[c].parent \notin D
      BY <2>2, <1>1 DEF WellKept, RegionsKept, Forest
    <3> QED BY <3>1, <1>1, NoneAssumption DEF WellKept, IsGraph, IsMap
  <2> QED BY <2>1, <2>2 DEF Forest
<1> QED BY <1>6, <1>7, <1>8 DEF RegionsKept, h

\* Inlining moves children and sub-regions one level up; no child is listed
\* twice by the parent, because none was listed by both.
LEMMA InlinedRegionRegions ==
    ASSUME NEW g, WellKept(g), NEW r \in DOMAIN g.regions
    PROVE  RegionsKept(InlinedRegion(g, r))
<1> DEFINE h == InlinedRegion(g, r)
           subs == SubRegions(g, r)
           list == g.regions[r].children
           p == g.regions[r].parent
<1>0. p # r /\ p \in (DOMAIN g.regions \ {r}) \cup {None}
  <2>1. \E c \in {r} : g.regions[c].parent \notin {r}
    BY DEF WellKept, RegionsKept, Forest
  <2> QED BY <2>1 DEF WellKept, RegionsKept, Forest
<1>1. /\ DOMAIN h.regions = DOMAIN g.regions \ {r}
      /\ \A c \in DOMAIN g.regions \ {r} :
           /\ h.regions[c].children = IF c = p THEN Plus(g.regions[c].children, list)
                                               ELSE g.regions[c].children
           /\ h.regions[c].parent = IF c \in subs THEN p ELSE g.regions[c].parent
      /\ h.nodes = g.nodes
  BY DEF InlinedRegion, WellKept, IsGraph
<1>2. h.regionParent = Without(IF p = None THEN Without(g.regionParent, subs)
                                           ELSE g.regionParent ++ [c \in subs |-> p], {r})
  BY DEF InlinedRegion, WellKept, IsGraph
<1>3. h.nodeRegion = IF p = None THEN Without(g.nodeRegion, Listed(list))
                                 ELSE g.nodeRegion ++ [n \in Listed(list) |-> p]
  BY DEF InlinedRegion, WellKept, IsGraph
<1>4. subs = {c \in DOMAIN g.regions : g.regions[c].parent = r}
  BY NoneAssumption DEF SubRegions, WellKept, RegionsKept, ParentMirrored, IsGraph, IsMap
<1>5. Listed(list) = {n \in DOMAIN g.nodeRegion : g.nodeRegion[n] = r}
  BY DEF Listed, WellKept, RegionsKept, HomeExact, IsGraph, IsMap, NodeList, Region
<1> HIDE DEF h, subs
<1>6. ParentMirrored(h)
  BY <1>0, <1>1, <1>2, <1>4, NoneAssumption
     DEF WellKept, IsGraph, IsMap, RegionsKept, ParentMirrored, Without, Restrict, ++
<1>7. HomeExact(h)
  <2>1. /\ DOMAIN g.nodeRegion \subseteq g.nodes
        /\ \A n \in DOMAIN g.nodeRegion : g.nodeRegion[n] \in DOMAIN g.regions
        /\ \A c \in DOMAIN g.regions, n \in NodeId :
             g.regions[c].children[n] =
               IF n \in DOMAIN g.nodeRegion /\ g.nodeRegion[n] = c THEN 1 ELSE 0
    BY DEF WellKept, RegionsKept, HomeExact
  <2>2. \A c \in DOMAIN g.regions : g.regions[c].children \in [NodeId -> Nat]
    BY DEF WellKept, IsGraph, IsMap, Region, NodeList
  <2>3. p # None => \A n \in NodeId : Plus(g.regions[p].children, list)[n] =
                      g.regions[p].children[n] + g.regions[r].children[n]
    BY <1>0, <2>2 DEF Plus
  <2>4. CASE p = None
    <3>1. h.nodeRegion = [n \in DOMAIN g.nodeRegion \ Listed(list) |-> g.nodeRegion[n]]
      BY <1>3, <2>4 DEF Without, Restrict
    <3>2. None \notin DOMAIN g.regions
      BY NoneAssumption DEF WellKept, IsGraph, IsMap
    <3>3. \A c \in DOMAIN h.regions : h.regions[c].children = g.regions[c].children
      BY <1>1, <2>4, <3>2
    <3>4. \A n \in DOMAIN h.nodeRegion : h.nodeRegion[n] = g.nodeRegion[n] /\ g.nodeRegion[n] # r
      BY <1>5, <3>1
    <3>5. \A c \in DOMAIN h.regions, n \in NodeId :
            h.regions[c].children[n] =
              IF n \in DOMAIN h.nodeRegion /\ h.nodeRegion[n] = c THEN 1 ELSE 0
      BY <1>1, <1>5, <2>1, <3>1, <3>3
    <3>6. DOMAIN h.nodeRegion \subseteq DOMAIN g.nodeRegion
      BY <3>1
    <3>7. DOMAIN h.nodeRegion \subseteq h.nodes
      BY <1>1, <2>1, <3>6
    <3>8. \A n \in DOMAIN h.nodeRegion : h.nodeRegion[n] \in DOMAIN h.regions
      BY <1>1, <2>1, <3>4, <3>6
    <3> QED BY <3>5, <3>7, <3>8 DEF HomeExact
  <2>5. CASE p # None
    <3>1. h.nodeRegion = [n \in DOMAIN g.nodeRegion |->
                            IF n \in Listed(list) THEN p ELSE g.nodeRegion[n]]
      BY <1>3, <1>5, <2>5 DEF ++
    <3>2. \A c \in DOMAIN h.regions, n \in NodeId :
            h.regions[c].children[n] =
              IF n \in DOMAIN h.nodeRegion /\ h.nodeRegion[n] = c THEN 1 ELSE 0
      <4>1. TAKE c \in DOMAIN h.regions, n \in NodeId
      <4>2. CASE c = p
        BY <1>0, <1>1, <1>5, <2>1, <2>3, <2>5, <3>1, <4>2
      <4>3. CASE c # p
        BY <1>0, <1>1, <1>5, <2>1, <2>5, <3>1, <4>3
      <4> QED BY <4>2, <4>3
    <3>3. DOMAIN h.nodeRegion = DOMAIN g.nodeRegion
      BY <3>1
    <3>4. ASSUME NEW n \in DOMAIN h.nodeRegion
          PROVE  h.nodeRegion[n] \in DOMAIN h.regions
      BY <1>0, <1>1, <1>5, <2>1, <2>5, <3>1
    <3> QED BY <1>1, <2>1, <3>2, <3>3, <3>4 DEF HomeExact
  <2> QED BY <2>4, <2>5
<1>8. Forest(h)
  <2>1. \A c \in DOMAIN h.regions : h.regions[c].parent \in DOMAIN h.regions \cup {None}
    BY <1>0, <1>1, <1>4 DEF WellKept, RegionsKept, Forest
  <2>2. ASSUME NEW D \in SUBSET DOMAIN h.regions, D # {}
        PROVE  \E c \in D : h.regions[c].parent \notin D
    <3>1. PICK c \in D \cup {r} : g.regions[c].parent \notin D \cup {r}
      BY <2>2, <1>1 DEF WellKept, RegionsKept, Forest
    <3>2. PICK d \in D : g.regions[d].parent \notin D
      BY <2>2, <1>1 DEF WellKept, RegionsKept, Forest
    <3>3. CASE c \in D
      BY <3>1, <3>3, <1>1, <1>4
    <3>4. CASE c = r
      BY <3>1, <3>2, <3>4, <1>1, <1>4
    <3> QED BY <3>1, <3>3, <3>4
  <2> QED BY <2>1, <2>2 DEF Forest
<1> QED BY <1>6, <1>7, <1>8 DEF RegionsKept, h

\* Two disjoint forests side by side are a forest.
LEMMA MergedRegions ==
    ASSUME NEW g, WellKept(g), NEW o, WellKept(o), ~MergeConflict(g, o)
    PROVE  RegionsKept(Merged(g, o))
<1> DEFINE h == Merged(g, o)
<1>1. ParentMirrored(h)
  BY DEF WellKept, RegionsKept, ParentMirrored, Merged, MergeConflict, ++
<1>2. HomeExact(h)
  BY DEF WellKept, RegionsKept, HomeExact, Merged, MergeConflict, ++
<1>3. Forest(h)
  <2>1. /\ DOMAIN h.regions = DOMAIN g.regions \cup DOMAIN o.regions
        /\ \A c \in DOMAIN g.regions : h.regions[c] = g.regions[c]
        /\ \A c \in DOMAIN o.regions : h.regions[c] = o.regions[c]
    BY DEF Merged, MergeConflict, ++
  <2>2. \A c \in DOMAIN h.regions : h.regions[c].parent \in DOMAIN h.regions \cup {None}
    BY <2>1 DEF WellKept, RegionsKept, Forest
  <2>3. ASSUME NEW D \in SUBSET DOMAIN h.regions, D # {}
        PROVE  \E c \in D : h.regions[c].parent \notin D
    <3>1. CASE D \cap DOMAIN g.regions # {}
      <4>1. PICK c \in D \cap DOMAIN g.regions : g.regions[c].parent \notin D \cap DOMAIN g.regions
        BY <3>1 DEF WellKept, RegionsKept, Forest
      <4>2. g.regions[c].parent \in DOMAIN g.regions \cup {None}
        BY DEF WellKept, RegionsKept, Forest
      <4>3. None \notin D
        BY <2>1, NoneAssumption DEF WellKept, IsGraph, IsMap
      <4> QED BY <4>1, <4>2, <4>3, <2>1
    <3>2. CASE D \cap DOMAIN g.regions = {}
      <4>1. D \subseteq DOMAIN o.regions
        BY <3>2, <2>1
      <4> QED BY <4>1, <2>1, <2>3 DEF WellKept, RegionsKept, Forest
    <3> QED BY <3>1, <3>2
  <2> QED BY <2>2, <2>3 DEF Forest
<1> QED BY <1>1, <1>2, <1>3 DEF RegionsKept

\* What validate checks follows from what is kept.
LEMMA KeptIsValid ==
    ASSUME NEW g, WellKept(g)
    PROVE  Validates(g)
<1>1. EdgesAnchored(g)
  BY DEF WellKept, EdgesKept
<1>2. ASSUME NEW r \in DOMAIN g.regions
      PROVE  Listed(g.regions[r].children) \subseteq g.nodes
  <2>1. g.regions[r].children \in [NodeId -> Nat]
    BY DEF WellKept, IsGraph, IsMap, Region, NodeList
  <2> QED BY <2>1 DEF WellKept, RegionsKept, HomeExact, Listed
<1>3. \A r \in DOMAIN g.regions : g.regions[r].parent \in DOMAIN g.regions \cup {None}
  BY DEF WellKept, RegionsKept, Forest
<1> QED BY <1>1, <1>2, <1>3 DEF Validates, EdgesAnchored

\* The selected edges are indexed anew.
LEMMA ExtractedSubgraphKept ==
    ASSUME NEW g, WellKept(g), NEW S
    PROVE  EdgesKept(ExtractedSubgraph(g, S))
<1> DEFINE h == ExtractedSubgraph(g, S)
           E == {e \in DOMAIN g.edges : {g.edges[e].source, g.edges[e].target} \subseteq S}
<1>1. /\ h.nodes = S \cap g.nodes
      /\ h.edges = [e \in E |-> g.edges[e]]
      /\ h.outgoing = [n \in S \cap g.nodes |-> [e \in EdgeId |->
                         IF e \in E /\ g.edges[e].source = n THEN 1 ELSE 0]]
      /\ h.incoming = [n \in S \cap g.nodes |-> [e \in EdgeId |->
                         IF e \in E /\ g.edges[e].target = n THEN 1 ELSE 0]]
  BY DEF ExtractedSubgraph, Restrict
<1>2. ChildrenMirrored(h)
  BY DEF ExtractedSubgraph, ChildrenMirrored, WellKept, IsGraph, IsMap, Region
<1> HIDE DEF h
<1>3. EdgesAnchored(h)
  BY <1>1 DEF EdgesAnchored, WellKept, EdgesKept
<1>4. IndexExact(h)
  BY <1>1 DEF IndexExact
<1> QED BY <1>2, <1>3, <1>4 DEF EdgesKept, h

\* The regions whose children are all selected stay, a child has one home
\* among them because it had one, and a parent left behind is dropped.
LEMMA ExtractedSubgraphRegions ==
    ASSUME NEW g, WellKept(g), NEW S
    PROVE  RegionsKept(ExtractedSubgraph(g, S))
<1> DEFINE h == ExtractedSubgraph(g, S)
           R == {r \in DOMAIN g.regions : LET kids == Listed(g.regions[r].children)
                                          IN kids # {} /\ kids \subseteq S}
           Parent(r) == IF g.regions[r].parent \in R THEN g.regions[r].parent ELSE None
           Homes(n) == {r \in R : n \in Listed(g.regions[r].children)}
<1>1. /\ h.nodes = S \cap g.nodes
      /\ DOMAIN h.regions = R
      /\ \A r \in R : h.regions[r].children = g.regions[r].children /\ h.regions[r].parent = Parent(r)
      /\ h.regionParent = [r \in {q \in R : Parent(q) # None} |-> Parent(r)]
  BY DEF ExtractedSubgraph, WellKept, IsGraph, IsMap, Region
<1>2. h.nodeRegion = [n \in {m \in NodeId : Homes(m) # {}} |-> CHOOSE r \in Homes(n) : TRUE]
  BY DEF ExtractedSubgraph
<1>3. \A r \in DOMAIN g.regions :
        Listed(g.regions[r].children) = {n \in DOMAIN g.nodeRegion : g.nodeRegion[n] = r}
  BY DEF Listed, WellKept, RegionsKept, HomeExact, IsGraph, IsMap, NodeList, Region
<1>4. R \subseteq DOMAIN g.regions
  OBVIOUS
<1>5. \A r \in R : Listed(g.regions[r].children) \subseteq S
  OBVIOUS
<1> HIDE DEF h, R
<1>6. ParentMirrored(h)
  BY <1>1 DEF ParentMirrored
<1>7. HomeExact(h)
  <2>1. /\ DOMAIN g.nodeRegion \subseteq g.nodes /\ g.nodes \subseteq NodeId
        /\ \A r \in DOMAIN g.regions, n \in NodeId :
             g.regions[r].children[n] =
               IF n \in DOMAIN g.nodeRegion /\ g.nodeRegion[n] = r THEN 1 ELSE 0
    BY DEF WellKept, RegionsKept, HomeExact, IsGraph
  <2>2. DOMAIN h.nodeRegion = {n \in DOMAIN g.nodeRegion : g.nodeRegion[n] \in R}
    BY <1>2, <1>3, <1>4, <2>1
  <2>3. \A n \in DOMAIN h.nodeRegion : h.nodeRegion[n] = g.nodeRegion[n]
    <3>1. TAKE n \in DOMAIN h.nodeRegion
    <3>2. Homes(n) = {g.nodeRegion[n]}
      BY <1>3, <1>4, <2>2
    <3>3. h.nodeRegion[n] = CHOOSE r \in Homes(n) : TRUE
      BY <1>2
    <3> QED BY <3>2, <3>3
  <2>4. DOMAIN h.nodeRegion \subseteq h.nodes
    BY <1>1, <1>3, <1>4, <1>5, <2>1, <2>2
  <2> QED BY <1>1, <1>4, <2>1, <2>2, <2>3, <2>4 DEF HomeExact
<1>8. Forest(h)
  <2>1. \A r \in DOMAIN h.regions : h.regions[r].parent \in DOMAIN h.regions \cup {None}
    BY <1>1
  <2>2. ASSUME NEW D \in SUBSET DOMAIN h.regions, D # {}
        PROVE  \E r \in D : h.regions[r].parent \notin D
    <3>1. PICK r \in D : g.regions[r].parent \notin D
      BY <2>2, <1>1, <1>4 DEF WellKept, RegionsKept, Forest
    <3>2. None \notin D
      BY <1>1, <1>4, NoneAssumption DEF WellKept, IsGraph, IsMap
    <3> QED BY <3>1, <3>2, <1>1
  <2> QED BY <2>1, <2>2 DEF Forest
<1> QED BY <1>6, <1>7, <1>8 DEF RegionsKept, h
=============================================================================
