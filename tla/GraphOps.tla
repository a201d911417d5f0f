------------------------------ MODULE GraphOps ------------------------------
(***************************************************************************)
(* The operations of torc-core's graph container, as operators on a graph  *)
(* value (crates/torc-core/src/graph/mod.rs, struct Graph).                *)
(*                                                                         *)
(* A graph is three maps (nodes, edges, regions) and five indexes that the *)
(* code keeps beside them and updates by hand in every mutator.  A map is  *)
(* a function whose domain is its set of keys.  An index list (a Vec of    *)
(* ids, whose order nothing depends on) is a multiset: a function that     *)
(* counts how often the list holds each id, because a list that holds an   *)
(* id twice is a fault the code could have.  Ports, types and contracts    *)
(* are abstracted: an edge is its two end nodes, a region its children and *)
(* its parent.                                                             *)
(***************************************************************************)
EXTENDS Naturals, FiniteSets, Maps

CONSTANTS NodeId, EdgeId, RegionId,  \* the UUIDs a client can draw
          None                       \* Option::None

ASSUME NoneAssumption == None \notin RegionId

Edge     == [source : NodeId, target : NodeId]
EdgeList == [EdgeId -> Nat]
NodeList == [NodeId -> Nat]
Region   == [children : NodeList, parent : RegionId \cup {None}]

IsGraph(g) ==
    /\ g \in [nodes    : SUBSET NodeId, edges : {g.edges}, regions : {g.regions},
              outgoing : {g.outgoing},  incoming : {g.incoming},
              nodeRegion : {g.nodeRegion}, regionChildren : {g.regionChildren},
              regionParent : {g.regionParent}]
    /\ IsMap(g.edges, EdgeId, Edge)
    /\ IsMap(g.regions, RegionId, Region)
    /\ IsMap(g.outgoing, NodeId, EdgeList)
    /\ IsMap(g.incoming, NodeId, EdgeList)
    /\ IsMap(g.nodeRegion, NodeId, RegionId)
    /\ IsMap(g.regionChildren, RegionId, NodeList)
    /\ IsMap(g.regionParent, RegionId, RegionId)

NoEdges   == [e \in EdgeId |-> 0]
Listed(l) == {x \in DOMAIN l : l[x] > 0}         \* the ids a list holds
Listing(S) == [n \in NodeId |-> IF n \in S THEN 1 ELSE 0]
Plus(l, m) == [x \in DOMAIN l |-> l[x] + m[x]]   \* Vec::extend

EmptyGraph ==
    [nodes |-> {}, edges |-> EmptyMap, regions |-> EmptyMap,
     outgoing |-> EmptyMap, incoming |-> EmptyMap, nodeRegion |-> EmptyMap,
     regionChildren |-> EmptyMap, regionParent |-> EmptyMap]

-----------------------------------------------------------------------------
(* Nodes and edges *)

WithNode(g, n) ==
    [g EXCEPT !.nodes    = @ \cup {n},
              !.outgoing = One(n, NoEdges) ++ @,
              !.incoming = One(n, NoEdges) ++ @]

\* add_node for every node of S in turn.
WithNodes(g, S) ==
    [g EXCEPT !.nodes    = @ \cup S,
              !.outgoing = [n \in S |-> NoEdges] ++ @,
              !.incoming = [n \in S |-> NoEdges] ++ @]

\* add_edge for every edge of the map E in turn, when all of E's endpoints
\* are nodes of g and none of its ids is taken.
WithEdges(g, E) ==
    [g EXCEPT
       !.edges    = @ ++ E,
       !.outgoing = [n \in DOMAIN @ |-> [e \in EdgeId |->
          IF e \in DOMAIN E /\ E[e].source = n THEN @[n][e] + 1 ELSE @[n][e]]],
       !.incoming = [n \in DOMAIN @ |-> [e \in EdgeId |->
          IF e \in DOMAIN E /\ E[e].target = n THEN @[n][e] + 1 ELSE @[n][e]]]]

CanTake(g, E) == /\ DOMAIN E \cap DOMAIN g.edges = {}
                 /\ \A e \in DOMAIN E : {E[e].source, E[e].target} \subseteq g.nodes

\* The edge leaves the list of its source and the list of its target only:
\* a list of another node that held it would keep it.
WithoutEdge(g, e) ==
    [g EXCEPT !.edges    = Without(@, {e}),
              !.outgoing[g.edges[e].source][e] = 0,
              !.incoming[g.edges[e].target][e] = 0]

\* Fault: only outgoing edges go with a node.
WithoutNodes_OutgoingOnly(g, S) ==
    LET gone == {e \in DOMAIN g.edges : g.edges[e].source \in S} IN
    [g EXCEPT !.nodes      = @ \ S,
              !.edges      = Without(@, gone),
              !.outgoing   = Without(@, S),
              !.incoming   = Without(@, S),
              !.nodeRegion = Without(@, S)]

\* remove_node for every node of S in turn.  The edges to drop are found
\* through the index lists of the removed nodes, not through the edge map,
\* and a node leaves only the region that nodeRegion names.
WithoutNodes(g, S) ==
    LET gone == {e \in DOMAIN g.edges : \E n \in S :
                   \/ n \in DOMAIN g.outgoing /\ g.outgoing[n][e] > 0
                   \/ n \in DOMAIN g.incoming /\ g.incoming[n][e] > 0}
        Leaves(n, r) == n \in S /\ n \in DOMAIN g.nodeRegion /\ g.nodeRegion[n] = r
        Remaining(r, l) == [n \in NodeId |-> IF Leaves(n, r) THEN 0 ELSE l[n]]
    IN [nodes    |-> g.nodes \ S,
        edges    |-> Without(g.edges, gone),
        outgoing |-> [n \in DOMAIN g.outgoing \ S |-> [e \in EdgeId |->
            IF e \in gone /\ g.edges[e].source = n THEN 0 ELSE g.outgoing[n][e]]],
        incoming |-> [n \in DOMAIN g.incoming \ S |-> [e \in EdgeId |->
            IF e \in gone /\ g.edges[e].target = n THEN 0 ELSE g.incoming[n][e]]],
        nodeRegion     |-> Without(g.nodeRegion, S),
        regionChildren |-> [r \in DOMAIN g.regionChildren |->
                              Remaining(r, g.regionChildren[r])],
        regions        |-> [r \in DOMAIN g.regions |->
            [g.regions[r] EXCEPT !.children = Remaining(r, @)]],
        regionParent   |-> g.regionParent]

-----------------------------------------------------------------------------
(* Regions *)

\* add_region checks only that the children exist and are distinct: not that
\* the id is new, not that the parent exists, not that a child is free.
WithRegion(g, r, C, p) ==
    [g EXCEPT
       !.nodeRegion     = @ ++ [n \in C |-> r],
       !.regionChildren = @ ++ One(r, Listing(C)),
       !.regionParent   = IF p = None THEN @ ELSE @ ++ One(r, p),
       !.regions        = @ ++ One(r, [children |-> Listing(C), parent |-> p])]

\* set_region_parent(c, p) for every c of K.
WithParent(g, K, p) ==
    [g EXCEPT
       !.regionParent = @ ++ [c \in K |-> p],
       !.regions      = [r \in DOMAIN @ |->
                           IF r \in K THEN [@[r] EXCEPT !.parent = p] ELSE @[r]]]

SubRegions(g, r) == {c \in DOMAIN g.regionParent : g.regionParent[c] = r}

WithoutRegion(g, r) ==
    LET kids == Listed(g.regionChildren[r])
        subs == SubRegions(g, r)
    IN [g EXCEPT
          !.nodeRegion     = Without(@, kids),
          !.regionChildren = Without(@, {r}),
          !.regionParent   = Without(@, subs \cup {r}),
          !.regions        = [c \in DOMAIN @ \ {r} |->
              IF c \in subs THEN [@[c] EXCEPT !.parent = None] ELSE @[c]]]

\* Faults: the promoted nodes still count as nodes of the inlined region; or a
\* sub-region without a new parent keeps an entry in the parent index.
InlinedRegion_StaleHome(g, r) ==
    LET list == g.regions[r].children
        p    == g.regions[r].parent
        subs == SubRegions(g, r)
    IN [g EXCEPT
          !.regionChildren = [c \in DOMAIN @ \ {r} |->
              IF c = p THEN Plus(@[c], list) ELSE @[c]],
          !.regionParent = Without(IF p = None THEN Without(@, subs)
                                               ELSE @ ++ [c \in subs |-> p], {r}),
          !.regions = [c \in DOMAIN @ \ {r} |->
              [children |-> IF c = p THEN Plus(@[c].children, list) ELSE @[c].children,
               parent   |-> IF c \in subs THEN p ELSE @[c].parent]]]
InlinedRegion_TopIndexed(g, r) ==
    LET list == g.regions[r].children
        kids == Listed(list)
        p    == g.regions[r].parent
        subs == SubRegions(g, r)
    IN [g EXCEPT
          !.nodeRegion = IF p = None THEN Without(@, kids)
                                     ELSE @ ++ [n \in kids |-> p],
          !.regionChildren = [c \in DOMAIN @ \ {r} |->
              IF c = p THEN Plus(@[c], list) ELSE @[c]],
          !.regionParent = Without(@ ++ [c \in subs |-> p], {r}),
          !.regions = [c \in DOMAIN @ \ {r} |->
              [children |-> IF c = p THEN Plus(@[c].children, list) ELSE @[c].children,
               parent   |-> IF c \in subs THEN p ELSE @[c].parent]]]

\* inline_region: children and sub-regions move up to the parent, or become
\* top-level when there is none.  The parent is not checked to exist.
InlinedRegion(g, r) ==
    LET list == g.regions[r].children
        kids == Listed(list)
        p    == g.regions[r].parent
        subs == SubRegions(g, r)
    IN [g EXCEPT
          !.nodeRegion = IF p = None THEN Without(@, kids)
                                     ELSE @ ++ [n \in kids |-> p],
          !.regionChildren = [c \in DOMAIN @ \ {r} |->
              IF c = p THEN Plus(@[c], list) ELSE @[c]],
          !.regionParent = Without(IF p = None THEN Without(@, subs)
                                               ELSE @ ++ [c \in subs |-> p], {r}),
          !.regions = [c \in DOMAIN @ \ {r} |->
              [children |-> IF c = p THEN Plus(@[c].children, list) ELSE @[c].children,
               parent   |-> IF c \in subs THEN p ELSE @[c].parent]]]

-----------------------------------------------------------------------------
(* Whole graphs *)

MergeConflict(g, o) == \/ g.nodes \cap o.nodes # {}
                       \/ DOMAIN g.edges \cap DOMAIN o.edges # {}
                       \/ DOMAIN g.regions \cap DOMAIN o.regions # {}

\* entry(id).or_default().extend(list) for every list of m
Extended(f, m) ==
    [k \in DOMAIN f \cup DOMAIN m |->
        CASE k \notin DOMAIN m -> f[k]
          [] k \notin DOMAIN f -> m[k]
          [] OTHER             -> Plus(f[k], m[k])]

Merged(g, o) ==
    [nodes          |-> g.nodes \cup o.nodes,
     edges          |-> g.edges ++ o.edges,
     regions        |-> g.regions ++ o.regions,
     outgoing       |-> Extended(g.outgoing, o.outgoing),
     incoming       |-> Extended(g.incoming, o.incoming),
     nodeRegion     |-> g.nodeRegion ++ o.nodeRegion,
     regionChildren |-> Extended(g.regionChildren, o.regionChildren),
     regionParent   |-> g.regionParent ++ o.regionParent]

Crossing(g, S) == {e \in DOMAIN g.edges :
                     (g.edges[e].source \in S) # (g.edges[e].target \in S)}

\* Fault: an extracted region keeps a parent that was left behind.
ExtractedSubgraph_KeepsParent(g, S) ==
    LET N == S \cap g.nodes
        E == {e \in DOMAIN g.edges : {g.edges[e].source, g.edges[e].target} \subseteq S}
        R == {r \in DOMAIN g.regions : LET kids == Listed(g.regions[r].children)
                                       IN kids # {} /\ kids \subseteq S}
        Inside(m, f(_)) == [n \in N |-> [e \in EdgeId |-> IF e \in E /\ f(e) = n THEN 1 ELSE 0]]
        Source(e) == g.edges[e].source
        Target(e) == g.edges[e].target
    IN [nodes          |-> N,
        edges          |-> Restrict(g.edges, E),
        outgoing       |-> Inside(N, Source),
        incoming       |-> Inside(N, Target),
        regions        |-> Restrict(g.regions, R),
        regionChildren |-> Restrict(g.regionChildren, R),
        nodeRegion     |-> Restrict(g.nodeRegion, {n \in DOMAIN g.nodeRegion : g.nodeRegion[n] \in R}),
        regionParent   |-> Restrict(g.regionParent, R \cap DOMAIN g.regionParent)]

\* A region survives extraction when it has children and all are selected;
\* a parent that does not survive is dropped.
ExtractedSubgraph(g, S) ==
    LET N == S \cap g.nodes
        E == {e \in DOMAIN g.edges : {g.edges[e].source, g.edges[e].target} \subseteq S}
        R == {r \in DOMAIN g.regions : LET kids == Listed(g.regions[r].children)
                                       IN kids # {} /\ kids \subseteq S}
        Parent(r) == IF g.regions[r].parent \in R THEN g.regions[r].parent ELSE None
        Homes(n) == {r \in R : n \in Listed(g.regions[r].children)}
    IN [nodes          |-> N,
        edges          |-> Restrict(g.edges, E),
        outgoing       |-> [n \in N |-> [e \in EdgeId |->
                              IF e \in E /\ g.edges[e].source = n THEN 1 ELSE 0]],
        incoming       |-> [n \in N |-> [e \in EdgeId |->
                              IF e \in E /\ g.edges[e].target = n THEN 1 ELSE 0]],
        regions        |-> [r \in R |-> [g.regions[r] EXCEPT !.parent = Parent(r)]],
        regionChildren |-> [r \in R |-> g.regions[r].children],
        nodeRegion     |-> [n \in {m \in NodeId : Homes(m) # {}} |-> CHOOSE r \in Homes(n) : TRUE],
        regionParent   |-> [r \in {q \in R : Parent(q) # None} |-> Parent(r)]]

\* validate, without the port ranges (ports are abstracted).
Validates(g) ==
    /\ \A e \in DOMAIN g.edges : {g.edges[e].source, g.edges[e].target} \subseteq g.nodes
    /\ \A r \in DOMAIN g.regions :
         /\ Listed(g.regions[r].children) \subseteq g.nodes
         /\ g.regions[r].parent \in DOMAIN g.regions \cup {None}
-----------------------------------------------------------------------------
(* What a well-kept graph is. *)

\* Every edge starts and ends at a node of the graph.
EdgesAnchored(g) ==
    \A e \in DOMAIN g.edges : {g.edges[e].source, g.edges[e].target} \subseteq g.nodes

\* The two edge indexes are those of the edge map: every node has both
\* lists, and they hold each of its edges once and nothing else.
IndexExact(g) ==
    /\ DOMAIN g.outgoing = g.nodes
    /\ DOMAIN g.incoming = g.nodes
    /\ \A n \in g.nodes, e \in EdgeId :
         /\ g.outgoing[n][e] =
              IF e \in DOMAIN g.edges /\ g.edges[e].source = n THEN 1 ELSE 0
         /\ g.incoming[n][e] =
              IF e \in DOMAIN g.edges /\ g.edges[e].target = n THEN 1 ELSE 0

\* The child index repeats the child lists the regions themselves hold.
ChildrenMirrored(g) ==
    /\ DOMAIN g.regionChildren = DOMAIN g.regions
    /\ \A r \in DOMAIN g.regions : g.regionChildren[r] = g.regions[r].children

ParentMirrored(g) ==
    /\ DOMAIN g.regionParent = {r \in DOMAIN g.regions : g.regions[r].parent # None}
    /\ \A r \in DOMAIN g.regionParent : g.regionParent[r] = g.regions[r].parent

\* A node is in the list of exactly the region the node index names.
HomeExact(g) ==
    /\ DOMAIN g.nodeRegion \subseteq g.nodes
    /\ \A n \in DOMAIN g.nodeRegion : g.nodeRegion[n] \in DOMAIN g.regions
    /\ \A r \in DOMAIN g.regions, n \in NodeId :
         g.regions[r].children[n] =
           IF n \in DOMAIN g.nodeRegion /\ g.nodeRegion[n] = r THEN 1 ELSE 0

\* Parents exist, and no set of regions has all its parents inside itself
\* (no region contains itself, however indirectly).
Forest(g) ==
    /\ \A r \in DOMAIN g.regions : g.regions[r].parent \in DOMAIN g.regions \cup {None}
    /\ \A C \in SUBSET DOMAIN g.regions :
         C # {} => \E r \in C : g.regions[r].parent \notin C

EdgesKept(g)   == EdgesAnchored(g) /\ IndexExact(g) /\ ChildrenMirrored(g)
RegionsKept(g) == ParentMirrored(g) /\ HomeExact(g) /\ Forest(g)
=============================================================================
