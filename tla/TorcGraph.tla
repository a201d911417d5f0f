------------------------------ MODULE TorcGraph ------------------------------
(***************************************************************************)
(* torc-core's graph container as a state machine: one action per public   *)
(* mutator.  An operation that returns an error before it changes anything *)
(* is a stuttering step; the two that can fail half way (compose and       *)
(* replace_subgraph) have their partial outcome as steps.                  *)
(*                                                                         *)
(* Two clients are specified.  Spec lets the client call every operation   *)
(* with every argument.  DisciplinedSpec restricts only how regions are    *)
(* made, to the way GraphBuilder::end_region makes them.                   *)
(***************************************************************************)
EXTENDS GraphOps

CONSTANTS Others,     \* the graphs a client can merge into this one
          MaxWires,   \* bound: connections of one compose call
          MaxCopies   \* bound: copies of one id in a child list

VARIABLE graph

ASSUME OthersAssumption == \A o \in Others : IsGraph(o) /\ EdgesKept(o)
ASSUME OthersDisciplined == \A o \in Others : RegionsKept(o)
ASSUME BoundsAssumption == MaxWires \in Nat /\ MaxCopies \in Nat

Init == graph = EmptyGraph

-----------------------------------------------------------------------------
AddNode(n) ==
    /\ n \notin graph.nodes
    /\ graph' = WithNode(graph, n)

AddEdge(e, s, t) ==
    /\ CanTake(graph, One(e, [source |-> s, target |-> t]))
    /\ graph' = WithEdges(graph, One(e, [source |-> s, target |-> t]))

RemoveEdge(e) ==
    /\ e \in DOMAIN graph.edges
    /\ graph' = WithoutEdge(graph, e)

RemoveNode(n) ==
    /\ n \in graph.nodes
    /\ graph' = WithoutNodes(graph, {n})

AddRegion(r, C, p) ==
    /\ C \subseteq graph.nodes
    /\ graph' = WithRegion(graph, r, C, p)

SetRegionParent(c, p) ==
    /\ {c, p} \subseteq DOMAIN graph.regions
    /\ graph' = WithParent(graph, {c}, p)

RemoveRegion(r) ==
    /\ r \in DOMAIN graph.regions
    /\ graph' = WithoutRegion(graph, r)

InlineRegion(r) ==
    /\ r \in DOMAIN graph.regions
    /\ LET p == graph.regions[r].parent IN  \* MaxCopies
       p \in DOMAIN graph.regions =>
         \A n \in NodeId : Plus(graph.regions[p].children,
                                graph.regions[r].children)[n] <= MaxCopies
    /\ graph' = InlinedRegion(graph, r)

Wiring(From, To) == UNION {[ids -> [source : From, target : To]] :
                             ids \in {d \in SUBSET EdgeId : Cardinality(d) <= MaxWires}}

MergeOther(o) ==
    /\ ~MergeConflict(graph, o)
    /\ graph' = Merged(graph, o)

\* compose = merge, then add_edge per connection.  A connection that dangles
\* ends the call with an error and keeps the merge and the edges added before
\* it, so E is the whole list of connections or the part before a failure.
Compose(o, E) ==
    /\ ~MergeConflict(graph, o)
    /\ CanTake(Merged(graph, o), E)
    /\ graph' = WithEdges(Merged(graph, o), E)

\* Fault: an edge that left the old part loses the node it led to.
Rewired_OldTarget(old, moved, fresh) ==
    [f \in {fresh[e] : e \in DOMAIN fresh} |->
       LET e == CHOOSE x \in DOMAIN fresh : fresh[x] = f
       IN IF graph.edges[e].source \in old
          THEN [source |-> moved[e], target |-> moved[e]]
          ELSE [graph.edges[e] EXCEPT !.target = moved[e]]]

\* replace_subgraph: moved[e] is the node of the replacement that the port
\* map gives for the inner end of the crossing edge e, fresh[e] the id of the
\* edge created in its place.  The endpoints of the new edges are not checked
\* again: that add_edge cannot refuse one is part of what IndexesExact shows.
Rewired(old, moved, fresh) ==
    [f \in {fresh[e] : e \in DOMAIN fresh} |->
       LET e == CHOOSE x \in DOMAIN fresh : fresh[x] = f
       IN IF graph.edges[e].source \in old
          THEN [graph.edges[e] EXCEPT !.source = moved[e]]
          ELSE [graph.edges[e] EXCEPT !.target = moved[e]]]

ReplaceSubgraph(old, o, moved, fresh) ==
    LET rest == WithoutNodes(graph, old) IN
    /\ old \subseteq graph.nodes
    /\ \A e \in Crossing(graph, old) : moved[e] \in o.nodes
    /\ \A e \in DOMAIN fresh : fresh[e] \notin DOMAIN graph.edges \cup DOMAIN o.edges
    /\ ~MergeConflict(rest, o)
    /\ graph' = WithEdges(Merged(rest, o), Rewired(old, moved, fresh))

\* A node of old that does not exist stops the removal loop, which visits a
\* HashSet in any order; a conflict stops the merge after all were removed.
ReplaceSubgraphFails(old, o, moved) ==
    /\ \A e \in Crossing(graph, old) : moved[e] \in o.nodes
    /\ \/ /\ ~(old \subseteq graph.nodes)
          /\ \E S \in SUBSET (old \cap graph.nodes) : graph' = WithoutNodes(graph, S)
       \/ /\ old \subseteq graph.nodes
          /\ MergeConflict(WithoutNodes(graph, old), o)
          /\ graph' = WithoutNodes(graph, old)

Replacing(old, o) ==
    \E moved \in [Crossing(graph, old) -> o.nodes] :
       \/ \E fresh \in Injection(Crossing(graph, old), EdgeId) :
             ReplaceSubgraph(old, o, moved, fresh)
       \/ ReplaceSubgraphFails(old, o, moved)

-----------------------------------------------------------------------------
\* What GraphBuilder::end_region does: a new id, children that no region
\* holds yet, then set_region_parent for the completed inner regions, which
\* have no parent yet.
AddFreshRegion(r, C, K) ==
    /\ r \notin DOMAIN graph.regions
    /\ C \subseteq graph.nodes \ DOMAIN graph.nodeRegion
    /\ K \subseteq {c \in DOMAIN graph.regions : graph.regions[c].parent = None}
    /\ graph' = WithParent(WithRegion(graph, r, C, None), K, r)

Common ==
    \/ \E n \in NodeId : AddNode(n) \/ RemoveNode(n)
    \/ \E e \in EdgeId, s, t \in NodeId : AddEdge(e, s, t)
    \/ \E e \in EdgeId : RemoveEdge(e)
    \/ \E r \in RegionId : RemoveRegion(r) \/ InlineRegion(r)
    \/ \E o \in Others :
         \/ MergeOther(o)
         \/ \E E \in Wiring(graph.nodes \cup o.nodes, graph.nodes \cup o.nodes) :
              Compose(o, E)
         \/ \E old \in SUBSET NodeId : Replacing(old, o)

Next ==
    \/ Common
    \/ \E r \in RegionId, C \in SUBSET NodeId, p \in RegionId \cup {None} : AddRegion(r, C, p)
    \/ \E c, p \in RegionId : SetRegionParent(c, p)

DisciplinedNext ==
    \/ Common
    \/ \E r \in RegionId, C \in SUBSET NodeId, K \in SUBSET RegionId : AddFreshRegion(r, C, K)

Spec            == Init /\ [][Next]_graph
DisciplinedSpec == Init /\ [][DisciplinedNext]_graph

-----------------------------------------------------------------------------
TypeOK == IsGraph(graph)

\* Whatever the client does, and wherever a call fails, every edge has both
\* its ends in the graph and the adjacency lists that topological_sort,
\* remove_node and the validators read are those of the edge map; the child
\* index never departs from the regions' own lists.
IndexesExact == EdgesKept(graph)

\* For a client that makes regions as GraphBuilder does: a node is listed by
\* the one region that containing_region answers, parent_region and
\* Region::parent agree, and the regions form a forest.
RegionsExact == RegionsKept(graph)

\* ... and validate accepts the graph after every call.
AlwaysValid == Validates(graph)

\* Every subgraph that extract_subgraph returns is as well kept as the graph
\* it came from.
ExtractsWellKept ==
    \A S \in SUBSET NodeId : LET sub == ExtractedSubgraph(graph, S)
                            IN EdgesKept(sub) /\ RegionsKept(sub)

-----------------------------------------------------------------------------
(* The refinement: what the queries of a graph answer. *)

EndsOf(g)   == [e \in DOMAIN g.edges |-> <<g.edges[e].source, g.edges[e].target>>]
HomeOf(g)   == [n \in g.nodes |-> IF n \in DOMAIN g.nodeRegion THEN g.nodeRegion[n] ELSE None]
WithinOf(g) == [r \in DOMAIN g.regions |->
                  IF r \in DOMAIN g.regionParent THEN g.regionParent[r] ELSE None]

Store == INSTANCE GraphStore WITH
           nodes  <- graph.nodes,
           ends   <- EndsOf(graph),
           home   <- HomeOf(graph),
           within <- WithinOf(graph),
           Libraries <- {[nodes |-> o.nodes, ends |-> EndsOf(o),
                          home |-> HomeOf(o), within |-> WithinOf(o)] : o \in Others}

\* Seen through its queries, the indexed graph is the plain store: removing a
\* node takes exactly its edges, inlining promotes exactly the children and
\* sub-regions, replacing reconnects every crossing edge, and a call that
\* fails half way leaves one of the store's states.
ImplementsStore == Store!Spec
=============================================================================
