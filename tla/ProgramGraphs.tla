---------------------------- MODULE ProgramGraphs ----------------------------
(***************************************************************************)
(* A program is a graph whose nodes have kinds, signatures and contracts   *)
(* and whose edges join ports (crates/torc-core/src/graph/mod.rs).         *)
(*                                                                         *)
(*   p.graph        a graph of GraphOps                                    *)
(*   p.attr[n]      kind, sig ([ins, outs] or None), contract (or None),   *)
(*                  value (the "value" annotation, or None)                *)
(*   p.ports[e]     the output port and the input port the edge joins      *)
(*   p.kindOf[r]    the kind of the region                                 *)
(*   p.constrained  the regions that carry a constraint                    *)
(***************************************************************************)
EXTENDS GraphOps, Types

Node(kind, sig, contract, value) ==
    [kind |-> kind, sig |-> sig, contract |-> contract, value |-> value]
Sig(ins, outs) == [ins |-> ins, outs |-> outs]
CycleExempt == {"Iterate", "Recurse", "Fixpoint"}

EdgesFrom(p, n) == IF n \in DOMAIN p.graph.outgoing THEN Listed(p.graph.outgoing[n]) ELSE {}
EdgesInto(p, n) == IF n \in DOMAIN p.graph.incoming THEN Listed(p.graph.incoming[n]) ELSE {}
Outs(p, n) == IF p.attr[n].sig = None THEN <<>> ELSE p.attr[n].sig.outs
Ins(p, n)  == IF p.attr[n].sig = None THEN <<>> ELSE p.attr[n].sig.ins

\* Ports count from 0.  An edge that leaves an untyped node, or a port its
\* signature does not have, has no type.
SourceType(p, e) == LET ts == Outs(p, p.graph.edges[e].source)  i == p.ports[e].from + 1
                    IN IF i \in DOMAIN ts THEN ts[i] ELSE None
TargetType(p, e) == LET ts == Ins(p, p.graph.edges[e].target)  i == p.ports[e].to + 1
                    IN IF i \in DOMAIN ts THEN ts[i] ELSE None

Predecessors(p, n) == {p.graph.edges[e].source : e \in EdgesInto(p, n)}
Leaves(p) == {n \in p.graph.nodes : EdgesFrom(p, n) = {}}
HomeOf(p, n) == IF n \in DOMAIN p.graph.nodeRegion THEN p.graph.nodeRegion[n] ELSE None

\* The edges to or from a port that the node's signature does not have.
BadPorts(p) ==
    {e \in DOMAIN p.graph.edges :
       \/ p.attr[p.graph.edges[e].source].sig # None /\ SourceType(p, e) = None
       \/ p.attr[p.graph.edges[e].target].sig # None /\ TargetType(p, e) = None}

\* validate
WellFormed(p) == Validates(p.graph) /\ BadPorts(p) = {}

-----------------------------------------------------------------------------
(* The order of the nodes *)

\* A node is taken when all its predecessors were; an exempt one goes ahead
\* when there is no such node.  The order of the UUIDs decides among several.
NextInOrder(p, listed) ==
    LET waiting == p.graph.nodes \ listed
        ready   == {n \in waiting : Predecessors(p, n) \subseteq listed}
    IN IF ready # {} THEN ready ELSE {n \in waiting : p.attr[n].kind \in CycleExempt}

\* The orders after as many steps as there are nodes, or none when a cycle
\* stops the sort; and the check that an order has them all.
Sorting(p) ==
    FoldSet(LAMBDA i, orders : UNION {{Append(o, n) : n \in NextInOrder(p, ToSet(o))} : o \in orders},
            {<<>>}, 1..Cardinality(p.graph.nodes))
Orders(p) == {o \in Sorting(p) : o \in [1..Cardinality(p.graph.nodes) -> p.graph.nodes]}

-----------------------------------------------------------------------------
(* Paths along an order *)

\* The places before the k-th that hold a predecessor of its node.
FedFrom(p, order, k) == {j \in 1..(k - 1) : order[j] \in Predecessors(p, order[k])}

\* Fault: the lightest path into a node counts.
PathWeights_Lightest(p, order, own) ==
    LET weight[k \in DOMAIN order] ==
          own[order[k]] + (IF FedFrom(p, order, k) = {} THEN 0
                           ELSE Min({weight[j] : j \in FedFrom(p, order, k)}))
    IN weight

\* What the heaviest path weighs that ends at each place of an order: what the
\* node weighs on its own, and the most that was found for a predecessor
\* before it.
PathWeights(p, order, own) ==
    LET weight[k \in DOMAIN order] ==
          own[order[k]] + Max({0} \cup {weight[j] : j \in FedFrom(p, order, k)})
    IN weight
HeaviestPath(p, order, own) ==
    Max({0} \cup {PathWeights(p, order, own)[k] : k \in DOMAIN order})
=============================================================================
