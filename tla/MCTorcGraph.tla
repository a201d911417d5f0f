----------------------------- MODULE MCTorcGraph -----------------------------
(* Instances of TorcGraph for TLC. *)
EXTENDS TorcGraph

CONSTANTS n1, n2, n3, e1, e2, e3, r1, r2, r3

\* A library graph with one node in a region, and one that has an edge too.
OneRegion == WithRegion(WithNode(EmptyGraph, n2), r2, {n2}, None)
OneEdge   == WithEdges(WithNode(OneRegion, n3), One(e2, [source |-> n2, target |-> n3]))

RegionLibrary == {OneRegion}
EdgeLibrary   == {OneEdge}
=============================================================================
