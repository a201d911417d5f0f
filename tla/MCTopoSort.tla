------------------------------ MODULE MCTopoSort ------------------------------
(* Instances of TopoSort for TLC: every multigraph of a bounded size. *)
EXTENDS TopoSort

\* Nothing depends on which edge has which id, so the ids are given in the
\* order of the edges' ends.
Weight(e) == 10 * edges[e].source + edges[e].target
Canonical == \E k \in 0..Cardinality(EdgeId) :
               /\ DOMAIN edges = 1..k
               /\ \A i \in 1..(k - 1) : Weight(i) <= Weight(i + 1)

MCInit     == Init /\ Canonical
MCSpec     == MCInit /\ [][Next]_vars
MCFairSpec == MCSpec /\ WF_vars(Next)
=============================================================================
