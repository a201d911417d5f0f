----------------------------- MODULE Canonicalize -----------------------------
(***************************************************************************)
(* The first stage of materialization                                      *)
(* (crates/torc-materialize/src/canonicalize.rs): duplicate nodes are      *)
(* merged, regions of one node and regions nested in a region of their     *)
(* kind are dissolved.  An edge that is moved gets a fresh id in the code; *)
(* here it keeps the one it gave up.                                       *)
(***************************************************************************)
EXTENDS ProgramGraphs

\* The program on a graph that lost some nodes and regions.
Reduced(p, g) ==
    [p EXCEPT !.graph  = g,
              !.attr   = Restrict(@, g.nodes),
              !.kindOf = Restrict(@, DOMAIN g.regions),
              !.constrained = @ \cap DOMAIN g.regions]

\* What makes two nodes duplicates: neither their operands nor the annotation
\* that holds a literal's value.
ContentOf(p, n) == <<HomeOf(p, n), p.attr[n].kind, p.attr[n].sig, p.attr[n].contract>>

Duplicates(p, n) == {m \in p.graph.nodes : ContentOf(p, m) = ContentOf(p, n)}

\* Any member of a group may come first in it and stand for the others.
Representatives(p) ==
    LET first == {T \in SUBSET p.graph.nodes :
                    \A n \in p.graph.nodes : \E m \in T : T \cap Duplicates(p, n) = {m}}
    IN {[n \in p.graph.nodes |-> CHOOSE m \in T : m \in Duplicates(p, n)] : T \in first}

\* Every edge of a node that has a representative moves there: it leaves the
\* lists of its old ends and enters those of the new ones.
Rewired(g, r) ==
    LET moved == {e \in DOMAIN g.edges :
                    \E n \in {g.edges[e].source, g.edges[e].target} : r[n] # n}
    IN [g EXCEPT
          !.edges    = [e \in DOMAIN @ |-> [source |-> r[@[e].source], target |-> r[@[e].target]]],
          !.outgoing = [n \in DOMAIN @ |-> [e \in EdgeId |->
             IF e \notin moved THEN @[n][e] ELSE IF r[g.edges[e].source] = n THEN 1 ELSE 0]],
          !.incoming = [n \in DOMAIN @ |-> [e \in EdgeId |->
             IF e \notin moved THEN @[n][e] ELSE IF r[g.edges[e].target] = n THEN 1 ELSE 0]]]

\* Fault: a duplicate's own edges are lost with it.
Merge_Lost(p, r) ==
    LET gone == {n \in p.graph.nodes : r[n] # n}
        left == WithoutNodes(p.graph, gone)
    IN [Reduced(p, left) EXCEPT !.ports = Restrict(@, DOMAIN left.edges)]

\* The edges move, then the duplicates go.  The groups are formed once: merging
\* may bring about new duplicates.
Merge(p, r) ==
    LET gone == {n \in p.graph.nodes : r[n] # n}
    IN Reduced(p, WithoutNodes(Rewired(p.graph, r), gone))

\* Regions of one node and without a constraint: they are listed once, then
\* dissolved one after the other.
Trivials(p) == {r \in DOMAIN p.graph.regions :
                  Cardinality(Listed(p.graph.regions[r].children)) = 1 /\ r \notin p.constrained}

Dissolved(p, r) == Reduced(p, WithoutRegion(p.graph, r))

\* Regions in a region of their kind: they are looked for again after each one
\* that was flattened.
Flattenable(p) ==
    {r \in DOMAIN p.graph.regionParent \ p.constrained :
       LET q == p.graph.regionParent[r]
       IN q \in DOMAIN p.graph.regions /\ p.kindOf[q] = p.kindOf[r]
            /\ p.kindOf[r] \in {"Sequential", "Parallel"}}

Flattened(p, r) == Reduced(p, InlinedRegion(p.graph, r))
=============================================================================
