------------------------------ MODULE GraphStore ------------------------------
(***************************************************************************)
(* What torc-core's graph container promises, with no index in sight: a    *)
(* set of nodes, the two ends of each edge, the region each node lives in, *)
(* and the region each region lies in.  TorcGraph's DisciplinedSpec        *)
(* implements it.                                                          *)
(***************************************************************************)
EXTENDS Naturals, FiniteSets, Maps

CONSTANTS NodeId, EdgeId, RegionId, None,
          Libraries,   \* graphs that can be merged in, as records of the variables
          MaxWires     \* bound: edges one composition adds

VARIABLES nodes,   \* a set of NodeId
          ends,    \* EdgeId -> <<source, target>>
          home,    \* node -> its region, or None
          within   \* region -> the region it lies in, or None

vars == <<nodes, ends, home, within>>

Init == /\ nodes = {}
        /\ ends = EmptyMap
        /\ home = EmptyMap
        /\ within = EmptyMap

Regions == DOMAIN within
Inside(S) == {e \in DOMAIN ends : ends[e][1] \in S /\ ends[e][2] \in S}
Outside(S) == {e \in DOMAIN ends : ends[e][1] \notin S /\ ends[e][2] \notin S}

AddNode(n) ==
    /\ n \notin nodes
    /\ nodes' = nodes \cup {n}
    /\ home' = home ++ One(n, None)
    /\ UNCHANGED <<ends, within>>

Connect(e, s, t) ==
    /\ e \notin DOMAIN ends
    /\ {s, t} \subseteq nodes
    /\ ends' = ends ++ One(e, <<s, t>>)
    /\ UNCHANGED <<nodes, home, within>>

Disconnect(e) ==
    /\ e \in DOMAIN ends
    /\ ends' = Without(ends, {e})
    /\ UNCHANGED <<nodes, home, within>>

\* The nodes of S go, with every edge that touches one of them.
Remove(S) ==
    /\ S # {} /\ S \subseteq nodes
    /\ nodes' = nodes \ S
    /\ ends' = Restrict(ends, Outside(S))
    /\ home' = Without(home, S)
    /\ UNCHANGED within

\* A new region takes homeless nodes and top-level regions.
Enclose(r, C, K) ==
    /\ r \notin Regions
    /\ \A n \in C : n \in nodes /\ home[n] = None
    /\ \A k \in K : k \in Regions /\ within[k] = None
    /\ home' = [n \in nodes |-> IF n \in C THEN r ELSE home[n]]
    /\ within' = [k \in Regions |-> IF k \in K THEN r ELSE within[k]] ++ One(r, None)
    /\ UNCHANGED <<nodes, ends>>

\* A region dissolves: what was in it moves to up.
Dissolve(r, up) ==
    /\ r \in Regions
    /\ home' = [n \in nodes |-> IF home[n] = r THEN up ELSE home[n]]
    /\ within' = [k \in Regions \ {r} |-> IF within[k] = r THEN up ELSE within[k]]
    /\ UNCHANGED <<nodes, ends>>

RemoveRegion(r) == Dissolve(r, None)
InlineRegion(r) == r \in Regions /\ Dissolve(r, within[r])

\* A library comes in whole, with edges between any nodes there then are.
Compose(o) ==
    /\ o.nodes \cap nodes = {}
    /\ DOMAIN o.ends \cap DOMAIN ends = {}
    /\ DOMAIN o.within \cap Regions = {}
    /\ nodes' = nodes \cup o.nodes
    /\ home' = home ++ o.home
    /\ within' = within ++ o.within
    /\ \E wires \in SUBSET (EdgeId \ (DOMAIN ends \cup DOMAIN o.ends)) :
         /\ Cardinality(wires) <= MaxWires
         /\ DOMAIN ends' = DOMAIN ends \cup DOMAIN o.ends \cup wires
         /\ \A e \in DOMAIN ends : ends'[e] = ends[e]
         /\ \A e \in DOMAIN o.ends : ends'[e] = o.ends[e]
         /\ \A e \in wires : ends'[e] \in nodes' \X nodes'

\* The nodes of old make way for a library.  The edges between old and the
\* rest come back, one for one, under new ids: each keeps the end that was
\* outside old, and has a node of the library for the other.
Replace(old, o) ==
    /\ old \subseteq nodes
    /\ nodes' = (nodes \ old) \cup o.nodes
    /\ home' = Without(home, old) ++ o.home
    /\ within' = within ++ o.within
    /\ \E fresh \in Injection(DOMAIN ends \ (Inside(old) \cup Outside(old)), EdgeId) :
         /\ \A e \in DOMAIN fresh : fresh[e] \notin DOMAIN ends
         /\ DOMAIN ends' = Outside(old) \cup DOMAIN o.ends \cup {fresh[e] : e \in DOMAIN fresh}
         /\ \A e \in Outside(old) : ends'[e] = ends[e]
         /\ \A e \in DOMAIN o.ends : ends'[e] = o.ends[e]
         /\ \A e \in DOMAIN fresh : \A i \in 1..2 :
              IF ends[e][i] \in old THEN ends'[fresh[e]][i] \in o.nodes
                                    ELSE ends'[fresh[e]][i] = ends[e][i]

Next ==
    \/ \E n \in NodeId : AddNode(n)
    \/ \E e \in EdgeId, s, t \in nodes : Connect(e, s, t)
    \/ \E e \in EdgeId : Disconnect(e)
    \/ \E S \in SUBSET nodes : Remove(S)
    \/ \E r \in RegionId, C \in SUBSET nodes, K \in SUBSET Regions : Enclose(r, C, K)
    \/ \E r \in RegionId : RemoveRegion(r) \/ InlineRegion(r)
    \/ \E o \in Libraries : Compose(o) \/ \E old \in SUBSET nodes : Replace(old, o)

Spec == Init /\ [][Next]_vars
=============================================================================
