------------------------------- MODULE TopoSort -------------------------------
(***************************************************************************)
(* Graph::topological_sort (crates/torc-core/src/graph/mod.rs), Kahn's     *)
(* algorithm with nodes that may be forced through a cycle, followed by    *)
(* compute_levels of the scheduler, which groups the sorted nodes into     *)
(* parallel steps (crates/torc-materialize/src/schedule.rs).               *)
(*                                                                         *)
(* One step per turn of the two loops.  Nodes are numbers because the      *)
(* order of their UUIDs breaks every tie.  The queue is a set: the code    *)
(* sorts it before each pop, so it always gives its largest node.          *)
(***************************************************************************)
EXTENDS Naturals, Sequences, FiniteSets, Maps

CONSTANTS Node, EdgeId

ASSUME NodeAssumption   == Node \subseteq Nat /\ IsFiniteSet(Node)
ASSUME EdgeIdAssumption == IsFiniteSet(EdgeId)

VARIABLES edges,     \* EdgeId -> its ends; the graph does not change meanwhile
          exempt,    \* the Iterate, Recurse and Fixpoint nodes
          inDegree,  \* node -> incoming edges not yet accounted for
          queue,     \* nodes ready to be listed
          result,    \* nodes listed so far
          level,     \* node -> its parallel step, once placed
          status     \* "sorting", "levels", "done" or "cycle"

vars == <<edges, exempt, inDegree, queue, result, level, status>>

Edge == [source : Node, target : Node]
Outgoing(n) == {e \in DOMAIN edges : edges[e].source = n}
Incoming(n) == {e \in DOMAIN edges : edges[e].target = n}

Largest(S)  == CHOOSE n \in S : \A m \in S : m <= n
Smallest(S) == CHOOSE n \in S : \A m \in S : n <= m

Init == /\ \E D \in SUBSET EdgeId : edges \in [D -> Edge]
        /\ exempt \in SUBSET Node
        /\ inDegree = [n \in Node |-> Cardinality(Incoming(n))]
        /\ queue = {n \in Node : inDegree[n] = 0}
        /\ result = <<>>
        /\ level = EmptyMap
        /\ status = "sorting"

\* A decrement per edge, none below zero: a forced node is already at zero.
Lowered(n) == [m \in Node |-> LET k == Cardinality(Outgoing(n) \cap Incoming(m))
                              IN IF inDegree[m] > k THEN inDegree[m] - k ELSE 0]

Pop ==
    LET n == Largest(queue) IN
    /\ status = "sorting" /\ queue # {}
    /\ result' = Append(result, n)
    /\ inDegree' = Lowered(n)
    /\ queue' = (queue \ {n}) \cup {m \in Node : inDegree[m] > 0 /\ inDegree'[m] = 0}
    /\ UNCHANGED <<edges, exempt, level, status>>

Stuck == status = "sorting" /\ queue = {} /\ Len(result) # Cardinality(Node)

\* Fault: any node that waits may be forced.
ExemptRemaining_Any == {n \in Node : inDegree[n] > 0}

\* The exempt nodes that wait.
ExemptRemaining == {n \in exempt : inDegree[n] > 0}

\* Fault: nodes are forced while others are ready.
ForceExempt_Early ==
    LET n == Smallest(ExemptRemaining) IN
    /\ status = "sorting" /\ ExemptRemaining # {}
    /\ inDegree' = [inDegree EXCEPT ![n] = 0]
    /\ queue' = queue \cup {n}
    /\ UNCHANGED <<edges, exempt, result, level, status>>

\* Any exempt node with edges outstanding will do: it need not be on the cycle.
ForceExempt ==
    LET n == Smallest(ExemptRemaining) IN
    /\ Stuck /\ ExemptRemaining # {}
    /\ inDegree' = [inDegree EXCEPT ![n] = 0]
    /\ queue' = {n}
    /\ UNCHANGED <<edges, exempt, result, level, status>>

\* Faults: a cycle is reported although a node could be forced; or the loop
\* goes round again without reporting it.
CycleDetected_Early ==
    /\ Stuck
    /\ status' = "cycle"
    /\ UNCHANGED <<edges, exempt, inDegree, queue, result, level>>
CycleDetected_Spins ==
    /\ Stuck /\ ExemptRemaining = {}
    /\ UNCHANGED vars

CycleDetected ==
    /\ Stuck /\ ExemptRemaining = {}
    /\ status' = "cycle"
    /\ UNCHANGED <<edges, exempt, inDegree, queue, result, level>>

Sorted ==
    /\ status = "sorting" /\ queue = {} /\ Len(result) = Cardinality(Node)
    /\ status' = "levels"
    /\ UNCHANGED <<edges, exempt, inDegree, queue, result, level>>

\* Fault: one more than the lowest predecessor.
Place_Lowest ==
    LET n      == result[Cardinality(DOMAIN level) + 1]
        placed == {e \in Incoming(n) : edges[e].source \in DOMAIN level}
        above  == {level[edges[e].source] + 1 : e \in placed}
    IN /\ status = "levels" /\ DOMAIN level # Node
       /\ level' = level ++ One(n, IF above = {} THEN 0 ELSE Smallest(above))
       /\ UNCHANGED <<edges, exempt, inDegree, queue, result, status>>

\* compute_levels: one more than the highest predecessor placed so far.
Place ==
    LET n      == result[Cardinality(DOMAIN level) + 1]
        placed == {e \in Incoming(n) : edges[e].source \in DOMAIN level}
        above  == {level[edges[e].source] + 1 : e \in placed}
    IN /\ status = "levels" /\ DOMAIN level # Node
       /\ level' = level ++ One(n, IF above = {} THEN 0 ELSE Largest(above))
       /\ UNCHANGED <<edges, exempt, inDegree, queue, result, status>>

Scheduled ==
    /\ status = "levels" /\ DOMAIN level = Node
    /\ status' = "done"
    /\ UNCHANGED <<edges, exempt, inDegree, queue, result, level>>

Next == Pop \/ ForceExempt \/ CycleDetected \/ Sorted \/ Place \/ Scheduled

Spec == Init /\ [][Next]_vars

\* The sort and the levels are loops of one thread that nothing blocks.
FairSpec == Spec /\ WF_vars(Next)

-----------------------------------------------------------------------------
TypeOK ==
    /\ IsMap(edges, EdgeId, Edge)
    /\ exempt \subseteq Node
    /\ inDegree \in [Node -> Nat]
    /\ queue \subseteq Node
    /\ result \in Seq(Node)
    /\ IsMap(level, Node, Nat)
    /\ status \in {"sorting", "levels", "done", "cycle"}

Listed == Range(result)
Before(u, v) == \E i, j \in DOMAIN result : i < j /\ result[i] = u /\ result[j] = v

\* Some nodes of C precede each node of C: C holds a cycle.
Cyclic(C) == C # {} /\ \A n \in C : \E e \in Incoming(n) : edges[e].source \in C
Acyclic == \A C \in SUBSET Node : ~Cyclic(C)

\* u reaches v: every set that holds u and is closed under edges holds v.
Reaches(u, v) ==
    \A C \in SUBSET Node :
       u \in C /\ (\A e \in DOMAIN edges : edges[e].source \in C => edges[e].target \in C)
         => v \in C

\* On a graph without cycles the order is a topological one at every moment,
\* whichever nodes are exempt: nothing is ever forced.
TopologicalOnDags ==
    Acyclic => \A e \in DOMAIN edges : edges[e].target \in Listed =>
                 Before(edges[e].source, edges[e].target)

\* An error is reported for exactly the graphs that have a cycle which avoids
\* every exempt node; any other graph is sorted completely.
CycleVerdictExact ==
    LET bad == \E C \in SUBSET (Node \ exempt) : Cyclic(C)
    IN /\ status = "cycle" => bad
       /\ status = "done" => ~bad /\ Listed = Node

\* On a graph without cycles, the level of a node is the length of the longest
\* chain that leads to it: above all its predecessors, and just above one.
\* So a parallel step has no dependency inside, no step is empty, and the
\* number of steps is the longest sequential chain.
LevelsAreLongestChains ==
    status = "done" /\ Acyclic =>
      \A n \in Node :
        /\ \A e \in Incoming(n) : level[edges[e].source] < level[n]
        /\ level[n] > 0 => \E e \in Incoming(n) : level[edges[e].source] = level[n] - 1

\* The sort and the scheduler end, cycle or no cycle.
Terminates == <>(status \in {"done", "cycle"})

\* The doc of topological_sort: u comes before v for every edge, except that a
\* forced node's remaining edges count as back-edges of the cycle it is on.
\* An edge out of order must therefore lie on a cycle.
OnlyBackEdgesDisordered ==
    status = "done" =>
      \A e \in DOMAIN edges :
         \/ Before(edges[e].source, edges[e].target)
         \/ Reaches(edges[e].target, edges[e].source)

Order == INSTANCE TopoOrder WITH
           precedes <- {<<edges[e].source, edges[e].target>> : e \in DOMAIN edges},
           order    <- result,
           verdict  <- CASE status = "sorting" -> "pending"
                         [] status = "cycle"   -> "cyclic"
                         [] OTHER              -> "sorted"

\* The degree counters and the queue do what the precedence relation says: a
\* node leaves the queue exactly when all its predecessors are listed, or when
\* it was forced and no node was ready.
ImplementsOrder == Order!Spec
=============================================================================
