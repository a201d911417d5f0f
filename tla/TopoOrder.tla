------------------------------ MODULE TopoOrder ------------------------------
(***************************************************************************)
(* What a topological sort with exempt nodes promises, stated on the       *)
(* precedence relation alone, without degrees or queues: a node is listed  *)
(* when all that precede it are; only when no such node is left may one    *)
(* exempt node go ahead of its predecessors; with neither, the sort fails. *)
(***************************************************************************)
EXTENDS Sequences, Functions

CONSTANT Node

VARIABLES precedes,  \* the set of pairs <<u, v>> with an edge from u to v
          exempt,    \* nodes that may close a cycle
          order,     \* the nodes listed so far
          verdict    \* "pending", "sorted" or "cyclic"

vars == <<precedes, exempt, order, verdict>>

Waiting == Node \ Range(order)
Ready   == {n \in Waiting : \A m \in Node : <<m, n>> \in precedes => m \in Range(order)}

Init == /\ precedes \subseteq Node \X Node
        /\ exempt \subseteq Node
        /\ order = <<>>
        /\ verdict = "pending"

List(n) == /\ verdict = "pending"
           /\ order' = Append(order, n)
           /\ UNCHANGED <<precedes, exempt, verdict>>

Conclude(v) == /\ verdict = "pending"
               /\ verdict' = v
               /\ UNCHANGED <<precedes, exempt, order>>

Next == \/ \E n \in Ready : List(n)
        \/ Ready = {} /\ \E n \in Waiting \cap exempt : List(n)
        \/ Waiting = {} /\ Conclude("sorted")
        \/ Waiting # {} /\ Ready \cup (Waiting \cap exempt) = {} /\ Conclude("cyclic")

Spec == Init /\ [][Next]_vars
=============================================================================
