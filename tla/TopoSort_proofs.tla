--------------------------- MODULE TopoSort_proofs ---------------------------
(***************************************************************************)
(* The sort and the levels for every graph: what each counter and the      *)
(* queue stand for, and from it the order, the verdict, the levels and the *)
(* refinement of TopoOrder.                                                *)
(***************************************************************************)
EXTENDS TopoSort, SequenceTheorems, FiniteSetTheorems, WellFoundedInduction, TLAPS

\* The edges into n that come from a node not listed.
Owed(n) == {e \in Incoming(n) : edges[e].source \notin Listed}

\* No node is listed twice, or waits in the queue after that; a node has no
\* degree left just when it is in one of the two.
QueueExact ==
    /\ \A i, j \in DOMAIN result : result[i] = result[j] => i = j
    /\ queue \cap Listed = {}
    /\ \A n \in Node : inDegree[n] = 0 <=> n \in queue \cup Listed

\* Until then the degree counts what is owed.
DegreeExact == \A n \in Node : inDegree[n] > 0 => inDegree[n] = Cardinality(Owed(n))

\* What is ready is owed nothing, but for a forced node, which is alone.
QueueJustified == \A n \in queue : Owed(n) = {} \/ (n \in exempt /\ queue = {n})

\* A cycle without exempt nodes is never entered.
CyclesUntouched ==
    \A C \in SUBSET (Node \ exempt) : Cyclic(C) => C \cap (queue \cup Listed) = {}

\* On a graph without cycles nothing is forced.
NeverForced == Acyclic => \A n \in queue : Owed(n) = {}

\* The levels are given in the order of the list, once it is complete.
LevelsFollow ==
    /\ status \in {"sorting", "cycle"} => level = EmptyMap
    /\ status \in {"levels", "done"} => queue = {} /\ Listed = Node
    /\ LET k == Cardinality(DOMAIN level)
       IN k <= Len(result) /\ DOMAIN level = {result[i] : i \in 1..k}
    /\ status = "done" => DOMAIN level = Node
    /\ status = "cycle" => queue = {} /\ Listed # Node /\ ExemptRemaining = {}

\* A level that was given is just above the highest it depends on.
LevelsExact ==
    Acyclic => \A n \in DOMAIN level :
      /\ \A e \in Incoming(n) : edges[e].source \in DOMAIN level /\ level[edges[e].source] < level[n]
      /\ level[n] > 0 => \E e \in Incoming(n) : level[edges[e].source] = level[n] - 1

SortInv == /\ TypeOK /\ QueueExact /\ DegreeExact /\ QueueJustified /\ CyclesUntouched
           /\ NeverForced /\ TopologicalOnDags /\ LevelsFollow /\ LevelsExact
-----------------------------------------------------------------------------
(* Sets and counts *)

\* A finite set of numbers that is not empty has a largest and a smallest.
LEMMA Extremes ==
    ASSUME NEW S, S \subseteq Nat, IsFiniteSet(S), S # {}
    PROVE  /\ Largest(S) \in S /\ \A m \in S : m <= Largest(S)
           /\ Smallest(S) \in S /\ \A m \in S : Smallest(S) <= m
<1> DEFINE Bounded(T) == /\ \E n \in T : \A m \in T : m <= n
                         /\ \E n \in T : \A m \in T : n <= m
           Bad == {T \in FiniteSubsetsOf(S) : T # {} /\ ~Bounded(T)}
<1>1. Bad = {}
  <2> SUFFICES ASSUME Bad # {} PROVE FALSE
    OBVIOUS
  <2>1. PICK T \in Bad : \A U \in Bad : <<U, T>> \notin StrictSubsetOrdering(S)
    BY FS_StrictSubsetOrderingWellFounded, WFMin, Bad \subseteq FiniteSubsetsOf(S)
  <2>2. T \subseteq S /\ IsFiniteSet(T) /\ T # {} /\ ~Bounded(T)
    BY DEF FiniteSubsetsOf
  <2>3. PICK x \in T : TRUE
    BY <2>2
  <2> DEFINE U == T \ {x}
  <2>4. U \subseteq T /\ U # T /\ IsFiniteSet(U)
    BY <2>2, FS_RemoveElement
  <2>5. <<U, T>> \in StrictSubsetOrdering(S)
    BY <2>2, <2>4 DEF StrictSubsetOrdering
  <2>6. U \in FiniteSubsetsOf(S) /\ (U # {} => Bounded(U))
    <3>1. U \in FiniteSubsetsOf(S)
      BY <2>2, <2>4 DEF FiniteSubsetsOf
    <3> QED BY <2>1, <2>5, <3>1
  <2>7. CASE U = {}
    BY <2>2, <2>7
  <2>8. CASE U # {}
    <3>1. PICK high \in U : \A w \in U : w <= high
      BY <2>6, <2>8
    <3>2. PICK low \in U : \A w \in U : low <= w
      BY <2>6, <2>8
    <3>3. x \in Nat /\ high \in Nat /\ low \in Nat /\ U \subseteq Nat /\ T = U \cup {x}
      BY <2>2, <2>4
    <3> HIDE DEF U
    <3>4. \E n \in T : \A m \in T : m <= n
      <4>1. CASE x <= high
        BY <3>1, <3>3, <4>1
      <4>2. CASE ~(x <= high)
        BY <3>1, <3>3, <4>2
      <4> QED BY <4>1, <4>2
    <3>5. \E n \in T : \A m \in T : n <= m
      <4>1. CASE low <= x
        BY <3>2, <3>3, <4>1
      <4>2. CASE ~(low <= x)
        BY <3>2, <3>3, <4>2
      <4> QED BY <4>1, <4>2
    <3> QED BY <2>2, <3>4, <3>5
  <2> QED BY <2>7, <2>8
<1>2. Bounded(S)
  BY <1>1 DEF FiniteSubsetsOf
<1> QED BY <1>2 DEF Largest, Smallest

\* There are finitely many nodes and edges.
LEMMA Finite ==
    ASSUME TypeOK
    PROVE  /\ \A n \in Node : IsFiniteSet(Incoming(n)) /\ IsFiniteSet(Owed(n))
           /\ \A S \in SUBSET Node : IsFiniteSet(S) /\ S \subseteq Nat
<1>1. DOMAIN edges \subseteq EdgeId
  BY DEF TypeOK, IsMap
<1>2. \A S \in SUBSET EdgeId : IsFiniteSet(S)
  BY EdgeIdAssumption, FS_Subset
<1>3. \A S \in SUBSET Node : IsFiniteSet(S) /\ S \subseteq Nat
  BY NodeAssumption, FS_Subset
<1>4. \A n \in Node : Incoming(n) \subseteq EdgeId /\ Owed(n) \subseteq EdgeId
  BY <1>1 DEF Incoming, Owed
<1> QED BY <1>2, <1>3, <1>4

\* The list is as long as there are nodes in it.
LEMMA ListedLength ==
    ASSUME TypeOK, QueueExact
    PROVE  /\ Listed \subseteq Node
           /\ Len(result) = Cardinality(Listed)
           /\ Len(result) = Cardinality(Node) <=> Listed = Node
<1>1. /\ result \in Seq(Node) /\ Len(result) \in Nat
      /\ DOMAIN result = 1..Len(result) /\ result \in [1..Len(result) -> Node]
  BY LenProperties DEF TypeOK
<1>2. Listed \subseteq Node
  BY <1>1 DEF Listed, Range
<1>3. result \in Bijection(1..Len(result), Listed)
  BY <1>1 DEF Bijection, Injection, Surjection, IsInjective, Listed, Range, QueueExact
<1>4. ExistsBijection(1..Len(result), Listed)
  BY <1>3 DEF ExistsBijection
<1>5. IsFiniteSet(1..Len(result)) /\ Cardinality(1..Len(result)) = Len(result)
  BY <1>1, FS_Interval
<1>6. Cardinality(Listed) = Len(result)
  BY <1>4, <1>5, FS_Bijection
<1>7. Cardinality(Listed) = Cardinality(Node) => Listed = Node
  BY <1>2, NodeAssumption, FS_Subset
<1> QED BY <1>2, <1>6, <1>7

\* What waits outside the queue is owed something.
LEMMA WaitingIsOwed ==
    ASSUME TypeOK, QueueExact, DegreeExact
    PROVE  \A n \in Node \ (queue \cup Listed) :
              inDegree[n] > 0 /\ \E e \in Incoming(n) : edges[e].source \in Node \ Listed
<1> SUFFICES ASSUME NEW n \in Node, n \notin queue \cup Listed
             PROVE  inDegree[n] > 0 /\ \E e \in Incoming(n) : edges[e].source \in Node \ Listed
  OBVIOUS
<1>1. inDegree[n] \in Nat /\ inDegree[n] > 0
  BY DEF TypeOK, QueueExact
<1>2. Cardinality(Owed(n)) > 0
  BY <1>1 DEF DegreeExact
<1>3. Owed(n) # {}
  BY <1>2, FS_EmptySet
<1>4. \A e \in Incoming(n) : edges[e].source \in Node
  BY DEF Incoming, TypeOK, IsMap, Edge
<1> QED BY <1>1, <1>3, <1>4 DEF Owed

\* So with an empty queue the nodes left, if any, hold a cycle.
LEMMA LeftIsCyclic ==
    ASSUME TypeOK, QueueExact, DegreeExact, queue = {}, Listed # Node
    PROVE  Cyclic(Node \ Listed)
<1>1. Listed \subseteq Node
  BY ListedLength
<1> QED BY <1>1, WaitingIsOwed DEF Cyclic

-----------------------------------------------------------------------------
(* The steps *)

\* A pop lists the largest node of the queue and pays what it owes.
LEMMA PopEffect ==
    ASSUME SortInv, Pop
    PROVE  \E n \in queue :
             /\ n \in Node /\ n \notin Listed /\ result' = Append(result, n)
             /\ Listed' = Listed \cup {n}
             /\ \A i \in DOMAIN result : i \in DOMAIN result' /\ result'[i] = result[i]
             /\ DOMAIN result' = DOMAIN result \cup {Len(result) + 1} /\ result'[Len(result) + 1] = n
             /\ inDegree' \in [Node -> Nat]
             /\ \A m \in Node : inDegree[m] = 0 => inDegree'[m] = 0
             /\ \A m \in Node : inDegree[m] > 0 => inDegree'[m] = Cardinality(Owed(m)')
             /\ queue' = (queue \ {n}) \cup {m \in Node : inDegree[m] > 0 /\ inDegree'[m] = 0}
             /\ UNCHANGED <<edges, exempt, level, status>>
<1> DEFINE n == Largest(queue)
<1>1. TypeOK /\ QueueExact /\ DegreeExact /\ queue # {}
  BY DEF SortInv, Pop
<1>2. n \in queue
  BY <1>1, Finite, Extremes DEF TypeOK
<1>3. PICK x \in queue : x = n
  BY <1>2
<1>4. x \in Node /\ x \notin Listed
  BY <1>1 DEF TypeOK, QueueExact
<1>5. /\ result' = Append(result, x) /\ inDegree' = Lowered(x)
      /\ queue' = (queue \ {x}) \cup {m \in Node : inDegree[m] > 0 /\ inDegree'[m] = 0}
      /\ UNCHANGED <<edges, exempt, level, status>>
  BY <1>3 DEF Pop
<1> HIDE DEF n
<1>6. result \in Seq(Node) /\ Len(result) \in Nat /\ DOMAIN result = 1..Len(result)
  BY <1>1, LenProperties DEF TypeOK
<1>7. /\ result' \in Seq(Node) /\ Len(result') = Len(result) + 1
      /\ \A i \in 1..Len(result) : result'[i] = result[i]
      /\ result'[Len(result) + 1] = x /\ DOMAIN result' = 1..(Len(result) + 1)
  BY <1>4, <1>5, <1>6, AppendProperties, LenProperties
<1>8. /\ DOMAIN result' = DOMAIN result \cup {Len(result) + 1}
      /\ \A i \in DOMAIN result : i \in DOMAIN result' /\ result'[i] = result[i]
  BY <1>6, <1>7
<1>9. Listed' = Listed \cup {x}
  BY <1>7, <1>8 DEF Listed, Range
<1> DEFINE Paid(m) == Outgoing(x) \cap Incoming(m)
<1>10. ASSUME NEW m \in Node
       PROVE  /\ Owed(m)' = Owed(m) \ Paid(m) /\ IsFiniteSet(Owed(m)) /\ IsFiniteSet(Paid(m))
              /\ Cardinality(Paid(m)) \in Nat /\ Cardinality(Owed(m)) \in Nat
              /\ Cardinality(Paid(m)) <= Cardinality(Owed(m))
              /\ Cardinality(Owed(m)') = Cardinality(Owed(m)) - Cardinality(Paid(m))
  <2>1. Paid(m) \subseteq Owed(m)
    BY <1>4 DEF Outgoing, Incoming, Owed
  <2>2. Owed(m)' = Owed(m) \ Paid(m)
    BY <1>5, <1>9 DEF Outgoing, Incoming, Owed
  <2>3. IsFiniteSet(Owed(m))
    BY <1>1, Finite
  <2> HIDE DEF Paid
  <2>4. /\ IsFiniteSet(Paid(m)) /\ Cardinality(Paid(m)) <= Cardinality(Owed(m))
        /\ Cardinality(Paid(m)) \in Nat /\ Cardinality(Owed(m)) \in Nat
    BY <2>1, <2>3, FS_Subset, FS_CardinalityType
  <2>5. Cardinality(Owed(m) \ Paid(m)) = Cardinality(Owed(m)) - Cardinality(Owed(m) \cap Paid(m))
    BY <2>3, FS_Difference
  <2>6. Owed(m) \cap Paid(m) = Paid(m)
    BY <2>1
  <2> QED BY <2>2, <2>3, <2>4, <2>5, <2>6
<1>11. \A m \in Node : inDegree'[m] = IF inDegree[m] > Cardinality(Paid(m))
                                        THEN inDegree[m] - Cardinality(Paid(m)) ELSE 0
  BY <1>5 DEF Lowered
<1>12. DOMAIN inDegree' = Node /\ inDegree' = [m \in Node |-> inDegree'[m]]
  BY <1>5 DEF Lowered
<1> HIDE DEF Paid
<1>13. ASSUME NEW m \in Node
       PROVE  /\ inDegree'[m] \in Nat /\ (inDegree[m] = 0 => inDegree'[m] = 0)
              /\ inDegree[m] > 0 => inDegree'[m] = Cardinality(Owed(m)')
  <2>1. inDegree[m] \in Nat /\ (inDegree[m] > 0 => inDegree[m] = Cardinality(Owed(m)))
    BY <1>1 DEF TypeOK, DegreeExact
  <2> QED BY <1>10, <1>11, <2>1
<1>14. inDegree' \in [Node -> Nat]
  BY <1>12, <1>13
<1> QED BY <1>4, <1>5, <1>7, <1>8, <1>9, <1>13, <1>14

\* Taking a node keeps the invariant: those it releases are owed nothing any more.
LEMMA PopKept ==
    ASSUME SortInv, Pop
    PROVE  SortInv'
<1>1. /\ TypeOK /\ QueueExact /\ DegreeExact /\ QueueJustified /\ CyclesUntouched
      /\ NeverForced /\ TopologicalOnDags /\ LevelsFollow /\ LevelsExact /\ status = "sorting"
  BY DEF SortInv, Pop
<1>2. PICK n \in queue :
        /\ n \in Node /\ n \notin Listed /\ result' = Append(result, n)
        /\ Listed' = Listed \cup {n}
        /\ \A i \in DOMAIN result : i \in DOMAIN result' /\ result'[i] = result[i]
        /\ DOMAIN result' = DOMAIN result \cup {Len(result) + 1} /\ result'[Len(result) + 1] = n
        /\ inDegree' \in [Node -> Nat]
        /\ \A m \in Node : inDegree[m] = 0 => inDegree'[m] = 0
        /\ \A m \in Node : inDegree[m] > 0 => inDegree'[m] = Cardinality(Owed(m)')
        /\ queue' = (queue \ {n}) \cup {m \in Node : inDegree[m] > 0 /\ inDegree'[m] = 0}
        /\ UNCHANGED <<edges, exempt, level, status>>
  BY PopEffect
<1>3. result \in Seq(Node) /\ Len(result) \in Nat /\ DOMAIN result = 1..Len(result)
  BY <1>1, LenProperties DEF TypeOK
<1>4. TypeOK'
  BY <1>1, <1>2, <1>3, AppendProperties DEF TypeOK
<1>5. \A m \in Node : Incoming(m)' = Incoming(m) /\ Owed(m)' \subseteq Owed(m)
  BY <1>2 DEF Incoming, Owed
<1>6. QueueExact'
  <2>1. \A i \in DOMAIN result : result[i] # n
    BY <1>2 DEF Listed, Range
  <2>2. \A i, j \in DOMAIN result' : result'[i] = result'[j] => i = j
    BY <1>1, <1>2, <2>1 DEF QueueExact
  <2>3. queue' \cap Listed' = {}
    BY <1>1, <1>2 DEF QueueExact, TypeOK
  <2>4. \A m \in Node : inDegree'[m] = 0 <=> m \in queue' \cup Listed'
    BY <1>1, <1>2 DEF QueueExact, TypeOK
  <2> QED BY <2>2, <2>3, <2>4 DEF QueueExact
<1>7. DegreeExact'
  BY <1>1, <1>2 DEF DegreeExact, TypeOK
<1>8. \A m \in queue' : m \in queue \ {n} \/ Owed(m)' = {}
  <2> SUFFICES ASSUME NEW m \in queue', m \notin queue \ {n} PROVE Owed(m)' = {}
    OBVIOUS
  <2>1. m \in Node /\ Cardinality(Owed(m)') = 0
    BY <1>2
  <2>2. IsFiniteSet(Owed(m)')
    BY <1>1, <1>5, <2>1, Finite, FS_Subset
  <2> QED BY <2>1, <2>2, FS_EmptySet
<1>9. QueueJustified'
  BY <1>1, <1>2, <1>5, <1>8 DEF QueueJustified, TypeOK
<1>10. CyclesUntouched'
  <2> SUFFICES ASSUME NEW C \in SUBSET (Node \ exempt), Cyclic(C), NEW m \in C, m \in queue' \cup Listed'
               PROVE  FALSE
    BY <1>2, <1>5 DEF CyclesUntouched, Cyclic
  <2>1. n \notin C /\ C \cap Listed = {} /\ m \notin queue \cup Listed
    BY <1>1 DEF CyclesUntouched
  <2>2. m \in queue' /\ Owed(m)' = {}
    BY <1>2, <1>8, <2>1
  <2>3. PICK e \in Incoming(m) : edges[e].source \in C
    BY DEF Cyclic
  <2>4. edges'[e].source \in Listed'
    BY <1>2, <1>5, <2>2 DEF Owed
  <2> QED BY <1>2, <2>1, <2>3, <2>4
<1>11. Acyclic' => Acyclic
  BY <1>2 DEF Acyclic, Cyclic, Incoming
<1>12. NeverForced'
  BY <1>1, <1>5, <1>8, <1>11 DEF NeverForced, TypeOK
<1>13. TopologicalOnDags'
  <2> SUFFICES ASSUME Acyclic, NEW e \in DOMAIN edges, edges[e].target \in Listed'
               PROVE  Before(edges[e].source, edges[e].target)'
    BY <1>2, <1>11 DEF TopologicalOnDags
  <2>1. CASE edges[e].target \in Listed
    <3>1. PICK i, j \in DOMAIN result : i < j /\ result[i] = edges[e].source /\ result[j] = edges[e].target
      BY <1>1, <2>1 DEF TopologicalOnDags, Before
    <3> QED BY <1>2, <3>1 DEF Before
  <2>2. CASE edges[e].target = n
    <3>1. e \in Incoming(n) /\ Owed(n) = {}
      BY <1>1, <2>2 DEF NeverForced, Incoming
    <3>2. edges[e].source \in Listed
      BY <3>1 DEF Owed
    <3>3. PICK i \in DOMAIN result : result[i] = edges[e].source
      BY <3>2 DEF Listed, Range
    <3>4. i < Len(result) + 1
      BY <1>3, <3>3
    <3> QED BY <1>2, <2>2, <3>3, <3>4 DEF Before
  <2> QED BY <1>2, <2>1, <2>2
<1>14. LevelsFollow'
  <2>1. level = EmptyMap /\ level' = level /\ status' = "sorting"
    BY <1>1, <1>2 DEF LevelsFollow
  <2>2. DOMAIN level' = {} /\ Cardinality({}) = 0 /\ 1..0 = {}
    BY <2>1, FS_EmptySet DEF EmptyMap
  <2>3. Len(result') \in Nat
    BY <1>4, LenProperties DEF TypeOK
  <2> QED BY <2>1, <2>2, <2>3 DEF LevelsFollow
<1>15. LevelsExact'
  BY <1>1, <1>2, <1>11 DEF LevelsExact, LevelsFollow, EmptyMap
<1> QED BY <1>4, <1>6, <1>7, <1>9, <1>10, <1>12, <1>13, <1>14, <1>15 DEF SortInv

\* A node is forced when the queue is empty, so the graph has a cycle.
LEMMA ForceKept ==
    ASSUME SortInv, ForceExempt
    PROVE  SortInv'
<1>1. /\ TypeOK /\ QueueExact /\ DegreeExact /\ CyclesUntouched
      /\ TopologicalOnDags /\ LevelsFollow /\ LevelsExact
      /\ status = "sorting" /\ queue = {} /\ Len(result) # Cardinality(Node)
  BY DEF SortInv, ForceExempt, Stuck
<1>a. ExemptRemaining \subseteq Node /\ ExemptRemaining # {}
  BY <1>1 DEF ForceExempt, ExemptRemaining, TypeOK
<1>b. Smallest(ExemptRemaining) \in ExemptRemaining
  BY <1>1, <1>a, Finite, Extremes
<1>2. PICK n \in ExemptRemaining : n = Smallest(ExemptRemaining)
  BY <1>b
<1>3. /\ inDegree' = [inDegree EXCEPT ![n] = 0] /\ queue' = {n}
      /\ UNCHANGED <<edges, exempt, result, level, status>>
  BY <1>2 DEF ForceExempt
<1>4. n \in exempt /\ n \in Node /\ inDegree[n] > 0 /\ n \notin Listed
  BY <1>1 DEF ExemptRemaining, TypeOK, QueueExact
<1>5. Listed' = Listed /\ \A m \in Node : Incoming(m)' = Incoming(m) /\ Owed(m)' = Owed(m)
  BY <1>3 DEF Listed, Range, Incoming, Owed
<1>6. TypeOK'
  BY <1>1, <1>3, <1>4 DEF TypeOK
<1>7. QueueExact'
  BY <1>1, <1>3, <1>4, <1>5 DEF QueueExact, TypeOK
<1>8. DegreeExact'
  BY <1>1, <1>3, <1>4, <1>5 DEF DegreeExact, TypeOK
<1>9. QueueJustified'
  BY <1>3, <1>4 DEF QueueJustified
<1>10. CyclesUntouched'
  BY <1>1, <1>3, <1>4, <1>5 DEF CyclesUntouched, Cyclic
<1>11. ~Acyclic' /\ ~Acyclic
  <2>1. Listed # Node
    BY <1>1, ListedLength
  <2>2. Cyclic(Node \ Listed)
    BY <1>1, <2>1, LeftIsCyclic
  <2>3. \A C : Cyclic(C)' <=> Cyclic(C)
    BY <1>3 DEF Cyclic, Incoming
  <2>4. Node \ Listed \in SUBSET Node
    OBVIOUS
  <2> QED BY <2>2, <2>3, <2>4 DEF Acyclic
<1>12. LevelsFollow'
  BY <1>1, <1>3 DEF LevelsFollow
<1> QED BY <1>6, <1>7, <1>8, <1>9, <1>10, <1>11, <1>12
        DEF SortInv, NeverForced, TopologicalOnDags, LevelsExact

\* The other steps of the sort only say how it ended.
LEMMA SortEnds ==
    ASSUME SortInv, UNCHANGED <<edges, exempt, inDegree, queue, result>>
    PROVE  /\ QueueExact' /\ DegreeExact' /\ QueueJustified' /\ CyclesUntouched'
           /\ NeverForced' /\ TopologicalOnDags' /\ Listed' = Listed
           /\ (Acyclic' <=> Acyclic) /\ \A n : Incoming(n)' = Incoming(n)
<1>1. /\ Listed' = Listed /\ \A n : Incoming(n)' = Incoming(n) /\ Owed(n)' = Owed(n)
  BY DEF Listed, Range, Incoming, Owed
<1>2. \A C : Cyclic(C)' <=> Cyclic(C)
  BY <1>1 DEF Cyclic
<1>3. Acyclic' <=> Acyclic
  BY <1>2 DEF Acyclic
<1>4. \A u, v : Before(u, v)' <=> Before(u, v)
  BY DEF Before
<1>5. QueueExact' /\ DegreeExact'
  BY <1>1 DEF SortInv, QueueExact, DegreeExact
<1>6. QueueJustified' /\ CyclesUntouched'
  BY <1>1, <1>2 DEF SortInv, QueueJustified, CyclesUntouched
<1>7. NeverForced' /\ TopologicalOnDags'
  BY <1>1, <1>3, <1>4 DEF SortInv, NeverForced, TopologicalOnDags
<1> QED BY <1>1, <1>3, <1>5, <1>6, <1>7

\* The sort gives up only over nodes that wait for one another.
LEMMA CycleDetectedKept ==
    ASSUME SortInv, CycleDetected
    PROVE  SortInv'
<1>1. /\ status = "sorting" /\ queue = {} /\ Len(result) # Cardinality(Node) /\ ExemptRemaining = {}
      /\ status' = "cycle" /\ UNCHANGED <<edges, exempt, inDegree, queue, result, level>>
  BY DEF CycleDetected, Stuck
<1>2. TypeOK' /\ Listed # Node
  BY <1>1, ListedLength DEF SortInv, TypeOK
<1>3. ExemptRemaining' = {}
  BY <1>1 DEF ExemptRemaining
<1>4. LevelsFollow'
  BY <1>1, <1>2, <1>3, SortEnds DEF SortInv, LevelsFollow
<1>5. LevelsExact'
  BY <1>1, SortEnds DEF SortInv, LevelsExact
<1> QED BY <1>1, <1>2, <1>4, <1>5, SortEnds DEF SortInv

\* A complete order starts the computation of the levels.
LEMMA SortedKept ==
    ASSUME SortInv, Sorted
    PROVE  SortInv'
<1>1. /\ status = "sorting" /\ queue = {} /\ Len(result) = Cardinality(Node)
      /\ status' = "levels" /\ UNCHANGED <<edges, exempt, inDegree, queue, result, level>>
  BY DEF Sorted
<1>2. TypeOK' /\ Listed = Node
  BY <1>1, ListedLength DEF SortInv, TypeOK
<1>3. LevelsFollow'
  BY <1>1, <1>2, SortEnds DEF SortInv, LevelsFollow
<1>4. LevelsExact'
  BY <1>1, SortEnds DEF SortInv, LevelsExact
<1> QED BY <1>1, <1>2, <1>3, <1>4, SortEnds DEF SortInv

\* The levels are complete when every node has one.
LEMMA ScheduledKept ==
    ASSUME SortInv, Scheduled
    PROVE  SortInv'
<1>1. /\ status = "levels" /\ DOMAIN level = Node
      /\ status' = "done" /\ UNCHANGED <<edges, exempt, inDegree, queue, result, level>>
  BY DEF Scheduled
<1>2. TypeOK'
  BY <1>1 DEF SortInv, TypeOK
<1>3. LevelsFollow'
  BY <1>1, SortEnds DEF SortInv, LevelsFollow
<1>4. LevelsExact'
  BY <1>1, SortEnds DEF SortInv, LevelsExact
<1> QED BY <1>1, <1>2, <1>3, <1>4, SortEnds DEF SortInv

\* The next node of the list gets its level; without cycles, everything it
\* depends on has one.
LEMMA PlaceKept ==
    ASSUME SortInv, Place
    PROVE  SortInv'
<1> DEFINE k == Cardinality(DOMAIN level)
<1>1. /\ TypeOK /\ QueueExact /\ TopologicalOnDags /\ LevelsFollow /\ LevelsExact
      /\ status = "levels" /\ DOMAIN level # Node
      /\ UNCHANGED <<edges, exempt, inDegree, queue, result, status>>
  BY DEF SortInv, Place
<1>2. /\ Listed = Node /\ k <= Len(result) /\ DOMAIN level = {result[i] : i \in 1..k}
  BY <1>1 DEF LevelsFollow
<1>3. DOMAIN level \subseteq Node /\ IsFiniteSet(DOMAIN level) /\ k \in Nat /\ IsMap(level, Node, Nat)
  BY <1>1, Finite, FS_CardinalityType DEF TypeOK, IsMap
<1>4. Len(result) \in Nat /\ DOMAIN result = 1..Len(result) /\ result \in [1..Len(result) -> Node]
  BY <1>1, LenProperties DEF TypeOK
<1> HIDE DEF k
<1>5. k # Len(result)
  BY <1>1, <1>2, <1>4 DEF Listed, Range
<1>6. k + 1 \in DOMAIN result /\ 1..(k + 1) = 1..k \cup {k + 1} /\ 1..k \subseteq DOMAIN result
      /\ k + 1 \notin 1..k /\ k + 1 <= Len(result)
  <2>1. k \in Nat /\ Len(result) \in Nat /\ k < Len(result)
    BY <1>2, <1>3, <1>4, <1>5
  <2>2. 1..(k + 1) = 1..k \cup {k + 1}
    BY <2>1
  <2> QED BY <1>4, <2>1, <2>2
<1>7. PICK n \in Node : n = result[k + 1]
  BY <1>4, <1>6
<1>8. n \notin DOMAIN level
  BY <1>1, <1>2, <1>6, <1>7 DEF QueueExact
<1> DEFINE placed == {e \in Incoming(n) : edges[e].source \in DOMAIN level}
           above  == {level[edges[e].source] + 1 : e \in placed}
           new    == IF above = {} THEN 0 ELSE Largest(above)
<1>9. level' = level ++ One(n, new)
  BY <1>7 DEF Place, k
<1>10. above \subseteq Nat /\ IsFiniteSet(above)
  <2>1. \A m \in DOMAIN level : level[m] \in Nat
    BY <1>3 DEF IsMap
  <2>2. above \subseteq Nat
    BY <2>1
  <2>3. IsFiniteSet(placed)
    BY <1>1, Finite, FS_Subset
  <2> DEFINE f == [e \in placed |-> level[edges[e].source] + 1]
  <2>4. f \in Surjection(placed, above)
    BY DEF Surjection
  <2> HIDE DEF f, placed, above
  <2> QED BY <2>2, <2>3, <2>4, FS_Surjection
<1>11. /\ new \in Nat
       /\ \A h \in above : h <= new
       /\ new > 0 => new \in above
  <2>1. CASE above = {}
    BY <2>1
  <2>2. CASE above # {}
    BY <1>10, <2>2, Extremes
  <2> QED BY <2>1, <2>2
<1> HIDE DEF new
<1>12. /\ DOMAIN level' = DOMAIN level \cup {n} /\ level'[n] = new
       /\ \A m \in DOMAIN level : level'[m] = level[m] /\ m # n
  BY <1>8, <1>9 DEF ++, One
<1>13. IsMap(level', Node, Nat)
  BY <1>3, <1>9, <1>11 DEF IsMap, ++, One
<1>14. TypeOK'
  BY <1>1, <1>13 DEF TypeOK
<1>15. Cardinality(DOMAIN level') = k + 1
  BY <1>3, <1>8, <1>12, FS_AddElement DEF k
<1>16. LevelsFollow'
  <2>1. DOMAIN level' = {result'[i] : i \in 1..(k + 1)}
    BY <1>1, <1>2, <1>6, <1>7, <1>12
  <2>2. queue' = {} /\ Listed' = Node /\ status' = "levels" /\ k + 1 <= Len(result')
    BY <1>1, <1>6, SortEnds DEF LevelsFollow
  <2> QED BY <1>15, <2>1, <2>2 DEF LevelsFollow
<1>17. LevelsExact'
  <2> SUFFICES ASSUME Acyclic, NEW m \in DOMAIN level'
               PROVE  /\ \A e \in Incoming(m) : /\ edges[e].source \in DOMAIN level'
                                               /\ level'[edges[e].source] < level'[m]
                      /\ level'[m] > 0 => \E e \in Incoming(m) : level'[edges[e].source] = level'[m] - 1
    BY <1>1, SortEnds DEF LevelsExact
  <2>1. CASE m \in DOMAIN level
    BY <1>1, <1>12, <2>1 DEF LevelsExact
  <2>2. CASE m = n
    <3>1. ASSUME NEW e \in Incoming(n) PROVE e \in placed
      <4>1. Before(edges[e].source, n)
        BY <1>1, <1>2 DEF TopologicalOnDags, Incoming
      <4>2. PICK i, j \in DOMAIN result : i < j /\ result[i] = edges[e].source /\ result[j] = n
        BY <4>1 DEF Before
      <4>3. j = k + 1
        BY <1>1, <1>6, <1>7, <4>2 DEF QueueExact
      <4>4. i \in 1..k
        BY <1>3, <1>4, <4>2, <4>3
      <4> QED BY <1>2, <4>2, <4>4
    <3>2. ASSUME NEW e \in Incoming(n)
          PROVE  edges[e].source \in DOMAIN level /\ level[edges[e].source] < new
      <4>1. edges[e].source \in DOMAIN level /\ level[edges[e].source] + 1 \in above
        BY <3>1
      <4>2. level[edges[e].source] \in Nat
        BY <1>3, <4>1 DEF IsMap
      <4> HIDE DEF above
      <4> QED BY <1>11, <4>1, <4>2
    <3>3. ASSUME new > 0 PROVE \E e \in Incoming(n) : level'[edges[e].source] = new - 1
      <4>1. new \in above
        BY <1>11, <3>3
      <4>2. PICK e \in placed : new = level[edges[e].source] + 1
        BY <4>1
      <4>3. edges[e].source \in DOMAIN level /\ level[edges[e].source] \in Nat /\ e \in Incoming(n)
        BY <1>3 DEF IsMap
      <4>4. level'[edges[e].source] = new - 1
        BY <1>12, <4>2, <4>3
      <4> QED BY <4>3, <4>4
    <3> QED BY <1>12, <2>2, <3>2, <3>3
  <2> QED BY <1>12, <2>1, <2>2
<1> QED BY <1>1, <1>14, <1>16, <1>17, SortEnds DEF SortInv

\* At the start every node is owed all its incoming edges.
LEMMA SortStart ==
    ASSUME Init
    PROVE  SortInv
<1>1. /\ IsMap(edges, EdgeId, Edge) /\ exempt \subseteq Node
      /\ inDegree = [n \in Node |-> Cardinality(Incoming(n))]
      /\ queue = {n \in Node : inDegree[n] = 0}
      /\ result = <<>> /\ level = EmptyMap /\ status = "sorting"
  BY DEF Init, IsMap
<1>2. result \in Seq(Node) /\ Len(result) = 0 /\ DOMAIN result = {} /\ Listed = {}
  BY <1>1, EmptySeq, LenProperties DEF Listed, Range
<1>3. IsMap(level, Node, Nat) /\ DOMAIN level = {} /\ Cardinality({}) = 0 /\ 1..0 = {}
  BY <1>1, FS_EmptySet DEF IsMap, EmptyMap
<1>4. \A n \in Node : /\ IsFiniteSet(Incoming(n)) /\ Cardinality(Incoming(n)) \in Nat
                      /\ Owed(n) = Incoming(n)
  <2> SUFFICES ASSUME NEW n \in Node
               PROVE  /\ IsFiniteSet(Incoming(n)) /\ Cardinality(Incoming(n)) \in Nat
                      /\ Owed(n) = Incoming(n)
    OBVIOUS
  <2>1. Incoming(n) \in SUBSET EdgeId
    BY <1>1 DEF Incoming, IsMap
  <2>2. Owed(n) = Incoming(n)
    BY <1>2 DEF Owed
  <2> QED BY <2>1, <2>2, EdgeIdAssumption, FS_Subset, FS_CardinalityType
<1>5. TypeOK
  BY <1>1, <1>2, <1>3, <1>4 DEF TypeOK
<1>6. QueueExact /\ DegreeExact
  BY <1>1, <1>2, <1>4 DEF QueueExact, DegreeExact
<1>7. \A n \in queue : Owed(n) = {}
  BY <1>1, <1>4, FS_EmptySet
<1>8. QueueJustified /\ NeverForced
  BY <1>7 DEF QueueJustified, NeverForced
<1>9. CyclesUntouched
  <2> SUFFICES ASSUME NEW C \in SUBSET (Node \ exempt), Cyclic(C), NEW n \in C, n \in queue
               PROVE  FALSE
    BY <1>2 DEF CyclesUntouched
  <2> QED BY <1>4, <1>7 DEF Cyclic
<1>10. TopologicalOnDags
  BY <1>2 DEF TopologicalOnDags
<1>11. LevelsFollow /\ LevelsExact
  BY <1>1, <1>2, <1>3 DEF LevelsFollow, LevelsExact
<1> QED BY <1>5, <1>6, <1>8, <1>9, <1>10, <1>11 DEF SortInv

\* Every step keeps the invariant.
LEMMA SortStep ==
    ASSUME SortInv, [Next]_vars
    PROVE  SortInv'
<1>1. CASE UNCHANGED vars
  <2>1. UNCHANGED <<edges, exempt, inDegree, queue, result, level, status>>
    BY <1>1 DEF vars
  <2>2. TypeOK' /\ ExemptRemaining' = ExemptRemaining
    BY <2>1 DEF SortInv, TypeOK, ExemptRemaining
  <2>3. LevelsFollow' /\ LevelsExact'
    BY <2>1, <2>2, SortEnds DEF SortInv, LevelsFollow, LevelsExact
  <2> QED BY <2>1, <2>2, <2>3, SortEnds DEF SortInv
<1> QED BY <1>1, PopKept, ForceKept, CycleDetectedKept, SortedKept, PlaceKept, ScheduledKept DEF Next

\* What the invariant says of a sort that has ended.
LEMMA VerdictFollows ==
    ASSUME SortInv
    PROVE  CycleVerdictExact /\ LevelsAreLongestChains
<1> DEFINE bad == \E C \in SUBSET (Node \ exempt) : Cyclic(C)
<1>1. ASSUME status = "cycle" PROVE bad
  <2>1. queue = {} /\ Listed # Node /\ ExemptRemaining = {} /\ TypeOK /\ QueueExact /\ DegreeExact
    BY <1>1 DEF SortInv, LevelsFollow
  <2>2. Cyclic(Node \ Listed)
    BY <2>1, LeftIsCyclic
  <2>3. Node \ Listed \subseteq Node \ exempt
    BY <2>1, WaitingIsOwed DEF ExemptRemaining
  <2> QED BY <2>2, <2>3
<1>2. ASSUME status = "done" PROVE ~bad /\ Listed = Node
  <2>1. Listed = Node
    BY <1>2 DEF SortInv, LevelsFollow
  <2>2. ASSUME NEW C \in SUBSET (Node \ exempt), Cyclic(C) PROVE FALSE
    <3>1. C \cap Listed = {} /\ C # {}
      BY <2>2 DEF SortInv, CyclesUntouched, Cyclic
    <3> QED BY <2>1, <3>1
  <2> QED BY <2>1, <2>2
<1>3. LevelsAreLongestChains
  BY DEF SortInv, LevelsFollow, LevelsExact, LevelsAreLongestChains
<1> QED BY <1>1, <1>2, <1>3 DEF CycleVerdictExact

\* For every multigraph and every set of exempt nodes: without cycles the
\* order is topological at every moment and the levels are the longest
\* chains; a cycle is reported just when one avoids every exempt node.
THEOREM SortAlwaysExact ==
    Spec => [](TypeOK /\ TopologicalOnDags /\ CycleVerdictExact /\ LevelsAreLongestChains)
<1>1. Init => SortInv
  BY SortStart
<1>2. SortInv /\ [Next]_vars => SortInv'
  BY SortStep
<1>3. SortInv => TypeOK /\ TopologicalOnDags /\ CycleVerdictExact /\ LevelsAreLongestChains
  BY VerdictFollows DEF SortInv
<1> QED BY <1>1, <1>2, <1>3, PTL DEF Spec

-----------------------------------------------------------------------------
(* The refinement *)

Precedes == {<<edges[e].source, edges[e].target>> : e \in DOMAIN edges}
Verdict  == CASE status = "sorting" -> "pending"
              [] status = "cycle"   -> "cyclic"
              [] OTHER              -> "sorted"

\* What waits, and what is ready, by degrees and by precedence.
LEMMA ReadyIsUnowed ==
    ASSUME SortInv
    PROVE  /\ Order!Waiting = Node \ Listed
           /\ Order!Ready = {n \in Node \ Listed : Owed(n) = {}}
<1>1. Order!Waiting = Node \ Listed
  BY DEF Order!Waiting, Order!Range, Listed, Range
<1>2. \A e \in DOMAIN edges : edges[e].source \in Node
  BY DEF SortInv, TypeOK, IsMap, Edge
<1>3. ASSUME NEW n
      PROVE  (\A m \in Node : <<m, n>> \in Precedes => m \in Listed) <=> Owed(n) = {}
  BY <1>2 DEF Precedes, Owed, Incoming
<1>4. Order!Ready = {n \in Node \ Listed : \A m \in Node : <<m, n>> \in Precedes => m \in Listed}
  BY <1>1 DEF Order!Ready, Order!Range, Listed, Range, Precedes
<1> QED BY <1>1, <1>3, <1>4

\* Every step lists a node that may be listed, concludes, or does nothing
\* that the order shows.
LEMMA StepOrders ==
    ASSUME SortInv, [Next]_vars
    PROVE  [Order!Next]_(Order!vars)
<1>1. ASSUME UNCHANGED <<edges, exempt, result>>, Verdict' = Verdict
      PROVE  UNCHANGED Order!vars
  BY <1>1 DEF Order!vars, Verdict
<1>2. CASE Pop
  <2>1. PICK n \in queue :
          /\ n \in Node /\ n \notin Listed /\ result' = Append(result, n)
          /\ UNCHANGED <<edges, exempt, status>>
    BY <1>2, PopEffect
  <2>2. status = "sorting"
    BY <1>2 DEF Pop
  <2>3. Order!List(n)
    BY <2>1, <2>2 DEF Order!List
  <2>4. CASE Owed(n) = {}
    BY <2>1, <2>3, <2>4, ReadyIsUnowed DEF Order!Next
  <2>5. CASE n \in exempt /\ queue = {n} /\ Owed(n) # {}
    <3>1. \A m \in Node \ Listed : Owed(m) # {}
      BY <2>5, WaitingIsOwed DEF SortInv, Owed
    <3>2. Order!Ready = {} /\ n \in Order!Waiting \cap exempt
      BY <2>1, <2>5, <3>1, ReadyIsUnowed
    <3> QED BY <2>3, <3>2 DEF Order!Next
  <2> QED BY <2>4, <2>5 DEF SortInv, QueueJustified
<1>3. CASE ForceExempt
  <2>1. UNCHANGED <<edges, exempt, result, status>>
    BY <1>3 DEF ForceExempt
  <2>2. Verdict' = Verdict
    BY <2>1 DEF Verdict
  <2> QED BY <1>1, <2>1, <2>2
<1>4. CASE CycleDetected
  <2>1. /\ status = "sorting" /\ status' = "cycle" /\ queue = {} /\ Listed # Node
        /\ ExemptRemaining = {} /\ UNCHANGED <<edges, exempt, result>>
    BY <1>4, ListedLength DEF CycleDetected, Stuck, SortInv
  <2>2. Order!Waiting # {}
    BY <2>1, ReadyIsUnowed, ListedLength DEF SortInv
  <2>3. Order!Ready = {} /\ Order!Waiting \cap exempt = {}
    BY <2>1, WaitingIsOwed, ReadyIsUnowed DEF SortInv, ExemptRemaining, Owed
  <2>4. Order!Conclude("cyclic")
    BY <2>1 DEF Order!Conclude
  <2> QED BY <2>2, <2>3, <2>4 DEF Order!Next
<1>5. CASE Sorted
  <2>1. /\ status = "sorting" /\ status' = "levels" /\ Listed = Node
        /\ UNCHANGED <<edges, exempt, result>>
    BY <1>5, ListedLength DEF Sorted, SortInv
  <2>2. Order!Waiting = {} /\ Order!Conclude("sorted")
    BY <2>1, ReadyIsUnowed DEF Order!Conclude
  <2> QED BY <2>2 DEF Order!Next
<1>6. CASE Place \/ Scheduled \/ UNCHANGED vars
  <2>1. UNCHANGED <<edges, exempt, result>> /\ Verdict' = Verdict
    BY <1>6 DEF Place, Scheduled, vars, Verdict
  <2> QED BY <1>1, <2>1
<1> QED BY <1>2, <1>3, <1>4, <1>5, <1>6 DEF Next

\* Whatever the graph, the counters and the queue list nodes as the precedence
\* relation allows, and end as it says.
THEOREM OrderImplemented == Spec => ImplementsOrder
<1>1. Init => Order!Init
  <2> SUFFICES ASSUME Init PROVE Order!Init
    OBVIOUS
  <2>1. SortInv /\ result = <<>> /\ status = "sorting"
    BY SortStart DEF Init
  <2> QED BY <2>1 DEF Order!Init, SortInv, TypeOK, IsMap, Edge
<1>2. Init => SortInv
  BY SortStart
<1>3. SortInv /\ [Next]_vars => SortInv'
  BY SortStep
<1>4. SortInv /\ [Next]_vars => [Order!Next]_(Order!vars)
  BY StepOrders
<1> QED BY <1>1, <1>2, <1>3, <1>4, PTL DEF Spec, ImplementsOrder, Order!Spec
=============================================================================
