--------------------------- MODULE DecisionLemmas ---------------------------
(***************************************************************************)
(* Every operation on a decision graph keeps it legal: well typed, with a  *)
(* history that explains its states and records only valid transitions.    *)
(* That the entries are Lawful is what makes the rest inductive, and what  *)
(* makes commitments Binding.                                              *)
(***************************************************************************)
EXTENDS DecisionOps, TLAPS

Legal(g) == IsDecisionGraph(g) /\ Explained(g) /\ Lawful(g)

\* The entry that transition appends for a decision of the graph.
Entry(g, id, to, v) ==
    [decision |-> id, from |-> g.decisions[id].state, to |-> to,
     fromValue |-> g.decisions[id].value, toValue |-> v, sequence |-> g.next]

\* h is g after one recorded move of id, whatever becomes of triggers.
Moved(g, h, id, to, v) ==
    /\ h.history = Append(g.history, Entry(g, id, to, v))
    /\ h.next = g.next + 1
    /\ DOMAIN h.decisions = DOMAIN g.decisions
    /\ h.decisions[id].state = to /\ h.decisions[id].value = v
    /\ \A x \in DOMAIN g.decisions \ {id} : h.decisions[x] = g.decisions[x]

\* h has the history of g, and of its decisions none that is new or that has
\* another state or value.
Quiet(g, h) ==
    /\ h.history = g.history /\ h.next = g.next
    /\ DOMAIN h.decisions \subseteq DOMAIN g.decisions
    /\ \A x \in DOMAIN h.decisions : /\ h.decisions[x].state = g.decisions[x].state
                                     /\ h.decisions[x].value = g.decisions[x].value

-----------------------------------------------------------------------------
\* The graph that DecisionGraph::new makes is legal.
LEMMA NoDecisionsLegal == Legal(NoDecisions)
BY DEF Legal, NoDecisions, IsDecisionGraph, IsMap, EmptyMap,
       Explained, Numbered, Chained, EndsAtState, Lawful

\* The last thing transition did to a decision is what its state shows.
LEMMA TransitionedMoves ==
  ASSUME NEW g, IsDecisionGraph(g), NEW id \in DecisionId, NEW to \in State, NEW v \in Value,
         CanTransition(g, id, to)
  PROVE  LET h == Transitioned(g, id, to, v)
         IN IsDecisionGraph(h) /\ Moved(g, h, id, to, v)
<1> DEFINE h == Transitioned(g, id, to, v)
<1>1. id \in DOMAIN g.decisions /\ g.decisions[id] \in Decision
  BY DEF CanTransition, IsDecisionGraph, IsMap
<1>2. Entry(g, id, to, v) \in Transition
  BY <1>1 DEF Entry, Decision, Transition, IsDecisionGraph
<1>3. /\ h.history = Append(g.history, Entry(g, id, to, v))
      /\ h.next = g.next + 1
      /\ h.decisions = [g.decisions EXCEPT ![id] = [[@ EXCEPT !.state = to] EXCEPT !.value = v]]
  BY <1>1 DEF Transitioned, Entry, IsDecisionGraph, Decision, IsMap
<1>4. IsMap(h.decisions, DecisionId, Decision)
  BY <1>1, <1>3 DEF IsMap, IsDecisionGraph, Decision
<1>5. IsDecisionGraph(h)
  <2>1. h.history \in Seq(Transition) /\ h.next \in Nat
    BY <1>2, <1>3 DEF IsDecisionGraph
  <2>2. h \in [decisions : {h.decisions}, history : {h.history}, next : {h.next}]
    BY DEF IsDecisionGraph, Transitioned
  <2> QED BY <1>4, <2>1, <2>2 DEF IsDecisionGraph
<1>6. Moved(g, h, id, to, v)
  BY <1>1, <1>3 DEF Moved, IsDecisionGraph, IsMap, Decision
<1> QED BY <1>5, <1>6

\* defer adds the trigger to a recorded move.
LEMMA DeferredMoves ==
  ASSUME NEW g, IsDecisionGraph(g), NEW id \in DecisionId, NEW v \in Value,
         NEW t \in DecisionId \cup {None}, CanTransition(g, id, "Deferred")
  PROVE  LET h == Deferred(g, id, v, t)
         IN IsDecisionGraph(h) /\ Moved(g, h, id, "Deferred", v)
<1> DEFINE h == Transitioned(g, id, "Deferred", v)
           k == [h EXCEPT !.decisions[id].trigger = t]
<1>1. IsDecisionGraph(h) /\ Moved(g, h, id, "Deferred", v)
  BY TransitionedMoves DEF State
<1>2. id \in DOMAIN g.decisions
  BY DEF CanTransition
<1> HIDE DEF h
<1>3. id \in DOMAIN h.decisions /\ h.decisions[id] \in Decision
  BY <1>1, <1>2 DEF IsDecisionGraph, IsMap, Moved
<1>4. IsDecisionGraph(k)
  <2>1. IsMap(k.decisions, DecisionId, Decision)
    BY <1>1, <1>3 DEF IsDecisionGraph, IsMap, Decision
  <2>2. k.history = h.history /\ k.next = h.next
        /\ k \in [decisions : {k.decisions}, history : {k.history}, next : {k.next}]
    BY <1>1 DEF IsDecisionGraph
  <2> QED BY <1>1, <2>1, <2>2 DEF IsDecisionGraph
<1>5. Moved(g, k, id, "Deferred", v)
  BY <1>1, <1>3 DEF Moved, IsDecisionGraph, IsMap, Decision
<1>6. Deferred(g, id, v, t) = IF t = None THEN h ELSE k
  BY DEF Deferred, h
<1> QED BY <1>1, <1>4, <1>5, <1>6

-----------------------------------------------------------------------------
\* A recorded move that can_transition_to accepts keeps a graph legal.
LEMMA MovedLegal ==
  ASSUME NEW g, Legal(g), NEW h, IsDecisionGraph(h),
         NEW id \in DecisionId, NEW to \in State, NEW v \in Value,
         CanTransition(g, id, to), Moved(g, h, id, to, v)
  PROVE  Legal(h)
<1> DEFINE n == Len(g.history)
           e == Entry(g, id, to, v)
<1>1. g.history \in Seq(Transition) /\ n \in Nat /\ DOMAIN g.history = 1..n
  BY DEF Legal, IsDecisionGraph
<1>2. h.history = Append(g.history, e) /\ Len(h.history) = n + 1
      /\ DOMAIN h.history = 1..(n + 1) /\ h.history[n + 1] = e
      /\ \A i \in 1..n : h.history[i] = g.history[i]
  BY <1>1 DEF Moved
<1>3. /\ e.decision = id /\ e.from = g.decisions[id].state /\ e.to = to
      /\ e.fromValue = g.decisions[id].value /\ e.toValue = v /\ e.sequence = g.next
  BY DEF Entry
<1> HIDE DEF e
<1>4. Numbered(g) /\ Chained(g) /\ EndsAtState(g) /\ Lawful(g)
  BY DEF Legal, Explained
<1>5. Numbered(h)
  BY <1>1, <1>2, <1>3, <1>4 DEF Numbered, Moved
<1>6. Lawful(h)
  BY <1>1, <1>2, <1>3, <1>4 DEF Lawful, CanTransition
<1>7. Chained(h)
  <2> SUFFICES ASSUME NEW i \in 1..(n + 1), NEW j \in 1..(n + 1), Follows(h, i, j)
               PROVE  /\ h.history[j].from = h.history[i].to
                      /\ h.history[j].fromValue = h.history[i].toValue
    BY <1>2 DEF Chained
  <2>1. CASE j = n + 1
    <3>1. i \in 1..n /\ h.history[i] = g.history[i]
      BY <1>1, <1>2, <2>1 DEF Follows
    <3>2. Latest(g, i, id)
      BY <1>1, <1>2, <1>3, <2>1, <3>1 DEF Latest, Follows
    <3>3. id \in DOMAIN g.decisions
      BY DEF CanTransition
    <3> QED BY <1>1, <1>2, <1>3, <1>4, <2>1, <3>1, <3>2, <3>3 DEF EndsAtState
  <2>2. CASE j # n + 1
    <3>1. i \in 1..n /\ j \in 1..n
      BY <1>1, <2>2 DEF Follows
    <3>2. Follows(g, i, j)
      BY <1>1, <1>2, <3>1 DEF Follows
    <3> QED BY <1>1, <1>2, <1>4, <3>1, <3>2 DEF Chained
  <2> QED BY <2>1, <2>2
<1>8. EndsAtState(h)
  <2> SUFFICES ASSUME NEW x \in DOMAIN h.decisions, NEW i \in 1..(n + 1), Latest(h, i, x)
               PROVE  /\ h.decisions[x].state = h.history[i].to
                      /\ h.decisions[x].value = h.history[i].toValue
    BY <1>2 DEF EndsAtState
  <2>1. CASE x = id
    <3>1. i = n + 1
      BY <1>1, <1>2, <1>3, <2>1 DEF Latest
    <3> QED BY <1>2, <1>3, <2>1, <3>1 DEF Moved
  <2>2. CASE x # id
    <3>1. i \in 1..n
      BY <1>1, <1>2, <1>3, <2>2 DEF Latest
    <3>2. Latest(g, i, x)
      BY <1>1, <1>2, <3>1 DEF Latest
    <3>3. x \in DOMAIN g.decisions /\ h.decisions[x] = g.decisions[x]
      BY <2>2 DEF Moved
    <3> QED BY <1>1, <1>2, <1>4, <3>1, <3>2, <3>3 DEF EndsAtState
  <2> QED BY <2>1, <2>2
<1> QED BY <1>5, <1>6, <1>7, <1>8 DEF Legal, Explained

\* transition keeps a graph legal ...
LEMMA TransitionedLegal ==
  ASSUME NEW g, Legal(g), NEW id \in DecisionId, NEW to \in State, NEW v \in Value,
         CanTransition(g, id, to)
  PROVE  Legal(Transitioned(g, id, to, v))
BY TransitionedMoves, MovedLegal DEF Legal

\* ... and so does a deferral, whichever trigger it names.
LEMMA DeferredLegal ==
  ASSUME NEW g, Legal(g), NEW id \in DecisionId, NEW v \in Value,
         NEW t \in DecisionId \cup {None}, CanTransition(g, id, "Deferred")
  PROVE  Legal(Deferred(g, id, v, t))
<1>1. "Deferred" \in State
  BY DEF State
<1> QED BY <1>1, DeferredMoves, MovedLegal DEF Legal

\* So does a change that the history need not know of.
LEMMA QuietLegal ==
  ASSUME NEW g, Legal(g), NEW h, IsDecisionGraph(h), Quiet(g, h)
  PROVE  Legal(h)
<1>1. EndsAtState(h)
  BY DEF Quiet, Legal, Explained, EndsAtState, Latest
<1>2. Numbered(h) /\ Chained(h) /\ Lawful(h)
  BY DEF Quiet, Legal, Explained, Numbered, Chained, Lawful, Follows
<1> QED BY <1>1, <1>2 DEF Legal, Explained

\* And so does a new decision, if the history has no entry of its id.
LEMMA AddedLegal ==
  ASSUME NEW g, Legal(g), NEW id \in DecisionId, NEW d \in Decision,
         \A i \in DOMAIN g.history : g.history[i].decision # id
  PROVE  Legal([g EXCEPT !.decisions = @ ++ One(id, d)])
<1> DEFINE h == [g EXCEPT !.decisions = @ ++ One(id, d)]
<1>1. /\ h.history = g.history /\ h.next = g.next
      /\ h.decisions = g.decisions ++ One(id, d)
      /\ h \in [decisions : {h.decisions}, history : Seq(Transition), next : Nat]
  BY DEF Legal, IsDecisionGraph
<1> HIDE DEF h
<1>2. IsMap(h.decisions, DecisionId, Decision)
  BY <1>1 DEF Legal, IsDecisionGraph, IsMap, ++, One
<1>3. EndsAtState(h)
  <2> SUFFICES ASSUME NEW x \in DOMAIN h.decisions, NEW i \in DOMAIN g.history, Latest(h, i, x)
               PROVE  /\ h.decisions[x].state = g.history[i].to
                      /\ h.decisions[x].value = g.history[i].toValue
    BY <1>1 DEF EndsAtState
  <2>1. x # id
    BY <1>1 DEF Latest
  <2>2. x \in DOMAIN g.decisions /\ h.decisions[x] = g.decisions[x]
    BY <1>1, <2>1 DEF ++, One
  <2>3. Latest(g, i, x)
    BY <1>1 DEF Latest
  <2> QED BY <2>2, <2>3 DEF Legal, Explained, EndsAtState
<1>4. Numbered(h) /\ Chained(h) /\ Lawful(h)
  BY <1>1 DEF Legal, Explained, Numbered, Chained, Lawful, Follows
<1>5. Legal(h)
  BY <1>1, <1>2, <1>3, <1>4 DEF Legal, Explained, IsDecisionGraph
<1> QED BY <1>5 DEF h

\* After an entry comes what the state it led to allows.
LEMMA LegalBinds ==
  ASSUME NEW g, Legal(g) PROVE Binding(g)
BY DEF Legal, Explained, Chained, Lawful, Binding, Follows, ValidTransitions
=============================================================================
