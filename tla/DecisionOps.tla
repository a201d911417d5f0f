----------------------------- MODULE DecisionOps -----------------------------
(***************************************************************************)
(* The operations of torc-spec's DecisionGraph as operators on a value     *)
(* (crates/torc-spec/src/graph.rs, decision.rs, history.rs, conflict.rs,   *)
(* impact.rs).  A decision keeps what the operations read and write: its   *)
(* state, its value, the decisions it depends on and its revisit trigger.  *)
(* Titles, authors, rationales, timestamps and assumptions are left out.   *)
(***************************************************************************)
EXTENDS Naturals, Sequences, Maps

CONSTANTS DecisionId,  \* the UUIDs that Decision::new can draw
          Chosen,      \* the definite values a decision can be given
          None         \* Option::None

ASSUME NoTrigger == None \notin DecisionId

State == {"Unexplored", "Deferred", "Exploring", "Tentative",
          "Committed", "Derived", "Conflicted"}
Value == Chosen \cup {"provisional", "unresolved"}

Decision   == [state : State, value : Value,
               dependsOn : SUBSET DecisionId, trigger : DecisionId \cup {None}]
Transition == [decision : DecisionId, from : State, to : State,
               fromValue : Value, toValue : Value, sequence : Nat]

IsDecisionGraph(g) ==
    /\ g \in [decisions : {g.decisions}, history : Seq(Transition), next : Nat]
    /\ IsMap(g.decisions, DecisionId, Decision)

NoDecisions == [decisions |-> EmptyMap, history |-> <<>>, next |-> 1]

\* Fault: a commitment can be softened without a conflict.
ValidTransitions_Soft(s) ==
    CASE s = "Unexplored" -> {"Deferred", "Exploring", "Tentative", "Committed"}
      [] s = "Derived"    -> {"Conflicted"}
      [] s = "Committed"  -> {"Tentative", "Conflicted"}
      [] s \in {"Deferred", "Exploring", "Tentative", "Conflicted"} ->
           {"Deferred", "Exploring", "Tentative", "Committed", "Conflicted"}

ValidTransitions(s) ==
    CASE s = "Unexplored" -> {"Deferred", "Exploring", "Tentative", "Committed"}
      [] s = "Deferred"   -> {"Exploring", "Tentative", "Committed", "Conflicted"}
      [] s = "Exploring"  -> {"Deferred", "Tentative", "Committed", "Conflicted"}
      [] s = "Tentative"  -> {"Exploring", "Committed", "Deferred", "Conflicted"}
      [] s = "Conflicted" -> {"Exploring", "Tentative", "Committed", "Deferred"}
      [] s \in {"Committed", "Derived"} -> {"Conflicted"}

CanTransition(g, id, to) ==
    id \in DOMAIN g.decisions /\ to \in ValidTransitions(g.decisions[id].state)

\* Faults: the sequence number is never advanced; or the entry has state and
\* value of the decision in each other's place.
Transitioned_SameNumber(g, id, to, v) ==
    [g EXCEPT
       !.history = Append(@, [decision |-> id, from |-> g.decisions[id].state, to |-> to,
                              fromValue |-> g.decisions[id].value, toValue |-> v,
                              sequence |-> g.next]),
       !.decisions[id].state = to,
       !.decisions[id].value = v]
Transitioned_Swapped(g, id, to, v) ==
    [g EXCEPT
       !.history = Append(@, [decision |-> id, from |-> g.decisions[id].value, to |-> to,
                              fromValue |-> g.decisions[id].state, toValue |-> v,
                              sequence |-> g.next]),
       !.next = @ + 1,
       !.decisions[id].state = to,
       !.decisions[id].value = v]

\* transition: the history gets the entry, then the decision its new state.
Transitioned(g, id, to, v) ==
    [g EXCEPT
       !.history = Append(@, [decision |-> id, from |-> g.decisions[id].state, to |-> to,
                              fromValue |-> g.decisions[id].value, toValue |-> v,
                              sequence |-> g.next]),
       !.next = @ + 1,
       !.decisions[id].state = to,
       !.decisions[id].value = v]

\* defer: a deferral that names no trigger leaves the old one in place.
Deferred(g, id, v, trigger) ==
    LET moved == Transitioned(g, id, "Deferred", v)
    IN IF trigger = None THEN moved ELSE [moved EXCEPT !.decisions[id].trigger = trigger]

-----------------------------------------------------------------------------
(* Dependencies.  An id that no decision has ends a path. *)

DependsOn(g, id) == IF id \in DOMAIN g.decisions THEN g.decisions[id].dependsOn ELSE {}

Dependents(g, id) == {d \in DOMAIN g.decisions : id \in g.decisions[d].dependsOn}

\* The ids that paths of one or more dependencies lead to from id: those in
\* every set that holds id's dependencies and the dependencies of its members.
Requires(g, id) ==
    {x \in DecisionId :
       \A S \in SUBSET DecisionId :
          (DependsOn(g, id) \subseteq S /\ \A y \in S : DependsOn(g, y) \subseteq S) => x \in S}

\* What check_circular_deps answers from a start: a cycle is found wherever
\* the search from it leads, not only through the start itself.
Circular(g, id) == \E x \in Requires(g, id) \cup {id} : x \in Requires(g, x)

-----------------------------------------------------------------------------
(* The impact report of a commit *)

NowDetermined(g, id) ==
    {d \in Dependents(g, id) : g.decisions[d].state \in {"Unexplored", "Exploring"}}

\* The first loop looks at the dependents, the committed decision among them
\* when it depends on itself; the second at every other decision.
TriggeredRevisits(g, id) ==
    {d \in Dependents(g, id) \cup (DOMAIN g.decisions \ {id}) :
       g.decisions[d].state = "Deferred" /\ g.decisions[d].trigger = id}

\* Fault: a revisit is announced and listed as unaffected too.
StillOpen_Twice(g, id) ==
    {d \in DOMAIN g.decisions \ ({id} \cup Dependents(g, id)) :
       g.decisions[d].state \in {"Unexplored", "Exploring", "Deferred"}}

StillOpen(g, id) ==
    {d \in DOMAIN g.decisions \ {id} :
       /\ g.decisions[d].state \in {"Unexplored", "Exploring", "Deferred"}
       /\ d \notin Dependents(g, id) \cup TriggeredRevisits(g, id)}

Impact(g, id) ==
    [decision |-> id, value |-> g.decisions[id].value,
     nowDetermined |-> NowDetermined(g, id), stillOpen |-> StillOpen(g, id),
     triggered |-> TriggeredRevisits(g, id)]

-----------------------------------------------------------------------------
(* What a history says of the decisions *)

\* Entry j is the one that follows entry i in the history of its decision.
Follows(g, i, j) ==
    /\ i \in DOMAIN g.history /\ j \in DOMAIN g.history /\ i < j
    /\ g.history[i].decision = g.history[j].decision
    /\ \A k \in DOMAIN g.history :
          i < k /\ k < j => g.history[k].decision # g.history[j].decision

\* Entry i is the latest of the decision id.
Latest(g, i, id) ==
    /\ i \in DOMAIN g.history /\ g.history[i].decision = id
    /\ \A k \in DOMAIN g.history : i < k => g.history[k].decision # id

\* Numbered without a gap or a repeat
Numbered(g) == /\ g.next = Len(g.history) + 1
               /\ \A i \in DOMAIN g.history : g.history[i].sequence = i

\* Each entry of a decision starts where the one before it ended,
Chained(g) == \A i, j \in DOMAIN g.history :
                 Follows(g, i, j) => /\ g.history[j].from = g.history[i].to
                                     /\ g.history[j].fromValue = g.history[i].toValue

\* and the decision is where its last one left it.
EndsAtState(g) == \A id \in DOMAIN g.decisions, i \in DOMAIN g.history :
                     Latest(g, i, id) => /\ g.decisions[id].state = g.history[i].to
                                         /\ g.decisions[id].value = g.history[i].toValue

Explained(g) == Numbered(g) /\ Chained(g) /\ EndsAtState(g)

\* transition never records a move that can_transition_to refuses.
Lawful(g) == \A i \in DOMAIN g.history :
                g.history[i].to \in ValidTransitions(g.history[i].from)

\* What follows the commitment or derivation of a decision is a conflict.
Binding(g) ==
    \A i, j \in DOMAIN g.history :
       (Follows(g, i, j) /\ g.history[i].to \in {"Committed", "Derived"})
          => g.history[j].to = "Conflicted"
=============================================================================
